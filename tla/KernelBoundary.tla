--------------------------- MODULE KernelBoundary ---------------------------
(***************************************************************************)
(* What the kernel of one machine can enforce on a child, what writ        *)
(* promises to enforce, and what a confined child can then still do.       *)
(* Shared by the batch backends (Sandbox) and by `writ run' (WritRun).     *)
(*                                                                         *)
(* A place is a set of paths that writ treats alike.  Three are places of  *)
(* Windows that writ grants to nobody and the kernel leaves open all the   *)
(* same: what grants ALL APPLICATION PACKAGES write access, volumes        *)
(* without integrity labels, and the user's LocalLow.  A child's power is  *)
(* the set of places it can write, whether it can truncate files anywhere, *)
(* and the socket families it can open.                                    *)
(***************************************************************************)
EXTENDS Integers, FiniteSets

Supports == {"Full", "Partial", "Unavailable"}
Levels == {"Enforced", "Partial", "NotEnforced"}

Places == {"workspace", "temp", "state", "allowed", "ledger", "control",
           "protected", "dev", "appPackages", "noLabels", "localLow", "outside"}

\* inet stands for AF_INET and AF_INET6; uring is a socket made by io_uring,
\* x32 one made through the x32 system calls.
Families == {"unix", "inet", "netlink", "other", "uring", "x32"}

(* A machine: the operating system and what its probes answer. *)
Machines ==
    [os : {"linux", "macos", "windows", "other"}, abi : {0, 2, 3},
     seccomp : BOOLEAN, appContainer : BOOLEAN, firewall : BOOLEAN,
     lowToken : BOOLEAN]

---------------------------------------------------------------------------
(* Capabilities, probed at call time. *)

LinuxFilesystem(m) ==
    CASE m.abi <= 0 -> "Unavailable"
      [] m.abi \in {1, 2} -> "Partial"
      [] OTHER -> "Full"

LinuxNetwork(m) == IF m.seccomp THEN "Full" ELSE "Unavailable"

WindowsFilesystem(m) == IF m.appContainer THEN "Full" ELSE "Unavailable"

\* No AppContainer token, no network isolation either: the filters act on it.
WindowsNetwork(m) ==
    IF m.appContainer /\ m.firewall THEN "Full" ELSE "Unavailable"

LowTokenFilesystem(m) == IF m.lowToken THEN "Full" ELSE "Unavailable"

(* platform::capabilities, for the batch backend. *)
Capabilities(m) ==
    CASE m.os = "linux" -> [fs |-> LinuxFilesystem(m), net |-> LinuxNetwork(m)]
      [] m.os = "macos" -> [fs |-> "Full", net |-> "Full"]
      [] m.os = "windows" ->
             [fs |-> WindowsFilesystem(m), net |-> WindowsNetwork(m)]
      [] OTHER -> [fs |-> "Unavailable", net |-> "Unavailable"]

(* interactive::capabilities: a Low integrity token never filters sockets. *)
InteractiveCapabilities(m) ==
    IF m.os = "windows"
    THEN [fs |-> LowTokenFilesystem(m), net |-> "Unavailable"]
    ELSE Capabilities(m)

---------------------------------------------------------------------------
(* Planning: Refused, or what is reported and what is applied. *)

Refused == [fs |-> "Refused", net |-> "Refused", applyFs |-> FALSE, applyNet |-> FALSE]

LevelOf(support) ==
    CASE support = "Full" -> "Enforced"
      [] support = "Partial" -> "Partial"
      [] OTHER -> "NotEnforced"

Applicable(support) == support # "Unavailable"

(* enforce::plan.  An allow-list of hosts is never enforceable. *)
Plan(caps, hosts, mode) ==
    IF mode = "Required" /\ (hosts \/ caps.fs # "Full" \/ caps.net # "Full")
    THEN Refused
    ELSE [fs |-> LevelOf(caps.fs),
          net |-> IF hosts THEN "NotEnforced" ELSE LevelOf(caps.net),
          applyFs |-> Applicable(caps.fs),
          applyNet |-> ~hosts /\ Applicable(caps.net)]

\* Mutant: Required refuses nothing.
MutantInteractivePlan(caps, net, mode) ==
    IF mode = "Unconfined"
    THEN [fs |-> "NotEnforced", net |-> "NotEnforced",
          applyFs |-> FALSE, applyNet |-> FALSE]
    ELSE [fs |-> LevelOf(caps.fs), net |-> LevelOf(caps.net),
          applyFs |-> Applicable(caps.fs),
          applyNet |-> net = "None" /\ Applicable(caps.net)]

(* interactive::plan. *)
InteractivePlan(caps, net, mode) ==
    IF mode = "Unconfined"
    THEN [fs |-> "NotEnforced", net |-> "NotEnforced",
          applyFs |-> FALSE, applyNet |-> FALSE]
    ELSE IF mode = "Required"
            /\ (caps.fs # "Full" \/ (net = "None" /\ caps.net # "Full"))
    THEN Refused
    ELSE [fs |-> LevelOf(caps.fs),
          net |-> IF net = "None" THEN LevelOf(caps.net) ELSE "NotEnforced",
          applyFs |-> Applicable(caps.fs),
          applyNet |-> net = "None" /\ Applicable(caps.net)]

---------------------------------------------------------------------------
(* What the mechanisms leave a child.  `under' maps a place to the places  *)
(* that contain it.                                                        *)

Beneath(writable, under) ==
    writable \cup {p \in Places : under[p] \cap writable # {}}

NoLimits == [writes |-> Places, truncates |-> TRUE, sockets |-> Families]

(* build_ruleset: write rights beneath the writable paths and on devices;  *)
(* below ABI 3 truncate(2) is no right Landlock knows.                     *)
Landlock(m, writable, under) ==
    [writes |-> Beneath(writable, under) \cup {"dev"}, truncates |-> m.abi < 3]

\* The AF_UNIX family survives deny-all only as socketpair, which reaches
\* nobody outside the sandbox.
DenyAllFilter == {}

OpenFilter == {"unix", "inet", "netlink"}

\* Confinement::build; nothing is filtered when the network is not denied.
BatchFilter(denyNet) == IF denyNet THEN DenyAllFilter ELSE Families

\* The hardened filter goes in even with the network open, where it can.
InteractiveFilter(m, denyNet) ==
    IF denyNet THEN DenyAllFilter
    ELSE IF m.seccomp THEN OpenFilter ELSE Families

(* apply_in_child: no_new_privs, the ruleset, then the filter. *)
LinuxChild(m, writable, under, applyFs, filter) ==
    LET box == IF applyFs THEN Landlock(m, writable, under) ELSE NoLimits
    IN  [writes |-> box.writes, truncates |-> box.truncates, sockets |-> filter]

(* profile and profile_interactive: the last matching rule wins, so the    *)
(* deny rules for protected files come after the allow list.               *)
SeatbeltChild(writable, protect, under, applyFs, denyNet) ==
    [writes |-> IF applyFs
                THEN (Beneath(writable, under) \cup {"dev"}) \ protect ELSE Places,
     truncates |-> ~applyFs,
     sockets |-> IF denyNet THEN {} ELSE Families]

(* An AppContainer token writes where an ACE names its SID or ALL           *)
(* APPLICATION PACKAGES; without network capabilities it reaches nothing.  *)
AppContainerChild(aces, applyFs, allowNet) ==
    IF applyFs
    THEN [writes |-> aces \cup {"appPackages"}, truncates |-> FALSE,
          sockets |-> IF allowNet THEN Families ELSE {}]
    ELSE NoLimits

(* A Low integrity token writes whatever carries a Low label, also one that *)
(* an earlier run left or Windows itself set (LocalLow), and whatever lies *)
(* on a volume that carries no labels; `onFat' is what of the run's places *)
(* lies on one.                                                            *)
LowTokenChild(labels, onFat, under, confine) ==
    IF confine
    THEN [writes |-> Beneath(labels \cup onFat, under) \cup {"noLabels", "localLow"},
          truncates |-> FALSE, sockets |-> Families]
    ELSE NoLimits

(* What is documented to stay writable behind an enforced boundary.        *)
AppContainerResidue == {"appPackages"}
LowTokenResidue(onFat) == onFat \cup {"noLabels", "localLow"}

(* Whether a child keeps what a report says: writes within `granted', no   *)
(* truncation elsewhere, no socket when the network is said to be denied.  *)
Keeps(child, report, granted) ==
    /\ report.fs = "Enforced" =>
           child.writes \subseteq granted \cup {"dev"} /\ ~child.truncates
    /\ report.net = "Enforced" => child.sockets = {}
=============================================================================
