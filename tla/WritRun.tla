------------------------------ MODULE WritRun ------------------------------
(***************************************************************************)
(* `writ run -- <agent>': the launch is decided and recorded, the agent    *)
(* is wired to writ's hooks and started inside a kernel boundary with the  *)
(* user's terminal, and its exit is recorded.  Several runs may be under   *)
(* way in one directory, sharing the ledger and, on Windows, the labels    *)
(* earlier runs left behind.                                               *)
(***************************************************************************)
EXTENDS KernelBoundary, Sequences

CONSTANTS
    Runs,         \* `writ run' processes
    RunMachines,  \* the machines considered
    Requests,     \* run -> the command lines considered for it
    MaxCalls,     \* tool calls an agent makes through the hooks
    NoMachine

Agents == {"claude", "codex", "gemini", "cursor", "aider", "generic"}

(* RunArgs; `tempIn' is the set of grants that contain the system's temp   *)
(* directory, `onFat' what lies on a volume without integrity labels,      *)
(* `conflict' a command line that overrides the hooks.                     *)
RequestType ==
    [agent : Agents, unconfined : BOOLEAN, bestEffort : BOOLEAN,
     net : {"Open", "None"}, allow : {"no", "there", "missing"},
     backend : {"local-os", "docker"}, noHooks : BOOLEAN, conflict : BOOLEAN,
     ledger : {"file", "pg", "pgPassword"},
     tempIn : SUBSET {"workspace", "allowed", "ledger"},
     onFat : SUBSET {"workspace", "temp", "state", "allowed", "ledger"}]

ASSUME WritRunAssumption ==
    /\ RunMachines \subseteq Machines /\ NoMachine \notin RunMachines
    /\ \A r \in Runs : Requests[r] \subseteq RequestType
    /\ MaxCalls \in Nat

VARIABLES
    machine,    \* the machine, NoMachine before the first launch
    runs,       \* run -> its state
    log,        \* the ledger: Decision and Execution records
    labels,     \* places with a persistent Low integrity label
    announced   \* places whose label was announced on the terminal

writRunVars == <<machine, runs, log, labels, announced>>

NoReport == [fs |-> "none", net |-> "none", applyFs |-> FALSE, applyNet |-> FALSE]

Fresh ==
    [pc |-> "idle", req |-> NoReport, grants |-> {}, report |-> NoReport,
     decision |-> 0, control |-> FALSE, temp |-> FALSE, guard |-> FALSE,
     forward |-> FALSE, alive |-> FALSE, started |-> FALSE, calls |-> 0,
     counted |-> FALSE, warned |-> FALSE]

WritRunInit ==
    /\ machine = NoMachine
    /\ runs = [r \in Runs |-> Fresh]
    /\ log = <<>> /\ labels = {} /\ announced = {}

\* Ended in other ways: by Ctrl-C, SIGTERM or SIGHUP, by SIGKILL, and by giving
\* up on the agent.
Ended == {"refused", "denied", "failed", "done", "signalled", "killed", "dropped"}
At(r, pc) == runs[r].pc = pc
Req(r) == runs[r].req

Goto(r, pc) == runs' = [runs EXCEPT ![r].pc = pc]

\* Leaving run() by `?' or bail!: the control and temp directories and the
\* signal guard go with their owners.
Bail(r, pc) ==
    runs' = [runs EXCEPT ![r] = [@ EXCEPT !.pc = pc, !.control = FALSE,
                                          !.temp = FALSE, !.guard = FALSE]]

---------------------------------------------------------------------------
(* agents.rs: what writ knows about an agent *)

Hookable == {"claude", "codex", "gemini", "cursor"}

StatePlaces(agent) == IF agent = "generic" THEN {} ELSE {"state"}

ProtectedPlaces(agent) == IF agent \in Hookable THEN {"protected"} ELSE {}

\* Where the hooks come from: Codex gets them as flags.
Carrier(agent) == IF agent = "codex" THEN "argv" ELSE "control"

---------------------------------------------------------------------------
(* The command line *)

ModeOf(q) ==
    IF q.unconfined THEN "Unconfined"
    ELSE IF q.bestEffort THEN "BestEffort" ELSE "Required"

OptionsClash(q) ==
    \/ q.unconfined /\ (q.bestEffort \/ q.net = "None" \/ q.allow # "no")
    \/ ~q.unconfined /\ q.backend # "local-os"

HooksWanted(q) == q.agent \in Hookable /\ ~q.noHooks

\* check_hook_conflicts; a Cursor plugin directory conflicts with nothing.
HookConflict(q) == HooksWanted(q) /\ q.conflict /\ q.agent # "cursor"

RunPlan(m, q) == InteractivePlan(InteractiveCapabilities(m), q.net, ModeOf(q))

(* Refuse before a human is asked to approve what cannot happen. *)
Launch(r, m, q) ==
    /\ At(r, "idle")
    /\ machine \in {NoMachine, m} /\ machine' = m
    /\ runs' = [runs EXCEPT ![r].req = q, ![r].pc =
           IF OptionsClash(q) \/ HookConflict(q) \/ RunPlan(m, q) = Refused
           THEN "refused" ELSE "decide"]
    /\ UNCHANGED <<log, labels, announced>>

(* handle_call: the Decision record of the launch.  Its caller is what     *)
(* WRIT_AGENT says.                                                        *)
DecideLaunch(r) ==
    /\ At(r, "decide")
    /\ \/ \E allowed \in BOOLEAN, label \in {"unknown-agent", Req(r).agent} :
             /\ log' = Append(log, [kind |-> "Decision", run |-> r, by |-> label,
                                    of |-> Len(log) + 1])
             /\ runs' = [runs EXCEPT ![r].decision = Len(log) + 1,
                                     ![r].pc = IF allowed THEN "grant" ELSE "denied"]
       \/ Bail(r, "failed") /\ UNCHANGED log
    /\ UNCHANGED <<machine, labels, announced>>

---------------------------------------------------------------------------
(* The writable set and the hooks *)

\* State paths are made if need be, which may fail; --allow-write must exist.
Grant(r) ==
    LET q == Req(r)
        confined == ModeOf(q) # "Unconfined"
    IN  /\ At(r, "grant")
        /\ \/ confined /\ (q.allow = "missing" \/ StatePlaces(q.agent) # {}) /\ Bail(r, "failed")
           \/ /\ ~(confined /\ q.allow = "missing")
              /\ runs' = [runs EXCEPT ![r].pc = "wire", ![r].grants =
                     {"workspace"} \cup
                     IF confined
                     THEN StatePlaces(q.agent) \cup {p \in {"allowed"} : q.allow = "there"}
                     ELSE {}]
        /\ UNCHANGED <<machine, log, labels, announced>>

LedgerRefused(q) ==
    \/ q.ledger = "pgPassword"
    \/ q.ledger = "pg" /\ q.net = "None" /\ ModeOf(q) # "Unconfined"

\* The hooks run as the agent's children and append to the ledger.
LedgerGrant(q) ==
    IF q.ledger = "file" /\ ModeOf(q) # "Unconfined" THEN {"ledger"} ELSE {}

(* ControlDir::create and the settings, flags, file or plugin that carry   *)
(* the hooks.                                                              *)
Wire(r) ==
    /\ At(r, "wire")
    /\ IF ~HooksWanted(Req(r)) THEN Goto(r, "announce")
       ELSE \/ Bail(r, "failed")
            \/ /\ ~LedgerRefused(Req(r))
               /\ runs' = [runs EXCEPT ![r].pc = "announce", ![r].control = TRUE,
                                       ![r].grants = @ \cup LedgerGrant(Req(r))]
    /\ UNCHANGED <<machine, log, labels, announced>>

Labelling(r) == machine.os = "windows" /\ RunPlan(machine, Req(r)).applyFs

(* is_low_labelled *)
Labelled(p) == p \in labels

(* persistent_labels: what the run will label and does not bear one yet. *)
ToLabel(r) == IF Labelling(r) THEN {p \in runs[r].grants : ~Labelled(p)} ELSE {}

\* A label that cannot be read ends the run.
Announce(r) ==
    /\ At(r, "announce")
    /\ \/ announced' = announced \cup ToLabel(r) /\ Goto(r, "spawn")
       \/ Labelling(r) /\ Bail(r, "failed") /\ UNCHANGED announced
    /\ UNCHANGED <<machine, log, labels>>

---------------------------------------------------------------------------
(* spawn_interactive *)

\* The order of InteractiveReport.writable.
WritableOrder == <<"workspace", "temp", "state", "allowed", "ledger">>

\* What label_writable gets to before path n+1, where it ends if the volume has
\* no labels or the label cannot be set.
FirstPaths(r, n) == {WritableOrder[i] : i \in 1..n} \cap (runs[r].grants \cup {"temp"})

LabelsFirst(r, n) ==
    IF Labelling(r)
    THEN /\ FirstPaths(r, n) \cap Req(r).onFat = {}
         /\ labels' = labels \cup (FirstPaths(r, n) \ {"temp"})
    ELSE UNCHANGED labels

(* The plan again, the private temp, the labels. *)
SpawnPrepare(r) ==
    /\ At(r, "spawn")
    /\ \/ (\E n \in 0..4 : LabelsFirst(r, n)) /\ Bail(r, "failed")
       \/ /\ LabelsFirst(r, Len(WritableOrder))
          /\ runs' = [runs EXCEPT ![r].pc = "guard", ![r].temp = TRUE,
                                  ![r].report = RunPlan(machine, Req(r))]
    /\ UNCHANGED <<machine, log, announced>>

\* Mutant: signals are guarded only once the agent runs.
MutantGuardsSpawn == FALSE

\* On Windows the console handler is set only while writ waits.
GuardsSpawn == machine.os # "windows"

InstallGuard(r) ==
    /\ At(r, "guard")
    /\ runs' = [runs EXCEPT ![r].pc = "exec", ![r].guard = GuardsSpawn]
    /\ UNCHANGED <<machine, log, labels, announced>>

SpawnChild(r) ==
    /\ At(r, "exec")
    /\ \/ Bail(r, "failed")
       \/ runs' = [runs EXCEPT ![r].pc = "forward", ![r].alive = TRUE, ![r].started = TRUE]
    /\ UNCHANGED <<machine, log, labels, announced>>

ForwardTo(r) ==
    /\ At(r, "forward")
    /\ runs' = [runs EXCEPT ![r].pc = "waiting", ![r].forward = GuardsSpawn, ![r].guard = TRUE]
    /\ UNCHANGED <<machine, log, labels, announced>>

Under(r) ==
    [p \in Places |-> CASE p \in {"temp", "control"} -> Req(r).tempIn
                        [] p = "protected" -> {"workspace", "state"}
                        [] OTHER -> {}]

\* The control directory lies where the private temp does.
OnFat(q) == q.onFat \cup {p \in {"control"} : "temp" \in q.onFat}

(* What a running agent can do, now. *)
AgentPower(r) ==
    LET q == Req(r)
        p == runs[r].report
        writable == runs[r].grants \cup {"temp"}
    IN  IF ModeOf(q) = "Unconfined" THEN NoLimits
        ELSE CASE machine.os = "linux" ->
                    LinuxChild(machine, writable, Under(r), p.applyFs,
                               InteractiveFilter(machine, p.applyNet))
               [] machine.os = "macos" ->
                    SeatbeltChild(writable, ProtectedPlaces(q.agent), Under(r),
                                  p.applyFs, p.applyNet)
               [] machine.os = "windows" ->
                    LowTokenChild(labels \cup {"temp"}, OnFat(q), Under(r), p.applyFs)
               [] OTHER -> NoLimits

(* protection_level: only Seatbelt can exclude a file beneath a grant. *)
Protection(r) ==
    IF \/ ProtectedPlaces(Req(r).agent) = {}
       \/ runs[r].report.applyFs /\ machine.os = "macos"
    THEN "Enforced" ELSE "NotEnforced"

---------------------------------------------------------------------------
(* The agent *)

\* The agent has read its hooks at the start: they outlive the directory.
HooksOn(r) == HooksWanted(Req(r))

HookCall(r) ==
    /\ runs[r].alive /\ HooksOn(r) /\ runs[r].calls < MaxCalls
    /\ log' = Append(log, [kind |-> "Decision", run |-> r, by |-> Req(r).agent,
                           of |-> Len(log) + 1])
    /\ runs' = [runs EXCEPT ![r].calls = @ + 1]
    /\ UNCHANGED <<machine, labels, announced>>

AgentExit(r) ==
    /\ runs[r].alive
    /\ runs' = [runs EXCEPT ![r].alive = FALSE]
    /\ UNCHANGED <<machine, log, labels, announced>>

---------------------------------------------------------------------------
(* After the agent *)

\* wait() has reaped the agent; the guard goes when the handle is dropped, on
\* Windows at once.
Reap(r) ==
    /\ At(r, "waiting") /\ ~runs[r].alive
    /\ runs' = [runs EXCEPT ![r].pc = "reaped", ![r].guard = GuardsSpawn]
    /\ UNCHANGED <<machine, log, labels, announced>>

(* wait() fails, or writ does not get to it: printing the boundary panics  *)
(* when its terminal is gone.  InteractiveChild's drop kills nothing on    *)
(* Unix, ends the job on Windows, and removes the private temp either way. *)
DropUnwaited(r) ==
    /\ At(r, "waiting")
    /\ runs' = [runs EXCEPT ![r] = [@ EXCEPT !.pc = "dropped", !.control = FALSE,
                                             !.temp = FALSE, !.guard = FALSE,
                                             !.forward = FALSE, !.alive =
                                               runs[r].alive /\ machine.os # "windows"]]
    /\ UNCHANGED <<machine, log, labels, announced>>

DropChild(r) ==
    /\ At(r, "reaped")
    /\ runs' = [runs EXCEPT ![r].pc = "check", ![r].temp = FALSE,
                            ![r].guard = FALSE, ![r].forward = FALSE]
    /\ UNCHANGED <<machine, log, labels, announced>>

HookDecisionsSince(after, agent) ==
    {i \in DOMAIN log : i > after /\ log[i].kind = "Decision" /\ log[i].by = agent}

\* A ledger that cannot be read says nothing.
CheckHooks(r) ==
    /\ At(r, "check")
    /\ \E readable \in BOOLEAN :
          runs' = [runs EXCEPT ![r].pc = "record", ![r].counted = readable,
                     ![r].warned = /\ HooksOn(r) /\ readable
                                   /\ HookDecisionsSince(runs[r].decision, Req(r).agent) = {}]
    /\ UNCHANGED <<machine, log, labels, announced>>

\* record_execution; an append that fails may have put the record on file.
RecordRun(r) ==
    LET record == [kind |-> "Execution", run |-> r, by |-> Req(r).agent,
                   of |-> runs[r].decision]
    IN  /\ At(r, "record")
        /\ \/ log' = Append(log, record) /\ Goto(r, "recorded")
           \/ log' \in {log, Append(log, record)} /\ Bail(r, "failed")
        /\ UNCHANGED <<machine, labels, announced>>

\* The control directory, then exit(code).
Finish(r) ==
    /\ At(r, "recorded")
    /\ runs' = [runs EXCEPT ![r].pc = "done", ![r].control = FALSE]
    /\ UNCHANGED <<machine, log, labels, announced>>

---------------------------------------------------------------------------
(* Signals.  A dying writ leaves its directories; on Windows its job takes *)
(* the agent along.                                                        *)

Active(r) == runs[r].pc \notin Ended \cup {"idle"}

Die(r, pc) ==
    runs' = [runs EXCEPT ![r].pc = pc,
                         ![r].alive = @ /\ machine.os # "windows"]

\* Ctrl-C goes to the whole foreground group: the agent makes of it what it
\* likes, writ ignores it under the guard.
Interrupt(r) ==
    /\ Active(r)
    /\ \/ runs[r].guard /\ runs[r].alive /\ runs' = [runs EXCEPT ![r].alive = FALSE]
       \/ ~runs[r].guard /\ Die(r, "signalled")
    /\ UNCHANGED <<machine, log, labels, announced>>

\* SIGTERM or SIGHUP to writ alone: forwarded, once there is a pid.
Terminate(r) ==
    /\ Active(r) /\ GuardsSpawn
    /\ \/ runs[r].forward /\ runs[r].alive /\ runs' = [runs EXCEPT ![r].alive = FALSE]
       \/ ~runs[r].guard /\ Die(r, "signalled")
    /\ UNCHANGED <<machine, log, labels, announced>>

\* SIGKILL, or the end of the process from outside on Windows: nothing guards
\* against it.
KillWrit(r) ==
    /\ Active(r) /\ Die(r, "killed")
    /\ UNCHANGED <<machine, log, labels, announced>>

---------------------------------------------------------------------------
RunStep(r) ==
    \/ \E m \in RunMachines, q \in Requests[r] : Launch(r, m, q)
    \/ DecideLaunch(r) \/ Grant(r) \/ Wire(r) \/ Announce(r)
    \/ SpawnPrepare(r) \/ InstallGuard(r) \/ SpawnChild(r) \/ ForwardTo(r)
    \/ Reap(r) \/ DropUnwaited(r) \/ DropChild(r) \/ CheckHooks(r) \/ RecordRun(r) \/ Finish(r)
    \/ HookCall(r) \/ AgentExit(r) \/ Interrupt(r) \/ Terminate(r) \/ KillWrit(r)

WritRunNext == \E r \in Runs : RunStep(r)

WritRunSpec == WritRunInit /\ [][WritRunNext]_writRunVars

---------------------------------------------------------------------------
(* Type correctness of the runs and the state they share (run.rs run,      *)
(* interactive.rs InteractiveReport).                                      *)
WritRunTypeOK ==
    /\ machine \in RunMachines \cup {NoMachine}
    /\ labels \subseteq Places /\ announced \subseteq Places
    /\ \A r \in Runs :
          /\ runs[r].pc # "idle" => Req(r) \in RequestType
          /\ runs[r].grants \subseteq Places
          /\ runs[r].calls \in 0..MaxCalls
          /\ runs[r].decision \in 0..Len(log)

\* What a Low integrity process can always write.
Residue(r) == IF machine.os = "windows" THEN LowTokenResidue(OnFat(Req(r))) ELSE {}

(* While the agent runs, also after writ is gone, what the banner calls    *)
(* enforced is: writes stay in the granted places (on Windows also where a *)
(* label was announced before, and in what is documented to stay writable) *)
(* and no granted place is one that cannot be labelled; no socket under    *)
(* --net none, no protected file written when the banner calls them        *)
(* kernel-enforced; the default mode runs nothing whose boundary is not    *)
(* enforced (interactive.rs plan, spawn_interactive).                      *)
BoundaryHonest ==
    \A r \in Runs : runs[r].alive =>
       LET power == AgentPower(r)
           granted == runs[r].grants \cup {"temp"} \cup announced \cup Residue(r)
       IN  /\ Keeps(power, runs[r].report, Beneath(granted, Under(r)))
           /\ Labelling(r) => OnFat(Req(r)) \cap (runs[r].grants \cup {"temp"}) = {}
           /\ Protection(r) = "Enforced" =>
                 power.writes \cap ProtectedPlaces(Req(r).agent) = {}
           /\ ModeOf(Req(r)) = "Required" =>
                 /\ runs[r].report.fs = "Enforced"
                 /\ Req(r).net = "None" => power.sockets = {}

(* An agent behind an enforced boundary cannot write what its hooks come   *)
(* from, provided the temp directory that holds the control directory lies *)
(* in nothing that any run was granted and in nothing that cannot be       *)
(* labelled (run.rs ControlDir).                                           *)
HooksOutOfReach ==
    \A r \in Runs :
       runs[r].alive /\ HooksOn(r) /\ runs[r].report.fs = "Enforced"
       /\ Req(r).tempIn \cap (runs[r].grants \cup labels \cup Req(r).onFat) = {}
          => Carrier(Req(r).agent) \notin AgentPower(r).writes

(* The hooks of a running agent can append to the ledger from inside the   *)
(* boundary: its directory is writable, or Postgres can be reached         *)
(* (run.rs run, the ledger grant and the two refusals).                    *)
HooksCanRecord ==
    \A r \in Runs : runs[r].alive /\ HooksOn(r) =>
       IF Req(r).ledger = "file" THEN "ledger" \in AgentPower(r).writes
       ELSE "inet" \in AgentPower(r).sockets

(* No Ctrl-C, SIGTERM or SIGHUP and no failure of run() leaves an agent    *)
(* running without its writ (interactive.rs spawn_interactive, unix.rs     *)
(* SignalGuard: the guard is there before the child).  It runs on, on      *)
(* Unix alone, when writ is killed outright or drops the child without     *)
(* having waited for it; on Windows the job ends with writ.                *)
AgentNotOrphaned ==
    \A r \in Runs : runs[r].pc \in Ended /\ runs[r].alive =>
       machine.os # "windows" /\ runs[r].pc \in {"killed", "dropped"}

(* However run() ends, unless a signal ends it, the control and the temp   *)
(* directory are gone (run.rs ControlDir, interactive.rs TempDir).         *)
DirsRemoved ==
    \A r \in Runs :
       runs[r].pc \in Ended \ {"signalled", "killed"} => ~runs[r].control /\ ~runs[r].temp

(* The agent starts only after its launch was recorded, and a run has at   *)
(* most one Execution record, of its own decision, although the hooks and  *)
(* other runs append in between: one if it ends well, and none before its  *)
(* agent was reaped or if it gave up on it (run.rs run, record_execution). *)
LaunchRecorded ==
    \A r \in Runs :
       LET own == {i \in DOMAIN log : log[i].kind = "Execution" /\ log[i].run = r}
       IN  /\ runs[r].started => runs[r].decision # 0
           /\ Cardinality(own) <= 1 /\ (runs[r].pc = "done" => Cardinality(own) = 1)
           /\ own # {} => ~runs[r].alive /\ runs[r].pc \in
                              {"recorded", "done", "failed", "signalled", "killed"}
           /\ \A i \in own : log[log[i].of].run = r /\ log[i].of = runs[r].decision

(* No place gets a label that persists before it was announced on the      *)
(* terminal, by this run or an earlier one (run.rs run, interactive.rs     *)
(* persistent_labels, windows_interactive.rs label_writable).              *)
LabelsAnnounced == labels \subseteq announced

(* A run whose agent made no call through the hooks says so, unless the    *)
(* ledger cannot be read or another process recorded a decision of an      *)
(* agent of the same name; a run whose calls were decided never says so    *)
(* (run.rs hook_decisions_since).                                          *)
UngovernedWarned ==
    \A r \in Runs : runs[r].pc \in {"record", "recorded", "done"} /\ Req(r).agent \in Hookable =>
       LET others == {i \in DOMAIN log : log[i].run # r /\ log[i].kind = "Decision"
                                         /\ log[i].by = Req(r).agent}
       IN  /\ runs[r].calls > 0 => ~runs[r].warned
           /\ HooksWanted(Req(r)) /\ runs[r].calls = 0 /\ runs[r].counted /\ others = {}
                 => runs[r].warned

(* The boundary of a running agent holds what was announced of it: what it *)
(* can write and reach, what persists after it, and that its hooks work    *)
(* from inside and cannot be changed from there (run.rs, interactive.rs).  *)
BoundarySafe ==
    /\ WritRunTypeOK /\ BoundaryHonest /\ LabelsAnnounced
    /\ HooksOutOfReach /\ HooksCanRecord

(* However a run ends, by signals and failures at any point: the agent is  *)
(* not left behind, nor the directories, but in the ways the parts name;   *)
(* the launch and its end are on record, and an agent that went around its *)
(* hooks is reported (run.rs).                                             *)
LaunchAccounted ==
    AgentNotOrphaned /\ DirsRemoved /\ LaunchRecorded /\ UngovernedWarned
=============================================================================
