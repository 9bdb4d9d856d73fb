----------------------------- MODULE UiApprovals -----------------------------
(***************************************************************************)
(* The approval queue between `writ check --ask ui' and the `writ ui'      *)
(* console (crates/writ-cli/src/ui/approvals.rs and ui.rs).  A gateway     *)
(* waiting for a human and the consoles share nothing but files: the       *)
(* request, the decision and the console's heartbeat, each replaced        *)
(* atomically (write_atomic), and one wall clock.                          *)
(*                                                                         *)
(* HookGateway takes from here that a wait ends with the console's answer  *)
(* or a denial; this module is about when the one and when the other.      *)
(***************************************************************************)
EXTENDS Integers

CONSTANTS
    Asks,               \* `ask' decisions, one gateway process waiting for each
    Formats,            \* the --format of gateways: "writ", "claude-code"
    Consoles,           \* `writ ui' processes serving the ledger
    Timeouts,           \* timeout_ms of the ask rules; None: the rule has none
    DEFAULT_TIMEOUT,
    CLAUDE_CODE_CAP,
    HEARTBEAT_STALE,
    HEARTBEAT_EVERY,
    LockWait,           \* how long recording the decision may take
    HookTimeout,        \* when Claude Code gives up on a hook
    MaxTime,            \* bound: clock units
    None

ASSUME ApprovalsAssumption ==
    /\ Formats \subseteq {"writ", "claude-code"}
    /\ None \notin Nat /\ Timeouts \subseteq Nat \cup {None}
    /\ {DEFAULT_TIMEOUT, CLAUDE_CODE_CAP, HEARTBEAT_STALE, HEARTBEAT_EVERY,
        LockWait, HookTimeout, MaxTime} \subseteq Nat
    /\ CLAUDE_CODE_CAP > 0 /\ HEARTBEAT_EVERY > 0

VARIABLES
    now,       \* the clock
    gw,        \* each gateway: where it is, and its times
    request,   \* pending/<id>.json: the deadline in it, or None
    decision,  \* decisions/<id>.json: the answer in it and when the console
               \* checked it (history), or None
    beat,      \* console.json: updated_ms, or None
    up,        \* the consoles that are running
    handler,   \* per console: None, or the answer being written
    executed,  \* asks with an Execution record on the ledger
    prompt     \* history: every gateway has been scheduled in time so far

vars == <<now, gw, request, decision, beat, up, handler, executed, prompt>>

Final == {"approved", "denied", "killed"}
Steps == {"idle", "record", "check", "request", "wait"} \cup Final

Init ==
    /\ now = 0
    /\ gw = [a \in Asks |-> [pc |-> "idle", format |-> "writ", begun |-> 0, wait |-> 0,
                             created |-> 0, start |-> 0, last_beat |-> 0, polled |-> 0,
                             checked |-> None]]
    /\ request = [a \in Asks |-> None]
    /\ decision = [a \in Asks |-> None]
    /\ beat = None
    /\ up = {}
    /\ handler = [c \in Consoles |-> None]
    /\ executed = {} /\ prompt = TRUE

heartbeat_fresh ==
    beat # None /\ now - beat \in (-HEARTBEAT_STALE)..HEARTBEAT_STALE

\* Mutant: no cap.
wait_ms_Uncapped(f, t) == IF t = None THEN DEFAULT_TIMEOUT ELSE t

\* wait_ms: the rule's timeout, capped for claude-code.
wait_ms(f, t) ==
    LET timeout == IF t = None THEN DEFAULT_TIMEOUT ELSE t
    IN  IF f = "claude-code" /\ CLAUDE_CODE_CAP < timeout THEN CLAUDE_CODE_CAP ELSE timeout
-----------------------------------------------------------------------------
(***************************************************************************)
(* The gateway: the Decision record, then await_decision                   *)
(***************************************************************************)
Begin(a) ==
    /\ gw[a].pc = "idle"
    /\ \E f \in Formats, t \in Timeouts :
          gw' = [gw EXCEPT ![a].pc = "record", ![a].format = f, ![a].begun = now,
                           ![a].wait = wait_ms(f, t)]
    /\ UNCHANGED <<now, request, decision, beat, up, handler, executed, prompt>>

\* The record is appended, or cannot be: no record, no dispatch.
RecordAsk(a) ==
    /\ gw[a].pc = "record"
    /\ \E pc \in {"check", "denied"} : gw' = [gw EXCEPT ![a].pc = pc]
    /\ UNCHANGED <<now, request, decision, beat, up, handler, executed, prompt>>

\* No fresh heartbeat, a state directory the agent could write, or an I/O
\* error: denied.
CheckConsole(a) ==
    /\ gw[a].pc = "check"
    /\ \/ heartbeat_fresh /\ gw' = [gw EXCEPT ![a].pc = "request", ![a].created = now]
       \/ gw' = [gw EXCEPT ![a].pc = "denied"]
    /\ UNCHANGED <<now, request, decision, beat, up, handler, executed, prompt>>

WriteRequest(a) ==
    /\ gw[a].pc = "request"
    /\ \/ /\ request' = [request EXCEPT ![a] = gw[a].created + gw[a].wait]
          /\ gw' = [gw EXCEPT ![a].pc = "wait", ![a].start = now, ![a].last_beat = now]
       \/ gw' = [gw EXCEPT ![a].pc = "denied"] /\ UNCHANGED request
    /\ UNCHANGED <<now, decision, beat, up, handler, executed, prompt>>

\* The wait ends with the answer d, or None; RequestFile's drop removes the
\* request.
End(a, d) ==
    /\ gw' = [gw EXCEPT ![a].pc = IF d # None /\ d.approve THEN "approved" ELSE "denied",
                        ![a].checked = IF d # None THEN d.checked ELSE None]
    /\ request' = [request EXCEPT ![a] = None]

\* Mutant: the deadline is looked at before the decision.
PollDeadlineFirst(a) ==
    /\ gw[a].pc = "wait"
    /\ IF now - gw[a].start >= gw[a].wait THEN End(a, None)
       ELSE IF decision[a] # None THEN End(a, decision[a])
       ELSE IF now - gw[a].last_beat >= HEARTBEAT_EVERY /\ ~heartbeat_fresh
       THEN End(a, None)
       ELSE gw' = [gw EXCEPT ![a].polled = now] /\ UNCHANGED request
    /\ UNCHANGED <<now, decision, beat, up, handler, executed, prompt>>

\* Mutant: the heartbeat is looked at once, before the wait.
PollIgnoresConsole(a) ==
    /\ gw[a].pc = "wait"
    /\ IF decision[a] # None THEN End(a, decision[a])
       ELSE IF now - gw[a].start >= gw[a].wait THEN End(a, None)
       ELSE gw' = [gw EXCEPT ![a].polled = now] /\ UNCHANGED request
    /\ UNCHANGED <<now, decision, beat, up, handler, executed, prompt>>

\* One turn of the loop: the decision, then the deadline, then (every
\* HEARTBEAT_EVERY) the heartbeat.
Poll(a) ==
    /\ gw[a].pc = "wait"
    /\ LET beat_due == now - gw[a].last_beat >= HEARTBEAT_EVERY
       IN  IF decision[a] # None THEN End(a, decision[a])
           ELSE IF now - gw[a].start >= gw[a].wait THEN End(a, None)
           ELSE IF beat_due /\ ~heartbeat_fresh THEN End(a, None)
           ELSE /\ gw' = [gw EXCEPT ![a].polled = now,
                                    ![a].last_beat = IF beat_due THEN now ELSE @]
                /\ UNCHANGED request
    /\ UNCHANGED <<now, decision, beat, up, handler, executed, prompt>>

\* The process is killed: nothing removes its request.
Kill(a) ==
    /\ gw[a].pc \in Steps \ (Final \cup {"idle"})
    /\ gw' = [gw EXCEPT ![a].pc = "killed"]
    /\ UNCHANGED <<now, request, decision, beat, up, handler, executed, prompt>>

\* The Execution record: complete needs the approver's ref of an approved
\* wait; PostToolUse believes the decision file (console_approval), and comes
\* whenever Claude Code has run the tool, also after a hook that was killed.
Execute(a) ==
    /\ a \notin executed
    /\ \/ gw[a].format = "writ" /\ gw[a].pc = "approved"
       \/ /\ gw[a].format = "claude-code" /\ gw[a].pc \in Final
          /\ decision[a] # None /\ decision[a].approve
    /\ executed' = executed \cup {a}
    /\ UNCHANGED <<now, gw, request, decision, beat, up, handler, prompt>>
-----------------------------------------------------------------------------
(***************************************************************************)
(* The console                                                             *)
(***************************************************************************)
StartConsole(c) ==
    /\ c \notin up
    /\ up' = up \cup {c}
    /\ UNCHANGED <<now, gw, request, decision, beat, handler, executed, prompt>>

\* Killed, at any point; console.json stays as it is.
StopConsole(c) ==
    /\ c \in up
    /\ up' = up \ {c}
    /\ handler' = [handler EXCEPT ![c] = None]
    /\ UNCHANGED <<now, gw, request, decision, beat, executed, prompt>>

\* Mutant: the heartbeat carries the time of the next one.
HeartbeatAhead(c) ==
    /\ c \in up
    /\ beat' = now + HEARTBEAT_EVERY
    /\ UNCHANGED <<now, gw, request, decision, up, handler, executed, prompt>>

\* The heartbeat thread, whenever it gets to run.
Heartbeat(c) ==
    /\ c \in up
    /\ beat' = now
    /\ UNCHANGED <<now, gw, request, decision, up, handler, executed, prompt>>

\* Mutant: the deadline in the request is not looked at.
ValidateAnyTime(c, a, approve) ==
    /\ c \in up /\ handler[c] = None
    /\ request[a] # None
    /\ a \notin executed
    /\ handler' = [handler EXCEPT ![c] = [ask |-> a, approve |-> approve, checked |-> now]]
    /\ UNCHANGED <<now, gw, request, decision, beat, up, executed, prompt>>

\* api_decide, up to its deadline check: the request matches an unresolved
\* ask (validated_pending).  The lock on the view lets a console handle one
\* answer at a time.
Validate(c, a, approve) ==
    /\ c \in up /\ handler[c] = None
    /\ request[a] # None
    /\ a \notin executed
    /\ now <= request[a]
    /\ handler' = [handler EXCEPT ![c] = [ask |-> a, approve |-> approve, checked |-> now]]
    /\ UNCHANGED <<now, gw, request, decision, beat, up, executed, prompt>>

\* write_decision replaces the file; it may fail (500).
WriteDecision(c) ==
    /\ handler[c] # None
    /\ \/ decision' = [decision EXCEPT ![handler[c].ask] =
                          [approve |-> handler[c].approve, checked |-> handler[c].checked]]
       \/ UNCHANGED decision
    /\ handler' = [handler EXCEPT ![c] = None]
    /\ UNCHANGED <<now, gw, request, beat, up, executed, prompt>>
-----------------------------------------------------------------------------
\* A gateway is scheduled in time when recording takes it at most LockWait,
\* any other step less than a clock unit, and it polls in each.
InTime(a) ==
    /\ gw[a].pc = "record" => now < gw[a].begun + LockWait
    /\ gw[a].pc \notin {"check", "request"}
    /\ gw[a].pc = "wait" => gw[a].polled = now

Tick ==
    /\ now < MaxTime
    /\ now' = now + 1
    /\ prompt' = (prompt /\ \A a \in Asks : InTime(a))
    /\ UNCHANGED <<gw, request, decision, beat, up, handler, executed>>

Next ==
    \/ \E a \in Asks :
          \/ Begin(a) \/ RecordAsk(a) \/ CheckConsole(a) \/ WriteRequest(a)
          \/ Poll(a) \/ Kill(a) \/ Execute(a)
    \/ \E c \in Consoles :
          \/ StartConsole(c) \/ StopConsole(c) \/ Heartbeat(c) \/ WriteDecision(c)
          \/ \E a \in Asks, approve \in BOOLEAN : Validate(c, a, approve)
    \/ Tick

Spec == Init /\ [][Next]_vars
-----------------------------------------------------------------------------
(***************************************************************************)
(* Properties                                                              *)
(***************************************************************************)
Times == 0..now

TypeOK ==
    /\ now \in 0..MaxTime
    /\ \A a \in Asks :
          /\ gw[a].pc \in Steps
          /\ {gw[a].begun, gw[a].created, gw[a].start, gw[a].last_beat, gw[a].polled}
                \subseteq Times
    /\ request \in [Asks -> Nat \cup {None}]
    /\ decision \in [Asks -> [approve : BOOLEAN, checked : Times] \cup {None}]
    /\ beat \in Times \cup {None}
    /\ executed \subseteq Asks /\ prompt \in BOOLEAN
    /\ up \subseteq Consoles
    /\ handler \in [Consoles -> [ask : Asks, approve : BOOLEAN, checked : Times] \cup {None}]

\* A gateway dispatches an ask only if a console approved that ask after its
\* request was made and not past the deadline in the request, however late
\* the answer is written or read.
ApprovedInTime ==
    \A a \in Asks : gw[a].pc = "approved" =>
        gw[a].checked \in gw[a].created..(gw[a].created + gw[a].wait)

\* An answer that is in the decision file while the gateway waits decides the
\* wait: neither the deadline nor a vanished console turns an approval into
\* a denial (await_inner reads the decision first).
AnswerDecidesWait ==
    [][\A a \in Asks :
          gw[a].pc = "wait" /\ gw'[a].pc # "wait" /\ decision[a] # None
             => gw'[a].pc \in {IF decision[a].approve THEN "approved" ELSE "denied",
                               "killed"}]_vars

\* "A vanished console: deny": a gateway that is scheduled waits no longer than a stale
\* heartbeat and the time between two looks at it.
VanishedConsoleDenied ==
    \A a \in Asks : prompt /\ gw[a].pc = "wait" /\ decision[a] = None =>
        beat # None /\ now - beat <= HEARTBEAT_STALE + HEARTBEAT_EVERY

\* A hook of Claude Code that is scheduled has answered once the time for
\* recording the decision and the cap on the wait are over, whatever timeout
\* the rule has and whatever the consoles do.
AnswersWithinCap ==
    \A a \in Asks :
        /\ prompt /\ gw[a].format = "claude-code"
        /\ gw[a].pc \in {"record", "check", "request", "wait"}
        => now <= gw[a].begun + LockWait + CLAUDE_CODE_CAP

\* "Claude Code does not block the tool when a hook times out ..., so writ
\* answers deny before that can happen."  It does not hold for the source's
\* numbers: LockWait and CLAUDE_CODE_CAP together are more than HookTimeout.
AnswersBeforeHookTimeout ==
    \A a \in Asks :
        /\ prompt /\ gw[a].format = "claude-code"
        /\ gw[a].pc \in {"record", "check", "request", "wait"}
        => now < gw[a].begun + HookTimeout
==============================================================================
