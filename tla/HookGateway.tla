----------------------------- MODULE HookGateway -----------------------------
(***************************************************************************)
(* `writ check', the hook gateway (crates/writ-cli/src/hook.rs): stateless *)
(* processes that decide, resolve and complete tool calls, sharing nothing *)
(* but the ledger and the decision files of the `writ ui' console.         *)
(*                                                                         *)
(* Every process of Procs serves one request at a time.  An append is one  *)
(* step here: FileLedger shows that retry_append over the store implements *)
(* an atomic append.  A scan of the ledger (locate) is one step, and what  *)
(* the process does with what it has found is a later one.                 *)
(*                                                                         *)
(* Clients pass refs back unchanged, to any request and in any order, and  *)
(* may hold refs of another ledger; the agent may report any call as run.  *)
(* Error answers other than PostToolUse's tell the client nothing, so they *)
(* are the same step as a process that dies: Abort.                        *)
(***************************************************************************)
EXTENDS Integers, Sequences, FiniteSets

CONSTANTS
    Procs,        \* `writ check' processes
    SdkCalls,     \* tool calls that come in --format writ
    ClaudeCalls,  \* tool calls that come in --format claude-code
    Modes,        \* the --ask modes in use, of "deny", "defer" and "ui"
    Approvers,    \* who a resolve may name
    Timeouts,     \* timeout_ms of the ask rules; None: no timeout
    Second,       \* clock units in a second (recorded_at has whole seconds)
    MaxDecisions, \* bound: calls decided
    MaxRecords,   \* bound: records on the ledger
    MaxTime,      \* bound: clock units
    None          \* no approver, no timeout

ASSUME GatewayAssumption ==
    /\ SdkCalls \cap ClaudeCalls = {}
    /\ Modes \subseteq {"deny", "defer", "ui"}
    /\ Timeouts \subseteq Nat \cup {None} /\ None \notin Nat
    /\ Second \in Nat \ {0} /\ MaxDecisions \in Nat /\ MaxRecords \in Nat
    /\ MaxTime \in Nat
    /\ Approvers \cap {None, "fail-closed", "web-console", "claude-prompt"} = {}
    /\ None \notin {"fail-closed", "web-console", "claude-prompt"}

VARIABLES
    ledger,       \* the records, oldest first
    now,          \* the clock
    console,      \* the console's decision file for each record index
    said,         \* the answers humans have given, by resolve or in the console
    proc,         \* what each process is doing
    told          \* the answers clients have received

vars == <<ledger, now, console, said, proc, told>>

Verdicts ==
    [kind : {"allow", "redact", "deny"}, timeout : {None}]
      \cup [kind : {"ask"}, timeout : Timeouts]

PostEvents == {"post", "postfailure"}

Rec(i) == ledger[i + 1]
Indexes == 0..(Len(ledger) - 1)
HashOf(i) == <<i, Rec(i)>>

\* The record_hash in a ref from another ledger.
Foreign == <<-1, "foreign">>

Ref(i, h, a) == [index |-> i, hash |-> h, approver |-> a]
NoRef == Ref(-1, Foreign, None)

Idle == [op |-> "none", pc |-> "idle", mode |-> "deny", call |-> None, ref |-> NoRef,
         who |-> None, approved |-> FALSE, index |-> -1, executed |-> FALSE]

Init ==
    /\ ledger = <<>> /\ now = 0
    /\ console = [i \in 0..(MaxRecords - 1) |-> "none"]
    /\ said = {} /\ told = {}
    /\ proc = [p \in Procs |-> Idle]

\* A decision's recorded_at as it is read back: RFC 3339, whole seconds.
recorded_at(i) == (Rec(i).written \div Second) * Second

AppendRec(r) ==
    /\ Len(ledger) < MaxRecords
    /\ ledger' = Append(ledger, r)

\* timeout_ms has really passed since decision i was written.
Overdue(i) ==
    Rec(i).verdict.timeout # None /\ now - Rec(i).written > Rec(i).verdict.timeout

\* A final answer to process p's client, and whether a resolve was late.
Tell(p, i, permit, a) ==
    /\ told' = told \cup {[op |-> proc[p].op, index |-> i, permit |-> permit,
                           approver |-> a,
                           late |-> proc[p].op = "resolve" /\ Overdue(i)]}
    /\ proc' = [proc EXCEPT ![p] = Idle]
-----------------------------------------------------------------------------
(***************************************************************************)
(* Requests                                                                *)
(***************************************************************************)
\* make_ref: the refs clients hold.
Issued ==
    {Ref(t.index, HashOf(t.index), t.approver) :
        t \in {u \in told : u.op \in {"decide", "resolve"}}}
      \cup {Ref(i, Foreign, None) : i \in 0..(MaxRecords - 1)}

\* decide, or Claude Code's PreToolUse.
StartDecide(p) ==
    /\ proc[p].pc = "idle"
    /\ \E c \in SdkCalls \cup ClaudeCalls, m \in Modes :
          proc' = [proc EXCEPT ![p] = [Idle EXCEPT
                     !.op = IF c \in SdkCalls THEN "decide" ELSE "pre", !.pc = "decide", !.mode = m, !.call = c]]
    /\ UNCHANGED <<ledger, now, console, said, told>>

\* Under --ask ui, and for a ref that carries an approver, resolve is refused.
StartResolve(p) ==
    /\ proc[p].pc = "idle"
    /\ \E r \in Issued, m \in Modes \ {"ui"}, ok \in BOOLEAN, a \in Approvers :
          /\ r.approver = None
          /\ proc' = [proc EXCEPT ![p] = [Idle EXCEPT
                        !.op = "resolve", !.pc = "locate", !.mode = m, !.ref = r,
                        !.approved = ok, !.who = a]]
          /\ said' = said \cup (IF r.hash = Foreign THEN {}
                                ELSE {[index |-> r.index, who |-> a, ok |-> ok]})
    /\ UNCHANGED <<ledger, now, console, told>>

StartComplete(p) ==
    /\ proc[p].pc = "idle"
    /\ \E r \in Issued, m \in Modes :
          proc' = [proc EXCEPT ![p] = [Idle EXCEPT
                     !.op = "complete", !.pc = "locate", !.mode = m, !.ref = r]]
    /\ UNCHANGED <<ledger, now, console, said, told>>

\* PostToolUse, or PostToolUseFailure: the agent says that the call was run.
StartPost(p) ==
    /\ proc[p].pc = "idle"
    /\ \E c \in ClaudeCalls, m \in Modes, e \in PostEvents :
          proc' = [proc EXCEPT ![p] = [Idle EXCEPT
                     !.op = e, !.pc = "locate", !.mode = m, !.call = c]]
    /\ UNCHANGED <<ledger, now, console, said, told>>
-----------------------------------------------------------------------------
(***************************************************************************)
(* decide_call, then op_decide or cc_pre                                   *)
(***************************************************************************)
\* The verdict is the engine's; under --ask deny the fail-closed approver
\* has answered an ask, and is on the record.
Decide(p) ==
    /\ proc[p].pc = "decide"
    /\ Cardinality({i \in Indexes : Rec(i).kind = "decision"}) < MaxDecisions
    /\ \E v \in Verdicts :
          AppendRec([kind |-> "decision", call |-> proc[p].call, verdict |-> v,
                     approver |-> IF v.kind = "ask" /\ proc[p].mode = "deny"
                                  THEN "fail-closed" ELSE None,
                     decision_index |-> -1, written |-> now])
    /\ proc' = [proc EXCEPT ![p].pc = "answer", ![p].index = Len(ledger)]
    /\ UNCHANGED <<now, console, said, told>>

\* "ask": the adapter, or Claude Code, is to ask a human.
Answer(p) ==
    /\ proc[p].pc = "answer"
    /\ LET v == Rec(proc[p].index).verdict.kind
           m == proc[p].mode
       IN  \/ /\ v \in {"allow", "redact"}
              /\ Tell(p, proc[p].index, "dispatch", None)
           \/ /\ v = "deny" \/ (v = "ask" /\ m = "deny")
              /\ Tell(p, proc[p].index, "deny", None)
           \/ /\ v = "ask" /\ m = "defer"
              /\ Tell(p, proc[p].index, "ask", None)
           \/ /\ v = "ask" /\ m = "ui"
              /\ proc' = [proc EXCEPT ![p].pc = "await"]
              /\ UNCHANGED told
    /\ UNCHANGED <<ledger, now, console, said>>

\* Mutant: no answer in time counts as approval.
AwaitConsoleFailOpen(p) ==
    /\ proc[p].pc = "await"
    /\ \/ /\ console[proc[p].index] # "denied"
          /\ Tell(p, proc[p].index, "dispatch", "web-console")
       \/ /\ console[proc[p].index] = "denied"
          /\ Tell(p, proc[p].index, "deny", None)
    /\ UNCHANGED <<ledger, now, console, said>>

\* await_decision: the console's approval, or a denial (the console's, the
\* deadline's, no console, any failure).
AwaitConsole(p) ==
    /\ proc[p].pc = "await"
    /\ \/ /\ console[proc[p].index] = "approved"
          /\ Tell(p, proc[p].index, "dispatch", "web-console")
       \/ Tell(p, proc[p].index, "deny", None)
    /\ UNCHANGED <<ledger, now, console, said>>
-----------------------------------------------------------------------------
(***************************************************************************)
(* locate and what is done with what it found                              *)
(***************************************************************************)
\* An execution record links decision i.
Executed(i) == \E j \in Indexes : Rec(j).kind = "execution" /\ Rec(j).decision_index = i

DecisionsOf(c) == {i \in Indexes : Rec(i).kind = "decision" /\ Rec(i).call = c}

\* Mutant: the ref is taken at its word.
RefTrusted(r) == TRUE

\* locate_ref: the record at the ref's index, a decision, with its hash.
RefNames(r) ==
    r.index \in Indexes /\ Rec(r.index).kind = "decision" /\ r.hash = HashOf(r.index)

\* The scan of a resolve or a complete; a bad ref is an Abort.
LocateRef(p) ==
    /\ proc[p].pc = "locate" /\ proc[p].op \in {"resolve", "complete"}
    /\ RefNames(proc[p].ref)
    /\ proc' = [proc EXCEPT ![p].pc = "located", ![p].index = proc[p].ref.index,
                            ![p].executed = Executed(proc[p].ref.index)]
    /\ UNCHANGED <<ledger, now, console, said, told>>

\* Mutant: a failed post shows the output as it is.
PostFailureShows(i) == "plain"

\* What a failing cc_post lets through: the output of a call known not to
\* be redacted, masked output otherwise.
PostFailure(i) ==
    IF i = -1 \/ Rec(i).verdict.kind = "redact" THEN "masked" ELSE "plain"

\* Claude Code cannot replace the text of a failed tool: there, no answer.
TellPost(p, i) ==
    \/ proc[p].op = "post" /\ Tell(p, i, PostFailure(i), None)
    \/ proc[p].op = "postfailure" /\ proc' = [proc EXCEPT ![p] = Idle] /\ UNCHANGED told

\* The scan of cc_post: the call's last decision; there is none, or the
\* ledger cannot be read.
LocateCall(p) ==
    /\ proc[p].pc = "locate" /\ proc[p].op \in PostEvents
    /\ LET ds == DecisionsOf(proc[p].call)
       IN  \/ TellPost(p, -1)
           \/ /\ \E i \in ds :
                    /\ \A j \in ds : j <= i
                    /\ proc' = [proc EXCEPT ![p].pc = "located", ![p].index = i,
                                            ![p].executed = Executed(i)]
              /\ UNCHANGED told
    /\ UNCHANGED <<ledger, now, console, said>>

\* Mutant: the timeout is counted from the end of the recorded second.
TimedOutRoundedUp(i) ==
    /\ Rec(i).verdict.timeout # None
    /\ now - (recorded_at(i) + Second) > Rec(i).verdict.timeout

\* The time since recorded_at exceeds the rule's timeout_ms.
TimedOut(i) ==
    /\ Rec(i).verdict.timeout # None
    /\ now - recorded_at(i) > Rec(i).verdict.timeout

\* op_resolve: writes nothing, answers an ask nobody has answered on record.
Resolve(p) ==
    /\ proc[p].pc = "located" /\ proc[p].op = "resolve"
    /\ Rec(proc[p].index).verdict.kind = "ask"
    /\ Rec(proc[p].index).approver = None
    /\ ~proc[p].executed
    /\ IF ~TimedOut(proc[p].index) /\ proc[p].approved
       THEN Tell(p, proc[p].index, "dispatch", proc[p].who)
       ELSE Tell(p, proc[p].index, "deny", None)
    /\ UNCHANGED <<ledger, now, console, said>>

Execution(i, a) ==
    [kind |-> "execution", call |-> Rec(i).call, verdict |-> None, approver |-> a,
     decision_index |-> i]

\* Mutant: any ref of an ask may complete it.
MayCompleteAnyAsk(i, a) ==
    \/ Rec(i).verdict.kind \in {"allow", "redact"} /\ a = None
    \/ Rec(i).verdict.kind = "ask" /\ Rec(i).approver = None

\* The pairs of verdict and ref that op_complete accepts.
MayComplete(i, a) ==
    \/ Rec(i).verdict.kind \in {"allow", "redact"} /\ a = None
    \/ Rec(i).verdict.kind = "ask" /\ a # None /\ Rec(i).approver = None

\* op_complete, after its scan: the execution record, with the approver the
\* ref carries.
Complete(p) ==
    /\ proc[p].pc = "located" /\ proc[p].op = "complete"
    /\ ~proc[p].executed
    /\ MayComplete(proc[p].index, proc[p].ref.approver)
    /\ AppendRec(Execution(proc[p].index, proc[p].ref.approver))
    /\ proc' = [proc EXCEPT ![p] = Idle]
    /\ UNCHANGED <<now, console, said, told>>

\* cc_post: who authorised the run ({}: nobody did, record nothing).
PostApprover(i, m) ==
    CASE Rec(i).verdict.kind \in {"allow", "redact"} -> {None}
      [] Rec(i).verdict.kind = "ask" /\ Rec(i).approver = None /\ m = "ui" ->
            IF console[i] = "approved" THEN {"web-console"} ELSE {}
      [] Rec(i).verdict.kind = "ask" /\ Rec(i).approver = None /\ m # "ui" -> {"claude-prompt"}
      [] OTHER -> {}

\* cc_post, after its scan: nobody authorised the run, it has been completed
\* already, or (at any time) the append fails.
PostRefused(p) ==
    /\ proc[p].pc = "located" /\ proc[p].op \in PostEvents
    /\ TellPost(p, proc[p].index)
    /\ UNCHANGED <<ledger, now, console, said>>

\* The execution record, then the output as for a failure: that of a redact
\* is masked by the rule's patterns, or wholly if they do not compile.
PostRecorded(p) ==
    /\ proc[p].pc = "located" /\ proc[p].op \in PostEvents
    /\ ~proc[p].executed
    /\ \E a \in PostApprover(proc[p].index, proc[p].mode) :
          AppendRec(Execution(proc[p].index, a))
    /\ TellPost(p, proc[p].index)
    /\ UNCHANGED <<now, console, said>>
-----------------------------------------------------------------------------
(***************************************************************************)
(* The rest of the world                                                   *)
(***************************************************************************)
\* An error answer, or a killed process: the client is told nothing it can
\* act on.  A record the process has appended stays.
Abort(p) ==
    /\ proc[p].pc # "idle"
    /\ proc' = [proc EXCEPT ![p] = Idle]
    /\ UNCHANGED <<ledger, now, console, said, told>>

\* The console answers an ask that no fail-closed approver has answered and
\* that has not been executed, perhaps after its gateway has stopped waiting.
ConsoleDecides(i) ==
    /\ Rec(i).kind = "decision" /\ Rec(i).verdict.kind = "ask" /\ Rec(i).approver = None
    /\ "ui" \in Modes /\ ~Executed(i)
    /\ \E ok \in BOOLEAN :
          /\ console' = [console EXCEPT ![i] = IF ok THEN "approved" ELSE "denied"]
          /\ said' = said \cup {[index |-> i, who |-> "web-console", ok |-> ok]}
    /\ UNCHANGED <<ledger, now, proc, told>>

\* gc_decisions, a day later.
ConsoleForgets(i) ==
    /\ console[i] # "none"
    /\ console' = [console EXCEPT ![i] = "none"]
    /\ UNCHANGED <<ledger, now, said, proc, told>>

Tick ==
    /\ now < MaxTime
    /\ now' = now + 1
    /\ UNCHANGED <<ledger, console, said, proc, told>>

Step(p) ==
    \/ StartDecide(p) \/ StartResolve(p) \/ StartComplete(p) \/ StartPost(p)
    \/ Decide(p) \/ Answer(p) \/ AwaitConsole(p)
    \/ LocateRef(p) \/ LocateCall(p)
    \/ Resolve(p) \/ Complete(p) \/ PostRefused(p) \/ PostRecorded(p)
    \/ Abort(p)

Next ==
    \/ \E p \in Procs : Step(p)
    \/ \E i \in Indexes : ConsoleDecides(i) \/ ConsoleForgets(i)
    \/ Tick

Spec == Init /\ [][Next]_vars
-----------------------------------------------------------------------------
(***************************************************************************)
(* Properties                                                              *)
(***************************************************************************)
Identities == Approvers \cup {None, "fail-closed", "web-console", "claude-prompt"}

TypeOK ==
    /\ Len(ledger) \in 0..MaxRecords
    /\ \A i \in Indexes :
          /\ Rec(i).kind \in {"decision", "execution"}
          /\ Rec(i).approver \in Identities
          /\ Rec(i).kind = "decision" => Rec(i).written \in 0..now
    /\ now \in 0..MaxTime
    /\ console \in [0..(MaxRecords - 1) -> {"none", "approved", "denied"}]
    /\ \A p \in Procs : proc[p].index \in {-1} \cup Indexes

\* Every Execution record links an earlier Decision that authorises it: an
\* allow or a redact, or an ask the fail-closed approver did not answer and
\* then only with an approver on the record, who is someone who approved that
\* very decision (claude-prompt stands for the agent's own prompt).  A denied
\* call never has one.
ExecutionJustified ==
    \A j \in Indexes : Rec(j).kind = "execution" =>
        LET i == Rec(j).decision_index IN
        /\ i \in 0..(j - 1) /\ Rec(i).kind = "decision"
        /\ \/ Rec(i).verdict.kind \in {"allow", "redact"} /\ Rec(j).approver = None
           \/ Rec(i).verdict.kind = "ask" /\ Rec(i).approver = None
                 /\ Rec(j).approver # None
                 /\ \/ Rec(j).approver = "claude-prompt"
                    \/ [index |-> i, who |-> Rec(j).approver, ok |-> TRUE] \in said

\* No client is told to dispatch a call before its decision is on record,
\* nor an ask that nobody approved.
DispatchJustified ==
    \A t \in told : t.permit = "dispatch" =>
        /\ t.index \in Indexes /\ Rec(t.index).kind = "decision"
        /\ \/ Rec(t.index).verdict.kind \in {"allow", "redact"}
           \/ /\ Rec(t.index).verdict.kind = "ask" /\ Rec(t.index).approver = None
              /\ [index |-> t.index, who |-> t.approver, ok |-> TRUE] \in said

\* "A timeout can fire up to 1s early, never late": an approval is honoured
\* only within timeout_ms of the decision, and a second before the end of
\* it an approval in time is always honoured.
NeverLate ==
    /\ \A t \in told : ~(t.op = "resolve" /\ t.permit = "dispatch" /\ t.late)
    /\ \A i \in Indexes : Rec(i).kind = "decision" /\ TimedOut(i) =>
          now - Rec(i).written > Rec(i).verdict.timeout - Second

\* A PostToolUse never lets the output of a redact decision through unmasked,
\* whichever of its checks fails, nor that of a call with no decision.
RedactedNeverShown ==
    \A t \in told : t.permit = "plain" =>
        t.index \in Indexes /\ Rec(t.index).verdict.kind # "redact"

\* "complete writes exactly one Execution record ... A second complete for
\* the same decision is an error."
OneExecutionPerDecision ==
    \A j, k \in Indexes :
        /\ Rec(j).kind = "execution" /\ Rec(k).kind = "execution"
        /\ Rec(j).decision_index = Rec(k).decision_index
        => j = k
==============================================================================
