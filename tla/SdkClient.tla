----------------------------- MODULE SdkClient ------------------------------
(***************************************************************************)
(* The SDK adapters (adapters/python, adapters/typescript): callers in one *)
(* program share a client, the client keeps one `writ check --stdio' child *)
(* and starts another when it is gone, and every tool call goes through    *)
(* decide, (approver and resolve,) the tool, complete.                     *)
(*                                                                         *)
(* The Python client is used by threads and tasks at the same time; the    *)
(* TypeScript one by tasks of one event loop.  A caller makes one tool     *)
(* call, so a request is known by its caller and its operation, as it is   *)
(* by its id.  The client runs `--ask defer': `ask' is a deferred ask, and *)
(* an ask under `--ask deny' is answered like `deny'.                      *)
(***************************************************************************)
EXTENDS Integers, Sequences, SequencesExt, FiniteSets

CONSTANTS
    SdkCallers,
    SdkPrograms,    \* the programs considered: [lang, front, verdict, faults].  front says how
                    \* a caller is gated: by "guard" (execute, a LangGraph or OpenAI tool),
                    \* by the "hooks" of the Claude Agent SDK, or by those with the
                    \* agent's own "prompt" (canUseTool); verdict is what the policy
                    \* says of its call; faults bounds crashes, errors, bad lines,
                    \* timeouts, cancelled tasks, failed starts, and the client's close
    MaxRestarts,    \* max_restarts
    RestartWindow,  \* restart_window
    TrackCap,       \* MAX_TRACKED
    MaxSdkTime,     \* bound: the clock
    NoProgram

ASSUME SdkAssumption ==
    /\ MaxRestarts \in Nat /\ RestartWindow \in Nat /\ TrackCap \in Nat \ {0}
    /\ MaxSdkTime \in Nat
    /\ SdkPrograms \subseteq [lang : {"python", "typescript"},
                              front : [SdkCallers -> {"guard", "hooks", "prompt"}],
                              verdict : [SdkCallers -> {"allow", "redact", "deny", "ask"}],
                              faults : Nat]

VARIABLES
    program,   \* the program that runs, NoProgram before it starts
    sdk,       \* the callers
    gateways,  \* every child started so far
    current,   \* the client's child: _gateway, proc; 0 if none
    spawns,    \* _spawns
    closing,   \* close(): "no", "waiting" for the child, "closed"
    tracked,   \* the hooks' maps `dispatched' and `pendingAsks', oldest key first
    sdkLog,    \* the ledger: how many Decision and Execution records each call has
    sdkTime, sdkFaults

clientVars == <<gateways, current, spawns, closing>>
sdkVars == <<program, sdk, clientVars, tracked, sdkLog, sdkTime, sdkFaults>>

SdkVerdicts == {"allow", "redact", "deny", "ask"}

\* Nothing heard, or nothing good: an error of any kind.
Silence == [kind |-> "waiting"]
Failure == [kind |-> "error"]

NewCall ==
    [pc |-> "ensure", op |-> "decide", gw |-> 0, fut |-> Silence, decision |-> "none",
     sent |-> FALSE, said |-> "nothing", ran |-> "no", overridden |-> FALSE,
     evicted |-> FALSE, shown |-> "none"]

Python == program # NoProgram /\ program.lang = "python"
TypeScript == program # NoProgram /\ program.lang = "typescript"
GatedBy(c) == program.front[c]

SdkInit ==
    /\ program = NoProgram
    /\ sdk = [c \in SdkCallers |-> NewCall]
    /\ gateways = <<>> /\ current = 0 /\ spawns = <<>> /\ closing = "no"
    /\ tracked = [dispatched |-> <<>>, pendingAsks |-> <<>>]
    /\ sdkLog = [c \in SdkCallers |-> [decisions |-> 0, executions |-> 0]]
    /\ sdkTime = 0 /\ sdkFaults = 0

SdkStart ==
    /\ program = NoProgram /\ program' \in SdkPrograms
    /\ UNCHANGED <<sdk, clientVars, tracked, sdkLog, sdkTime, sdkFaults>>

Fault == sdkFaults < program.faults /\ sdkFaults' = sdkFaults + 1
NoFault == UNCHANGED sdkFaults

---------------------------------------------------------------------------
(***************************************************************************)
(* The child, `writ check --stdio'                                         *)
(***************************************************************************)
\* `dead' is the client's mark on it; `doomed': it was sent a signal that
\* ends it; `eof': its stdin is closed.
NewGateway ==
    [up |-> TRUE, doomed |-> FALSE, eof |-> FALSE, dead |-> FALSE,
     pending |-> <<>>, inbox |-> <<>>, outbox |-> <<>>]

(* What the gateway does with a request: the call's records after it, and  *)
(* its answer.  A Decision has the verdict of the policy.  An approval may *)
(* come too late for the rule's timeout, a call that was executed is not   *)
(* executed again, and everything may end in an `error' line.  The gateway *)
(* is HookGateway's.                                                       *)
Served(r) ==
    LET records == sdkLog[r.caller]
        verdict == program.verdict[r.caller]
    IN  {<<records, "error">>}
        \cup CASE r.op = "decide" -> {<<[records EXCEPT !.decisions = @ + 1], verdict>>}
               [] r.op = "resolve" -> {<<records, k>> : k \in {"deny"} \cup {x \in {"allow"} : r.sent}}
               [] r.op = "complete" /\ records.executions = 0 ->
                    {<<[records EXCEPT !.executions = 1], IF verdict = "redact" THEN "masked" ELSE "recorded">>}
               [] OTHER -> {}

\* serve_stdio: one line after the other; the child may die between the
\* record and the answer, and a child that is about to die may still serve.
Serve(g) ==
    /\ gateways[g].up /\ gateways[g].inbox # <<>>
    /\ LET r == Head(gateways[g].inbox) IN
       \E s \in Served(r), answered \in BOOLEAN :
          /\ sdkLog' = [sdkLog EXCEPT ![r.caller] = s[1]]
          /\ gateways' = [gateways EXCEPT
                ![g].inbox = IF answered THEN Tail(@) ELSE <<>>, ![g].up = answered,
                ![g].outbox = IF answered
                              THEN Append(@, [caller |-> r.caller, op |-> r.op, kind |-> s[2]])
                              ELSE @]
          /\ IF answered /\ s[2] # "error" THEN NoFault ELSE Fault
    /\ UNCHANGED <<program, sdk, current, spawns, closing, tracked, sdkTime>>

\* The child crashes, dies of a signal, or reads end of file; what it wrote
\* to the pipe can still be read.
ChildEnds(g) ==
    /\ gateways[g].up
    /\ gateways' = [gateways EXCEPT ![g].up = FALSE, ![g].inbox = <<>>]
    /\ IF gateways[g].doomed \/ (gateways[g].eof /\ gateways[g].inbox = <<>>) THEN NoFault ELSE Fault
    /\ UNCHANGED <<program, sdk, current, spawns, closing, tracked, sdkLog, sdkTime>>
\* A line that answers nothing, or is none.
BadLine(g) ==
    /\ gateways[g].up /\ ~gateways[g].doomed /\ Fault
    /\ gateways' = [gateways EXCEPT ![g].outbox = Append(@, [caller |-> "none", op |-> "none", kind |-> "bad"])]
    /\ UNCHANGED <<program, sdk, current, spawns, closing, tracked, sdkLog, sdkTime>>

---------------------------------------------------------------------------
(***************************************************************************)
(* The Python client                                                       *)
(***************************************************************************)
\* The client gives child g up: every caller waiting for it gets an error.
GivenUp(g) ==
    [gateways EXCEPT ![g].dead = TRUE, ![g].pending = <<>>, ![g].outbox = <<>>, ![g].doomed = TRUE]

FailedIn(g, callers) ==
    [c \in SdkCallers |-> IF c \in Range(gateways[g].pending)
                          THEN [callers[c] EXCEPT !.fut = Failure] ELSE callers[c]]

\* _fail
Fail(g, callers) == gateways' = GivenUp(g) /\ sdk' = FailedIn(g, callers)

\* A request that ends in an exception before it was submitted.
Raise(c) == sdk' = [sdk EXCEPT ![c].fut = Failure, ![c].pc = "wait"]

Alive(g) == g # 0 /\ ~gateways[g].dead /\ gateways[g].up

\* The oldest spawns are forgotten, as far as they are all out of the window.
Forgotten == {i \in DOMAIN spawns : \A j \in 1..i : sdkTime - spawns[j] > RestartWindow}
Recent == SubSeq(spawns, Cardinality(Forgotten) + 1, Len(spawns))

\* "First spawn is free; after that, at most max_restarts per window."
Exhausted == Len(Recent) > MaxRestarts

\* _ensure_gateway, under the spawn lock.  A child that is gone is closed
\* first: callers still waiting for it get an error, whatever it wrote.
Ensure(c) ==
    /\ Python /\ sdk[c].pc = "ensure"
    /\ \/ /\ closing # "no" /\ Raise(c) /\ NoFault
          /\ UNCHANGED clientVars
       \/ /\ closing = "no" /\ Alive(current) /\ NoFault
          /\ sdk' = [sdk EXCEPT ![c].gw = current, ![c].pc = "register"]
          /\ UNCHANGED clientVars
       \/ /\ closing = "no" /\ ~Alive(current)
          /\ UNCHANGED closing
          /\ LET old == IF current = 0 THEN gateways
                        ELSE [GivenUp(current) EXCEPT ![current].eof = TRUE]
                 callers == IF current = 0 THEN sdk ELSE FailedIn(current, sdk)
                 failed == [callers EXCEPT ![c].fut = Failure, ![c].pc = "wait"]
             IN  \/ /\ IF Exhausted THEN NoFault ELSE Fault    \* or argv() or Popen fails
                    /\ sdk' = failed /\ gateways' = old /\ current' = 0 /\ spawns' = Recent
                 \/ /\ ~Exhausted /\ NoFault
                    /\ gateways' = Append(old, NewGateway) /\ current' = Len(old) + 1
                    /\ spawns' = Append(Recent, sdkTime)
                    /\ sdk' = [callers EXCEPT ![c].gw = Len(old) + 1, ![c].pc = "register"]
    /\ UNCHANGED <<program, tracked, sdkLog, sdkTime>>

\* Mutant: a child that was given up still takes requests.
RegisterAnyway(c) ==
    /\ Python /\ sdk[c].pc = "register"
    /\ gateways' = [gateways EXCEPT ![sdk[c].gw].pending = Append(@, c)]
    /\ sdk' = [sdk EXCEPT ![c].fut = Silence, ![c].pc = "write"]
    /\ UNCHANGED <<program, current, spawns, closing, tracked, sdkLog, sdkTime, sdkFaults>>

\* submit, under _lock: the future is registered before the line is written.
Register(c) ==
    /\ Python /\ sdk[c].pc = "register"
    /\ IF gateways[sdk[c].gw].dead THEN Raise(c) /\ UNCHANGED gateways
       ELSE /\ gateways' = [gateways EXCEPT ![sdk[c].gw].pending = Append(@, c)]
            /\ sdk' = [sdk EXCEPT ![c].fut = Silence, ![c].pc = "write"]
    /\ UNCHANGED <<program, current, spawns, closing, tracked, sdkLog, sdkTime, sdkFaults>>

Line(c) == [caller |-> c, op |-> sdk[c].op, sent |-> sdk[c].sent]

\* submit, the write: it fails if the child is gone or its stdin closed.
Write(c) ==
    /\ Python /\ sdk[c].pc = "write"
    /\ LET g == sdk[c].gw IN
       IF gateways[g].up /\ ~gateways[g].eof
       THEN /\ gateways' = [gateways EXCEPT ![g].inbox = Append(@, Line(c))]
            /\ sdk' = [sdk EXCEPT ![c].pc = "wait"]
       ELSE Fail(g, [sdk EXCEPT ![c].fut = Failure, ![c].pc = "wait"])
    /\ UNCHANGED <<program, current, spawns, closing, tracked, sdkLog, sdkTime, sdkFaults>>

\* The future of a caller is set, unless its task was cancelled.
Delivered(g, c, answer) ==
    /\ gateways' = [gateways EXCEPT ![g].outbox = Tail(@), ![g].pending = RemoveFirst(@, c)]
    /\ sdk' = [sdk EXCEPT ![c].fut = IF @ = Silence THEN answer ELSE @]

\* _read_stdout: an answer is routed by its id.  Once the child is given up
\* nobody is pending, and the reader can change nothing.
Read(g) ==
    /\ Python /\ ~gateways[g].dead /\ gateways[g].outbox # <<>>
    /\ LET a == Head(gateways[g].outbox) IN
       IF a.kind # "bad" /\ a.caller \in Range(gateways[g].pending)
       THEN Delivered(g, a.caller, a)
       ELSE Fail(g, sdk)
    /\ UNCHANGED <<program, current, spawns, closing, tracked, sdkLog, sdkTime, sdkFaults>>

\* _read_stdout at end of file
ReadEof(g) ==
    /\ Python /\ ~gateways[g].dead /\ gateways[g].outbox = <<>> /\ ~gateways[g].up
    /\ Fail(g, sdk)
    /\ UNCHANGED <<program, current, spawns, closing, tracked, sdkLog, sdkTime, sdkFaults>>

\* _on_timeout: "everything behind a stuck request is stuck too".
TimesOut(c) ==
    /\ Python /\ sdk[c].pc = "wait" /\ sdk[c].fut = Silence /\ Fault
    /\ Fail(sdk[c].gw, [sdk EXCEPT ![c].fut = Failure])
    /\ UNCHANGED <<program, current, spawns, closing, tracked, sdkLog, sdkTime>>

\* A task of AsyncWritClient is cancelled; its request stays pending.
Cancelled(c) ==
    /\ Python /\ sdk[c].pc = "wait" /\ sdk[c].fut = Silence /\ Fault
    /\ sdk' = [sdk EXCEPT ![c].fut = Failure, ![c].gw = 0, ![c].pc = "done"]
    /\ UNCHANGED <<program, clientVars, tracked, sdkLog, sdkTime>>

\* close: no more requests, waiting callers get an error, stdin is closed.
Close ==
    /\ Python /\ closing = "no" /\ current' = 0 /\ Fault
    /\ IF current = 0 THEN closing' = "closed" /\ UNCHANGED <<gateways, sdk>>
       ELSE /\ closing' = "waiting" /\ sdk' = FailedIn(current, sdk)
            /\ gateways' = [GivenUp(current) EXCEPT ![current].doomed = gateways[current].doomed,
                                                    ![current].eof = TRUE]
    /\ UNCHANGED <<program, spawns, tracked, sdkLog, sdkTime>>

\* _Gateway.close waits for the child, the last one started, and kills it
\* after a grace period.
CloseReturns ==
    /\ Python /\ closing = "waiting" /\ closing' = "closed"
    /\ gateways' = [gateways EXCEPT ![Len(gateways)].doomed = @ \/ gateways[Len(gateways)].up]
    /\ UNCHANGED <<program, sdk, current, spawns, tracked, sdkLog, sdkTime, sdkFaults>>
---------------------------------------------------------------------------
(***************************************************************************)
(* The TypeScript client: one event loop, a queue of requests answered in  *)
(* their order, and no bound on restarts                                   *)
(***************************************************************************)
\* Mutant: the child is dropped without being killed.
PoisonUnkilled(callers) ==
    /\ current' = 0 /\ sdk' = FailedIn(current, callers)
    /\ gateways' = [GivenUp(current) EXCEPT ![current].doomed = gateways[current].doomed]

\* poison, failAll: the child is dropped and killed, the queue rejected.
Poison(callers) ==
    /\ current' = 0 /\ gateways' = GivenUp(current) /\ sdk' = FailedIn(current, callers)

\* ensureProcess: `spawn' itself reports its errors later, as a child's end.
TsProcess ==
    IF current # 0 THEN [all |-> gateways, it |-> current]
    ELSE [all |-> Append(gateways, NewGateway), it |-> Len(gateways) + 1]

\* request: enqueued and written in one turn of the event loop.  A child
\* that is gone without its `close' event yet takes the line, or refuses it.
TsRequest(c) ==
    /\ TypeScript /\ sdk[c].pc = "ensure"
    /\ \/ /\ closing # "no" /\ Raise(c) /\ NoFault /\ UNCHANGED <<gateways, current>>
       \/ /\ closing = "no" /\ current = 0 /\ Raise(c) /\ Fault    \* writ is not found
          /\ UNCHANGED <<gateways, current>>
       \/ /\ closing = "no" /\ NoFault
          /\ LET p == TsProcess IN
             /\ current' = p.it
             /\ gateways' = [p.all EXCEPT ![p.it].pending = Append(@, c),
                                          ![p.it].inbox = IF p.all[p.it].up THEN Append(@, Line(c)) ELSE @]
             /\ sdk' = [sdk EXCEPT ![c].gw = p.it, ![c].fut = Silence, ![c].pc = "wait"]
       \/ /\ closing = "no" /\ current # 0 /\ ~gateways[current].up /\ NoFault
          /\ Poison([sdk EXCEPT ![c].fut = Failure, ![c].pc = "wait"])
    /\ UNCHANGED <<program, spawns, closing, tracked, sdkLog, sdkTime>>

\* onData, onLine: an answer has to be the one to the head of the queue.
OnLine ==
    /\ TypeScript /\ current # 0 /\ gateways[current].outbox # <<>>
    /\ LET a == Head(gateways[current].outbox)
           queue == gateways[current].pending
       IN  IF a.kind # "bad" /\ queue # <<>> /\ a.caller = Head(queue)
           THEN Delivered(current, a.caller, a) /\ UNCHANGED current
           ELSE Poison(sdk)
    /\ UNCHANGED <<program, spawns, closing, tracked, sdkLog, sdkTime, sdkFaults>>

\* proc.on("close"): after stdout is drained.
OnClose ==
    /\ TypeScript /\ current # 0 /\ ~gateways[current].up /\ gateways[current].outbox = <<>>
    /\ Poison(sdk)
    /\ UNCHANGED <<program, spawns, closing, tracked, sdkLog, sdkTime, sdkFaults>>

TsTimesOut(c) ==
    /\ TypeScript /\ sdk[c].pc = "wait" /\ sdk[c].fut = Silence /\ Fault
    /\ Poison(sdk)
    /\ UNCHANGED <<program, spawns, closing, tracked, sdkLog, sdkTime>>

\* close: callers may still be answered until the child has exited, or was
\* killed after two seconds.
TsClose ==
    /\ TypeScript
    /\ \/ /\ closing = "no" /\ Fault
          /\ IF current = 0 THEN closing' = "closed" /\ UNCHANGED gateways
             ELSE closing' = "waiting" /\ gateways' = [gateways EXCEPT ![current].eof = TRUE]
          /\ UNCHANGED <<sdk, current>>
       \/ /\ closing = "waiting" /\ closing' = "closed" /\ NoFault
          /\ IF current = 0 THEN UNCHANGED <<gateways, sdk, current>> ELSE Poison(sdk)
    /\ UNCHANGED <<program, spawns, tracked, sdkLog, sdkTime>>

---------------------------------------------------------------------------
(***************************************************************************)
(* A tool call: authorize, run, record                                     *)
(***************************************************************************)
Ends(c, shown) == [sdk[c] EXCEPT !.pc = "done", !.gw = 0, !.fut = Silence, !.shown = shown]
Issue(c, op) == [sdk[c] EXCEPT !.pc = "ensure", !.op = op, !.gw = 0, !.fut = Silence]

\* track: the oldest key makes room when the map is full (TypeScript).
Track(map, c) ==
    IF TypeScript /\ Len(tracked[map]) >= TrackCap
    THEN Append(Tail(tracked[map]), c) ELSE Append(tracked[map], c)

Untrack(map, c) == RemoveFirst(tracked[map], c)

Lost(map, c, callers) ==
    IF TypeScript /\ Len(tracked[map]) >= TrackCap
    THEN [callers EXCEPT ![Head(tracked[map])].evicted = TRUE] ELSE callers

\* check_envelope: an answer to anything else is an error.
Heard(c) ==
    IF sdk[c].fut.kind = "error" \/ sdk[c].fut.caller # c \/ sdk[c].fut.op # sdk[c].op
    THEN "error" ELSE sdk[c].fut.kind

Answered(c, op) == sdk[c].pc = "wait" /\ sdk[c].fut # Silence /\ sdk[c].op = op

\* Mutant: a decide that ended in an error is asked again.
DecidedRetries(c) ==
    /\ Answered(c, "decide")
    /\ \/ Heard(c) = "error" /\ sdk' = [sdk EXCEPT ![c] = Issue(c, "decide")]
       \/ Heard(c) = "deny" /\ sdk' = [sdk EXCEPT ![c] = Ends(c, "refusal")]
       \/ Heard(c) = "ask" /\ sdk' = [sdk EXCEPT ![c].decision = "ask", ![c].pc = "ask"]
       \/ Heard(c) \in {"allow", "redact"} /\ sdk' = [sdk EXCEPT ![c].decision = Heard(c), ![c].pc = "run"]
    /\ UNCHANGED <<program, clientVars, tracked, sdkLog, sdkTime, sdkFaults>>

\* authorize after decide: an error or a denial ends the call, a deferred
\* ask goes to the approver or, with a prompt, to the agent's own.
Decided(c) ==
    /\ Answered(c, "decide")
    /\ LET k == Heard(c) IN
       \/ /\ k \in {"error", "deny"} /\ UNCHANGED tracked
          /\ sdk' = [sdk EXCEPT ![c] = Ends(c, "refusal")]
       \/ /\ k = "ask"
          /\ LET waits == [sdk EXCEPT ![c].decision = k, ![c].pc = "ask"]
             IN  IF GatedBy(c) = "prompt"
                 THEN /\ tracked' = [tracked EXCEPT !.pendingAsks = Track("pendingAsks", c)]
                      /\ sdk' = Lost("pendingAsks", c, waits)
                 ELSE sdk' = waits /\ UNCHANGED tracked
       \/ /\ k \in {"allow", "redact"}
          /\ LET goes == [sdk EXCEPT ![c].decision = k, ![c].pc = "run"]
             IN  IF GatedBy(c) = "guard" THEN sdk' = goes /\ UNCHANGED tracked
                 ELSE /\ tracked' = [tracked EXCEPT !.dispatched = Track("dispatched", c)]
                      /\ sdk' = Lost("dispatched", c, goes)
    /\ UNCHANGED <<program, clientVars, sdkLog, sdkTime, sdkFaults>>

\* _ask_sync, _ask_async, runApprover: only an explicit yes within the
\* timeout is sent as an approval; no approver at all is a no.
ApproverSays(c) ==
    /\ sdk[c].pc = "ask" /\ GatedBy(c) # "prompt"
    /\ \E said \in {"yes", "no", "late"} :
          sdk' = [sdk EXCEPT ![c] = [Issue(c, "resolve") EXCEPT !.said = said, !.sent = said = "yes"]]
    /\ UNCHANGED <<program, clientVars, tracked, sdkLog, sdkTime, sdkFaults>>

\* canUseTool: the user's answer is sent to writ.  If the ask is no longer
\* known, it is the user's answer alone that counts.
CanUseTool(c) ==
    /\ sdk[c].pc = "ask" /\ GatedBy(c) = "prompt"
    /\ \E said \in {"yes", "no"} :
       IF c \in Range(tracked.pendingAsks)
       THEN /\ tracked' = [tracked EXCEPT !.pendingAsks = Untrack("pendingAsks", c)]
            /\ sdk' = [sdk EXCEPT ![c] = [Issue(c, "resolve") EXCEPT !.said = said, !.sent = said = "yes"]]
       ELSE /\ UNCHANGED tracked
            /\ sdk' = [sdk EXCEPT ![c].said = said, ![c].pc = IF said = "yes" THEN "run" ELSE "done"]
    /\ UNCHANGED <<program, clientVars, sdkLog, sdkTime, sdkFaults>>

\* The agent's own rules let the tool run without asking the user.
AgentOverrides(c) ==
    /\ sdk[c].pc = "ask" /\ GatedBy(c) = "prompt"
    /\ sdk' = [sdk EXCEPT ![c].pc = "run", ![c].overridden = TRUE]
    /\ UNCHANGED <<program, clientVars, tracked, sdkLog, sdkTime, sdkFaults>>

\* authorize after resolve: the gateway has the last word, and never
\* against the approver.
Resolved(c) ==
    /\ Answered(c, "resolve") /\ sdk[c].ran = "no"
    /\ IF Heard(c) = "allow" /\ sdk[c].sent
       THEN LET goes == [sdk EXCEPT ![c].decision = "allow", ![c].pc = "run"]
            IN  IF GatedBy(c) = "guard" THEN sdk' = goes /\ UNCHANGED tracked
                ELSE /\ tracked' = [tracked EXCEPT !.dispatched = Track("dispatched", c)]
                     /\ sdk' = Lost("dispatched", c, goes)
       ELSE sdk' = [sdk EXCEPT ![c] = Ends(c, "refusal")] /\ UNCHANGED tracked
    /\ UNCHANGED <<program, clientVars, sdkLog, sdkTime, sdkFaults>>

\* execute: the tool returns or raises, and that is recorded.
GuardRuns(c) ==
    /\ sdk[c].pc = "run" /\ GatedBy(c) = "guard"
    /\ \E how \in {"returned", "raised"} :
          sdk' = [sdk EXCEPT ![c] = [Issue(c, "complete") EXCEPT !.ran = how]]
    /\ UNCHANGED <<program, clientVars, tracked, sdkLog, sdkTime, sdkFaults>>

\* An agent with hooks runs the tool, or decides not to.
AgentRuns(c) ==
    /\ sdk[c].pc = "run" /\ GatedBy(c) # "guard"
    /\ \/ \E how \in {"returned", "raised"} :
             sdk' = [sdk EXCEPT ![c].ran = how, ![c].pc = "after"]
       \/ sdk' = [sdk EXCEPT ![c] = Ends(c, "none")]
    /\ UNCHANGED <<program, clientVars, tracked, sdkLog, sdkTime, sdkFaults>>

\* PostToolUse, PostToolUseFailure: the decision is looked up and forgotten.
\* An ask nobody resolved is rejected, and the output withheld.
PostHook(c) ==
    /\ sdk[c].pc = "after"
    /\ IF c \in Range(tracked.dispatched)
       THEN /\ tracked' = [tracked EXCEPT !.dispatched = Untrack("dispatched", c)]
            /\ sdk' = [sdk EXCEPT ![c] = Issue(c, "complete")]
       ELSE IF c \in Range(tracked.pendingAsks) /\ sdk[c].ran = "returned"
       THEN /\ tracked' = [tracked EXCEPT !.pendingAsks = Untrack("pendingAsks", c)]
            /\ sdk' = [sdk EXCEPT ![c] = [Issue(c, "resolve") EXCEPT !.sent = FALSE]]
       ELSE /\ UNCHANGED tracked
            /\ sdk' = [sdk EXCEPT ![c] = Ends(c, IF sdk[c].ran = "raised" THEN "raised" ELSE "raw")]
    /\ UNCHANGED <<program, clientVars, sdkLog, sdkTime, sdkFaults>>

\* The rejection of an ask whose tool ran is sent, with any result.
RejectionSent(c) ==
    /\ Answered(c, "resolve") /\ sdk[c].ran # "no"
    /\ sdk' = [sdk EXCEPT ![c] = Ends(c, "withheld")]
    /\ UNCHANGED <<program, clientVars, tracked, sdkLog, sdkTime, sdkFaults>>

\* record: the redacted text for a redact verdict, the result for another,
\* and neither if `complete' failed.
GuardShows(c) ==
    IF Heard(c) = "error" \/ (sdk[c].decision = "redact" /\ Heard(c) # "masked") THEN "withheld"
    ELSE IF sdk[c].decision = "redact" THEN "masked" ELSE "raw"

\* post_tool_use (Python): what cannot be redacted is masked as a whole.
PyPostShows(c) == IF sdk[c].decision = "redact" THEN "masked" ELSE "raw"

\* postToolUse (TypeScript)
TsPostShows(c) ==
    IF sdk[c].decision # "redact" THEN "raw"
    ELSE IF Heard(c) = "masked" THEN "masked" ELSE "withheld"

Recorded(c) ==
    /\ Answered(c, "complete")
    /\ sdk' = [sdk EXCEPT ![c] = Ends(c,
          IF sdk[c].ran = "raised" THEN "raised"
          ELSE IF GatedBy(c) = "guard" THEN GuardShows(c)
          ELSE IF Python THEN PyPostShows(c) ELSE TsPostShows(c))]
    /\ UNCHANGED <<program, clientVars, tracked, sdkLog, sdkTime, sdkFaults>>

SdkTick ==
    /\ Python /\ sdkTime < MaxSdkTime /\ sdkTime' = sdkTime + 1
    /\ UNCHANGED <<program, sdk, clientVars, tracked, sdkLog, sdkFaults>>

SdkNext ==
    \/ SdkStart \/ Close \/ CloseReturns \/ TsClose \/ OnLine \/ OnClose \/ SdkTick
    \/ \E g \in DOMAIN gateways : Serve(g) \/ ChildEnds(g) \/ BadLine(g) \/ Read(g) \/ ReadEof(g)
    \/ \E c \in SdkCallers :
          \/ Ensure(c) \/ Register(c) \/ Write(c) \/ TimesOut(c) \/ Cancelled(c)
          \/ TsRequest(c) \/ TsTimesOut(c)
          \/ Decided(c) \/ ApproverSays(c) \/ CanUseTool(c) \/ AgentOverrides(c) \/ Resolved(c)
          \/ GuardRuns(c) \/ AgentRuns(c) \/ PostHook(c) \/ RejectionSent(c) \/ Recorded(c)

SdkSpec == SdkInit /\ [][SdkNext]_sdkVars

---------------------------------------------------------------------------
(***************************************************************************)
(* Properties                                                              *)
(***************************************************************************)
\* Types of the client's and the callers' state.
SdkTypeOK ==
    /\ program \in SdkPrograms \cup {NoProgram}
    /\ current \in 0..Len(gateways) /\ closing \in {"no", "waiting", "closed"}
    /\ \A g \in DOMAIN gateways : gateways[g].dead => gateways[g].pending = <<>>
    /\ \A c \in SdkCallers :
          /\ sdk[c].gw \in 0..Len(gateways)
          /\ sdk[c].decision \in SdkVerdicts \cup {"none"}
          /\ sdk[c].shown \in {"none", "refusal", "raised", "raw", "masked", "withheld"}

\* A tool runs only on a decision of its own on the ledger that allows it,
\* or that asks and was approved in time; children that crash, answer late
\* or are replaced never authorise anything ("There is no error path in this
\* package that allows a dispatch").  Excepted is what the agent itself ran
\* against its hooks, and asks its hooks had to forget.
RunsAuthorised ==
    \A c \in SdkCallers : sdk[c].ran # "no" /\ ~sdk[c].overridden /\ ~sdk[c].evicted =>
       /\ sdkLog[c].decisions = 1
       /\ \/ program.verdict[c] \in {"allow", "redact"}
          \/ program.verdict[c] = "ask" /\ sdk[c].said = "yes"

\* One tool call is at most one Decision and one Execution record, over any
\* number of children and their crashes ("A request is never retried
\* automatically: a retried decide could write a second Decision record").
NeverRetried ==
    \A c \in SdkCallers : sdkLog[c].decisions <= 1 /\ sdkLog[c].executions <= 1

\* What a guarded call returns was recorded as executed, and is masked if
\* the decision on the ledger says so; of a call the agent's hooks gate,
\* nothing that is to be redacted or was not approved gets through, unless
\* its entry was evicted.
OnlyRecordedReturned ==
    \A c \in SdkCallers :
       /\ sdk[c].shown \in {"raw", "masked"} /\ GatedBy(c) = "guard" => sdkLog[c].executions = 1
       /\ sdk[c].shown = "raw" /\ ~sdk[c].evicted =>
             /\ program.verdict[c] \in {"allow", "ask"}
             /\ program.verdict[c] = "ask" => sdk[c].said = "yes"

\* Nobody waits for a child the client has given up: whoever does not have
\* an answer is in the table of a child whose end the client will notice.
NobodyStranded ==
    \A c \in SdkCallers : sdk[c].pc \in {"write", "wait"} /\ sdk[c].fut = Silence =>
       ~gateways[sdk[c].gw].dead /\ c \in Range(gateways[sdk[c].gw].pending)

\* The client has one child that serves it; the others are gone or going,
\* and so are all when close has returned.
OneChild ==
    LET serving == {g \in DOMAIN gateways : gateways[g].up /\ ~gateways[g].doomed}
    IN  Cardinality(serving) <= IF closing = "closed" THEN 0 ELSE 1

\* "Too many restarts in restart_window": the children started within any
\* such time are at most max_restarts and the first.
RestartsBounded ==
    \A i, j \in DOMAIN spawns :
       i <= j /\ spawns[j] - spawns[i] <= RestartWindow => j - i <= MaxRestarts

\* The client keeps its state in order: one child at most serves it, over
\* timeouts, crashes and close, and restarts stay within their budget
\* (client.py _ensure_gateway, client.ts ensureProcess).
ClientOK == SdkTypeOK /\ OneChild /\ RestartsBounded

\* Every tool call is on record as the guard promises, whichever step of it
\* fails: decided once before it runs, run only with authority, executed at
\* most once on the ledger, and shown only what was recorded and masked.
RunsOnRecord == RunsAuthorised /\ NeverRetried /\ OnlyRecordedReturned
=============================================================================
