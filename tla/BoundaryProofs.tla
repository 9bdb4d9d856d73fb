--------------------------- MODULE BoundaryProofs ---------------------------
(***************************************************************************)
(* Safety of `writ run' and of the batch sandboxes, for any number of runs *)
(* and backends beside each other, any machines and any command lines: no  *)
(* agent without a decided and recorded launch, nothing left behind, no    *)
(* program that outlives its exec, and no report that promises more than   *)
(* the kernel was told to enforce.  And of `writ integrate', which writes  *)
(* the hooks such an agent runs under: files replaced whole, edits kept.   *)
(***************************************************************************)
EXTENDS WritRun, Sandbox, Integrate, FiniteSetTheorems, TLAPS

(***************************************************************************)
(* `writ run'                                                              *)
(***************************************************************************)

\* The places a run may be granted.
Grantable == {"workspace", "state", "allowed", "ledger"}

\* The stages of run().
Pcs == {"idle", "decide", "grant", "wire", "announce", "spawn", "guard", "exec", "forward",
        "waiting", "reaped", "check", "record", "recorded"} \cup Ended

\* Groups of stages: before and after the decision, the hooks' wiring, the
\* start of the agent, the signal handlers; and the stages after the agent.
Undecided == {"idle", "decide", "refused"}
Approved == {"grant", "wire", "announce", "spawn", "guard", "exec", "forward", "waiting",
             "reaped", "check", "record", "recorded", "done"}
Unwired == {"idle", "decide", "refused", "denied", "grant", "wire"}
Wired == {"announce", "spawn", "guard", "exec", "forward", "waiting"}
Unspawned == Unwired \cup {"announce", "spawn"}
Confined == {"guard", "exec", "forward", "waiting"}
Guarded == {"exec", "forward", "waiting"}
\* Where the end of the agent may be on record, and where signals find a run.
Recorded == {"recorded", "done", "failed", "signalled", "killed"}
Signalled == {"signalled", "killed"}

\* A run and all of its fields.
RunShape(q) ==
    q = [pc |-> q.pc, req |-> q.req, grants |-> q.grants, report |-> q.report,
         decision |-> q.decision, control |-> q.control, temp |-> q.temp, guard |-> q.guard,
         forward |-> q.forward, alive |-> q.alive, started |-> q.started, calls |-> q.calls,
         counted |-> q.counted, warned |-> q.warned]

\* The fields' values.
RunTyped(r) ==
    LET q == runs[r] IN
    /\ RunShape(q) /\ q.pc \in Pcs /\ q.grants \subseteq Grantable
    /\ q.control \in BOOLEAN /\ q.temp \in BOOLEAN /\ q.guard \in BOOLEAN
    /\ q.alive \in BOOLEAN /\ q.started \in BOOLEAN /\ q.warned \in BOOLEAN
    /\ q.calls \in 0..MaxCalls /\ q.decision \in 0..Len(log)
    /\ q.pc # "idle" => q.req \in RequestType /\ machine \in RunMachines

\* What a run is bound by while its agent runs.
RunBound(r) ==
    LET q == runs[r] IN
    /\ q.pc \notin {"idle", "refused"} => RunPlan(machine, q.req) # Refused
    /\ (q.pc \in Wired \/ q.alive) /\ HooksWanted(q.req) =>
          ~LedgerRefused(q.req) /\ LedgerGrant(q.req) \subseteq q.grants
    /\ q.pc \in Confined \/ q.alive =>
          /\ q.report = RunPlan(machine, q.req)
          /\ Labelling(r) => /\ q.grants \subseteq labels
                             /\ q.req.onFat \cap (q.grants \cup {"temp"}) = {}
    /\ q.pc = "spawn" => ToLabel(r) \subseteq announced

\* What it has on disk and which handlers it has, stage by stage.
RunEnds(r) ==
    LET q == runs[r] IN
    /\ q.pc \in Guarded /\ machine.os # "windows" => q.guard
    /\ q.alive => \/ q.pc \in {"forward", "waiting"}
                  \/ machine.os # "windows" /\ q.pc \in {"killed", "dropped"}
    /\ q.pc \in Unwired \cup (Ended \ Signalled) => ~q.control
    /\ q.pc \in Unspawned \cup {"check", "record", "recorded"} \cup (Ended \ Signalled) => ~q.temp
    /\ q.pc \in Unspawned => q.calls = 0
    /\ q.warned => ~q.alive /\ q.pc \in {"record", "recorded"} \cup Ended

\* Its execution records.
Own(r) == {i \in DOMAIN log : log[i].kind = "Execution" /\ log[i].run = r}

\* What the ledger holds of it.
RunLogged(r) ==
    LET q == runs[r] IN
    /\ q.pc \in Approved \/ q.started => q.decision # 0
    /\ q.pc \in Undecided => q.decision = 0
    /\ q.decision # 0 => log[q.decision].run = r
    /\ \A i \in DOMAIN log : log[i].run = r /\ log[i].kind = "Decision" =>
          i = q.decision \/ q.calls > 0
    /\ q.calls > 0 =>
          \E i \in DOMAIN log : /\ i > q.decision /\ log[i].kind = "Decision"
                                /\ log[i].by = q.req.agent
    /\ \A i \in Own(r) : log[i].of = q.decision /\ q.decision # 0
    /\ q.pc \notin Recorded \/ q.alive => Own(r) = {}
    /\ Own(r) = {} \/ \E k \in DOMAIN log : Own(r) = {k}
    /\ q.pc \in {"recorded", "done"} => Own(r) # {}
    /\ q.pc \in {"record", "recorded", "done"} /\ HooksWanted(q.req) /\ q.calls = 0 /\ q.counted
       /\ {i \in DOMAIN log : /\ log[i].run # r /\ log[i].kind = "Decision"
                              /\ log[i].by = q.req.agent} = {}
       => q.warned
    /\ q.warned => q.calls = 0

\* A record of the ledger.
LogEntry == [kind : {"Decision", "Execution"}, run : Runs,
             by : Agents \cup {"unknown-agent"}, of : Nat]

\* The inductive invariant.
RunInd ==
    /\ log \in Seq(LogEntry)
    /\ machine \in RunMachines \cup {NoMachine}
    /\ labels \subseteq announced /\ announced \subseteq Grantable
    /\ runs = [r \in Runs |-> runs[r]]
    /\ \A r \in Runs : RunTyped(r) /\ RunBound(r) /\ RunEnds(r) /\ RunLogged(r)
-----------------------------------------------------------------------------
\* A ledger that has grown by at most one record, of run r.
LEMMA Growth ==
    ASSUME NEW S, NEW a \in Seq(S), NEW r, NEW b,
           b = a \/ (\E e \in S : e.run = r /\ b = Append(a, e))
    PROVE  /\ b \in Seq(S) /\ Len(a) <= Len(b) /\ Len(a) \in Nat /\ Len(b) \in Nat
           /\ DOMAIN a = 1..Len(a) /\ DOMAIN a \subseteq DOMAIN b
           /\ \A i \in DOMAIN a : b[i] = a[i]
           /\ \A i \in DOMAIN b : i \notin DOMAIN a => b[i].run = r
  <1>1. CASE b = a
    BY <1>1
  <1>2. ASSUME NEW e \in S, e.run = r, b = Append(a, e)
        PROVE  /\ b \in Seq(S) /\ Len(b) = Len(a) + 1 /\ DOMAIN b = 1..(Len(a) + 1)
               /\ \A i \in 1..Len(a) : b[i] = a[i]
               /\ b[Len(a) + 1] = e
    BY <1>2
  <1>3. Len(a) \in Nat /\ DOMAIN a = 1..Len(a)
    OBVIOUS
  <1> QED BY <1>1, <1>2, <1>3

\* A ledger with one more record.
LEMMA Appended ==
    ASSUME NEW S, NEW a \in Seq(S), NEW e \in S, NEW b, b = Append(a, e)
    PROVE  /\ Len(b) = Len(a) + 1 /\ Len(a) \in Nat
           /\ DOMAIN a = 1..Len(a) /\ DOMAIN b = 1..(Len(a) + 1)
           /\ b[Len(a) + 1] = e /\ \A i \in 1..Len(a) : b[i] = a[i]
  OBVIOUS

\* A step of one run that keeps what the others rely on.
LEMMA RunMoves ==
    ASSUME RunInd, NEW r \in Runs, runs' = [runs EXCEPT ![r] = runs'[r]],
           machine' = machine \/ (machine = NoMachine /\ machine' \in RunMachines),
           log' = log \/ (\E e \in LogEntry : e.run = r /\ log' = Append(log, e)),
           labels \subseteq labels', announced \subseteq announced',
           labels' \subseteq announced', announced' \subseteq Grantable,
           RunTyped(r)', RunBound(r)', RunEnds(r)', RunLogged(r)'
    PROVE  RunInd'
  <1>1. /\ runs' = [s \in Runs |-> runs'[s]]
        /\ \A s \in Runs : s # r => runs'[s] = runs[s]
    BY DEF RunInd
  <1>2. /\ log' \in Seq(LogEntry) /\ Len(log) <= Len(log')
        /\ Len(log) \in Nat /\ Len(log') \in Nat
        /\ DOMAIN log = 1..Len(log) /\ DOMAIN log \subseteq DOMAIN log'
        /\ \A i \in DOMAIN log : log'[i] = log[i]
        /\ \A i \in DOMAIN log' : i \notin DOMAIN log => log'[i].run = r
    <2>1. log \in Seq(LogEntry)
      BY DEF RunInd
    <2> QED BY <2>1, Growth
  <1>3. machine' \in RunMachines \cup {NoMachine}
    BY DEF RunInd
  <1>4. ASSUME NEW s \in Runs, s # r
        PROVE  RunTyped(s)' /\ RunBound(s)' /\ RunEnds(s)' /\ RunLogged(s)'
    <2>1. runs'[s] = runs[s] /\ RunTyped(s) /\ RunBound(s) /\ RunEnds(s) /\ RunLogged(s)
      BY <1>1, <1>4 DEF RunInd
    <2>2. runs[s].pc # "idle" => machine' = machine
      BY <2>1, WritRunAssumption DEF RunTyped, WritRunAssumption
    <2>3. RunTyped(s)'
      <3>1. runs[s].decision \in 0..Len(log')
        BY <2>1, <1>2 DEF RunTyped
      <3>2. runs[s].pc # "idle" => machine' \in RunMachines
        BY <2>1, <2>2 DEF RunTyped
      <3> QED BY <2>1, <3>1, <3>2 DEF RunTyped, RunShape
    <2>4. RunBound(s)'
      BY <2>1, <2>2
      DEF RunBound, RunEnds, ToLabel, Labelling, Labelled, Req, Confined, Ended, Wired
    <2>5. RunEnds(s)'
      BY <2>1, <2>2 DEF RunEnds, Guarded, Unwired, Ended, Unspawned
    <2>6. RunLogged(s)'
      <3>1. Own(s)' = Own(s)
        BY <2>1, <1>2, <1>4 DEF Own
      <3>2. runs[s].decision # 0 => log'[runs[s].decision] = log[runs[s].decision]
        BY <2>1, <1>2 DEF RunTyped
      <3>3. \A i \in DOMAIN log' : log'[i].run = s => i \in DOMAIN log /\ log'[i] = log[i]
        BY <1>2, <1>4
      <3>4. DOMAIN log \subseteq DOMAIN log'
        BY <1>2
      <3>5. {i \in DOMAIN log' : /\ log'[i].run # s /\ log'[i].kind = "Decision"
                                 /\ log'[i].by = runs[s].req.agent} = {} =>
            {i \in DOMAIN log : /\ log[i].run # s /\ log[i].kind = "Decision"
                                /\ log[i].by = runs[s].req.agent} = {}
        BY <1>2, <3>4
      <3>6. runs[s].calls > 0 =>
               \E i \in DOMAIN log' : /\ i > runs[s].decision /\ log'[i].kind = "Decision"
                                      /\ log'[i].by = runs[s].req.agent
        BY <2>1, <1>2, <3>4 DEF RunLogged
      <3>7. \A i \in Own(s) : log'[i].of = runs[s].decision /\ runs[s].decision # 0
        BY <2>1, <1>2 DEF RunLogged, Own
      <3>8. Own(s) = {} \/ \E k \in DOMAIN log' : Own(s) = {k}
        BY <2>1, <3>4 DEF RunLogged
      <3>9. \A i \in DOMAIN log' : log'[i].run = s /\ log'[i].kind = "Decision" =>
               i = runs[s].decision \/ runs[s].calls > 0
        BY <2>1, <3>3 DEF RunLogged
      <3> QED BY <2>1, <3>1, <3>2, <3>5, <3>6, <3>7, <3>8, <3>9 DEF RunLogged
    <2> QED BY <2>3, <2>4, <2>5, <2>6
  <1> QED BY <1>1, <1>2, <1>3, <1>4 DEF RunInd

\* A step that records nothing.
LEMMA NothingLogged ==
    ASSUME RunInd, NEW r \in Runs, UNCHANGED log,
           runs'[r].decision = runs[r].decision, runs'[r].calls = runs[r].calls,
           runs'[r].req = runs[r].req, runs'[r].warned = runs[r].warned,
           runs'[r].pc \in Approved \/ runs'[r].started =>
              runs[r].pc \in Approved \/ runs[r].started,
           runs'[r].pc \notin {"record", "recorded", "done"},
           \/ runs[r].pc \notin Recorded
           \/ runs'[r].pc \in Recorded /\ (runs'[r].alive => runs[r].alive),
           runs'[r].pc \in Undecided => runs[r].pc \in Undecided
    PROVE  RunLogged(r)'
  BY DEF RunInd, RunLogged, Own

\* What a run has while it is under way.
LEMMA RunFacts ==
    ASSUME RunInd, NEW r \in Runs
    PROVE  /\ RunShape(runs[r]) /\ RunTyped(r) /\ RunBound(r) /\ RunEnds(r) /\ RunLogged(r)
           /\ \A q : runs' = [runs EXCEPT ![r] = q] =>
                        runs'[r] = q /\ runs' = [runs EXCEPT ![r] = runs'[r]]
  BY DEF RunInd, RunTyped

\* Leaving run() early, before the agent starts or after it has exited.
LEMMA BailKeeps ==
    ASSUME RunInd, NEW r \in Runs, Bail(r, "failed"), UNCHANGED <<machine, log, announced>>,
           runs[r].pc \in (Approved \ Recorded) \cup {"decide"}, ~runs[r].alive,
           labels \subseteq labels', labels' \subseteq announced
    PROVE  RunInd'
  <1>1. PICK t : t = runs[r]
    OBVIOUS
  <1>2. /\ RunShape(t) /\ t.pc \in (Approved \ Recorded) \cup {"decide"} /\ ~t.alive
        /\ RunTyped(r) /\ RunBound(r) /\ RunEnds(r) /\ RunLogged(r)
        /\ log' = log /\ machine' = machine /\ announced' = announced
    BY <1>1, RunFacts DEF Bail, At
  <1>3. runs' = [runs EXCEPT ![r] = [t EXCEPT !.pc = "failed",
                !.control = FALSE,
                !.temp = FALSE,
                !.guard = FALSE]]
    BY <1>1, <1>2 DEF Bail
  <1>4. /\ runs'[r] = [t EXCEPT !.pc = "failed",
                !.control = FALSE,
                !.temp = FALSE,
                !.guard = FALSE]
        /\ runs' = [runs EXCEPT ![r] = runs'[r]]
    BY <1>3, RunFacts
  <1>5. /\ RunShape(runs'[r]) /\ runs'[r].pc = "failed" /\ runs'[r].req = t.req
        /\ runs'[r].grants = t.grants /\ runs'[r].report = t.report
        /\ runs'[r].decision = t.decision /\ runs'[r].control = FALSE
        /\ runs'[r].temp = FALSE /\ runs'[r].guard = FALSE
        /\ runs'[r].forward = t.forward /\ runs'[r].alive = t.alive
        /\ runs'[r].started = t.started /\ runs'[r].calls = t.calls
        /\ runs'[r].counted = t.counted /\ runs'[r].warned = t.warned
    BY <1>2, <1>4 DEF RunShape
  <1>6. RunTyped(r)'
    BY <1>1, <1>2, <1>5 DEF RunTyped, Pcs, Ended, Approved
  <1>7. RunBound(r)'
    BY <1>1, <1>2, <1>5 DEF RunBound, RunEnds, Confined, Wired, Labelling, Req, Approved, Recorded
  <1>8. RunEnds(r)'
    BY <1>1, <1>2, <1>5 DEF RunEnds, Guarded, Unwired, Ended, Signalled, Unspawned
  <1>9. RunLogged(r)'
    BY <1>1, <1>2, <1>5, NothingLogged
    DEF Approved, Undecided, Ended, Recorded
  <1> QED
    BY <1>4, <1>6, <1>7, <1>8, <1>9, RunMoves DEF RunInd, Bail

\* The labels to come are announced.
LEMMA AnnounceKeeps ==
    ASSUME RunInd, NEW r \in Runs, Announce(r)
    PROVE  RunInd'
  <1> DEFINE Fails == Bail(r, "failed") /\ UNCHANGED announced
  <1>a. Fails => RunInd'
    BY BailKeeps DEF Announce, At, RunInd, RunEnds, Approved, Recorded
  <1> SUFFICES ASSUME ~Fails PROVE RunInd'
    BY <1>a
  <1>b. announced' = announced \cup ToLabel(r) /\ Goto(r, "spawn")
    BY DEF Announce
  <1> HIDE DEF Fails
  <1>1. PICK t : t = runs[r]
    OBVIOUS
  <1>2. /\ RunShape(t) /\ t.pc = "announce"
        /\ RunTyped(r) /\ RunBound(r) /\ RunEnds(r) /\ RunLogged(r)
        /\ log' = log /\ machine' = machine /\ labels' = labels
    BY <1>1, RunFacts DEF Announce, At
  <1>0. announced' = announced \cup ToLabel(r)
    BY <1>b DEF Announce
  <1>3. runs' = [runs EXCEPT ![r] = [t EXCEPT !.pc = "spawn"]]
    BY <1>1, <1>2, <1>b DEF Goto
  <1>4. /\ runs'[r] = [t EXCEPT !.pc = "spawn"]
        /\ runs' = [runs EXCEPT ![r] = runs'[r]]
    BY <1>3, RunFacts
  <1>5. /\ RunShape(runs'[r]) /\ runs'[r].pc = "spawn" /\ runs'[r].req = t.req
        /\ runs'[r].grants = t.grants /\ runs'[r].report = t.report
        /\ runs'[r].decision = t.decision /\ runs'[r].control = t.control
        /\ runs'[r].temp = t.temp /\ runs'[r].guard = t.guard
        /\ runs'[r].forward = t.forward /\ runs'[r].alive = t.alive
        /\ runs'[r].started = t.started /\ runs'[r].calls = t.calls
        /\ runs'[r].counted = t.counted /\ runs'[r].warned = t.warned
    BY <1>2, <1>4 DEF RunShape
  <1>6. RunTyped(r)'
    BY <1>1, <1>2, <1>5 DEF RunTyped, Pcs, Ended
  <1>7. RunBound(r)'
    BY <1>1, <1>2, <1>5, <1>0 DEF RunBound, RunEnds, Confined, Wired, Labelling, Req, ToLabel, Labelled
  <1>8. RunEnds(r)'
    BY <1>1, <1>2, <1>5 DEF RunEnds, Guarded, Unwired, Ended, Signalled, Unspawned
  <1>9. RunLogged(r)'
    BY <1>1, <1>2, <1>5, NothingLogged
    DEF Approved, Undecided, Ended, Recorded
  <1>10. announced' \subseteq Grantable
    BY <1>0, <1>1, <1>2 DEF RunInd, RunTyped, ToLabel
  <1> QED
    BY <1>4, <1>6, <1>7, <1>8, <1>9, <1>10, RunMoves DEF RunInd, Announce

\* The places the agent may write are settled.
LEMMA GrantKeeps ==
    ASSUME RunInd, NEW r \in Runs, Grant(r)
    PROVE  RunInd'
  <1>0. Bail(r, "failed") => RunInd'
    BY BailKeeps DEF Grant, At, RunInd, RunEnds, Approved, Recorded
  <1> SUFFICES ASSUME ~Bail(r, "failed") PROVE RunInd'
    BY <1>0
  <1>1. PICK t : t = runs[r]
    OBVIOUS
  <1>2. /\ RunShape(t) /\ t.pc = "grant"
        /\ RunTyped(r) /\ RunBound(r) /\ RunEnds(r) /\ RunLogged(r)
        /\ log' = log /\ machine' = machine /\ labels' = labels /\ announced' = announced
    BY <1>1, RunFacts DEF Grant, At
  <1>3. runs' = [runs EXCEPT ![r] = [t EXCEPT !.pc = "wire",
                !.grants = {"workspace"} \cup
                    IF ModeOf(t.req) # "Unconfined"
                    THEN StatePlaces(t.req.agent)
                           \cup {p \in {"allowed"} : t.req.allow = "there"}
                    ELSE {}]]
    BY <1>1, <1>2 DEF Grant, Req
  <1>4. /\ runs'[r] = [t EXCEPT !.pc = "wire",
                !.grants = {"workspace"} \cup
                    IF ModeOf(t.req) # "Unconfined"
                    THEN StatePlaces(t.req.agent)
                           \cup {p \in {"allowed"} : t.req.allow = "there"}
                    ELSE {}]
        /\ runs' = [runs EXCEPT ![r] = runs'[r]]
    BY <1>3, RunFacts, ZenonT(30)
  <1>5. /\ RunShape(runs'[r]) /\ runs'[r].pc = "wire" /\ runs'[r].req = t.req
        /\ runs'[r].grants = {"workspace"} \cup
                    IF ModeOf(t.req) # "Unconfined"
                    THEN StatePlaces(t.req.agent)
                           \cup {p \in {"allowed"} : t.req.allow = "there"}
                    ELSE {}
        /\ runs'[r].report = t.report /\ runs'[r].decision = t.decision
        /\ runs'[r].control = t.control /\ runs'[r].temp = t.temp
        /\ runs'[r].guard = t.guard /\ runs'[r].forward = t.forward
        /\ runs'[r].alive = t.alive /\ runs'[r].started = t.started
        /\ runs'[r].calls = t.calls /\ runs'[r].counted = t.counted
        /\ runs'[r].warned = t.warned
    BY <1>2, <1>4 DEF RunShape
  <1>6. RunTyped(r)'
    BY <1>1, <1>2, <1>5 DEF RunTyped, Pcs, Ended, Grantable, StatePlaces
  <1>7. RunBound(r)'
    BY <1>1, <1>2, <1>5 DEF RunBound, RunEnds, Confined, Wired, Labelling, Req, Unwired
  <1>8. RunEnds(r)'
    BY <1>1, <1>2, <1>5 DEF RunEnds, Guarded, Unwired, Ended, Signalled, Unspawned
  <1>9. RunLogged(r)'
    BY <1>1, <1>2, <1>5, NothingLogged
    DEF Approved, Undecided, Ended, Recorded
  <1> QED
    BY <1>4, <1>6, <1>7, <1>8, <1>9, RunMoves DEF RunInd, Grant

\* An agent without hooks needs no wiring.
LEMMA UnwiredKeeps ==
    ASSUME RunInd, NEW r \in Runs, Wire(r), ~HooksWanted(Req(r))
    PROVE  RunInd'
  <1>1. PICK t : t = runs[r]
    OBVIOUS
  <1>2. /\ RunShape(t) /\ t.pc = "wire" /\ ~HooksWanted(t.req)
        /\ RunTyped(r) /\ RunBound(r) /\ RunEnds(r) /\ RunLogged(r)
        /\ log' = log /\ machine' = machine /\ labels' = labels /\ announced' = announced
    BY <1>1, RunFacts DEF Wire, At, Req
  <1>3. runs' = [runs EXCEPT ![r] = [t EXCEPT !.pc = "announce"]]
    BY <1>1, <1>2 DEF Wire, Goto, Req
  <1>4. /\ runs'[r] = [t EXCEPT !.pc = "announce"]
        /\ runs' = [runs EXCEPT ![r] = runs'[r]]
    BY <1>3, RunFacts
  <1>5. /\ RunShape(runs'[r]) /\ runs'[r].pc = "announce" /\ runs'[r].req = t.req
        /\ runs'[r].grants = t.grants /\ runs'[r].report = t.report
        /\ runs'[r].decision = t.decision /\ runs'[r].control = t.control
        /\ runs'[r].temp = t.temp /\ runs'[r].guard = t.guard
        /\ runs'[r].forward = t.forward /\ runs'[r].alive = t.alive
        /\ runs'[r].started = t.started /\ runs'[r].calls = t.calls
        /\ runs'[r].counted = t.counted /\ runs'[r].warned = t.warned
    BY <1>2, <1>4 DEF RunShape
  <1>6. RunTyped(r)'
    BY <1>1, <1>2, <1>5 DEF RunTyped, Pcs, Ended
  <1>7. RunBound(r)'
    BY <1>1, <1>2, <1>5 DEF RunBound, RunEnds, Confined, Wired, Labelling, Req
  <1>8. RunEnds(r)'
    BY <1>1, <1>2, <1>5 DEF RunEnds, Guarded, Unwired, Ended, Signalled, Unspawned
  <1>9. RunLogged(r)'
    BY <1>1, <1>2, <1>5, NothingLogged
    DEF Approved, Undecided, Ended, Recorded
  <1> QED
    BY <1>4, <1>6, <1>7, <1>8, <1>9, RunMoves DEF RunInd, Wire

\* The hooks are wired, and may reach the ledger.
LEMMA WireKeeps ==
    ASSUME RunInd, NEW r \in Runs, Wire(r), HooksWanted(Req(r))
    PROVE  RunInd'
  <1>0. Bail(r, "failed") => RunInd'
    BY BailKeeps DEF Wire, At, RunInd, RunEnds, Approved, Recorded
  <1> SUFFICES ASSUME ~Bail(r, "failed") PROVE RunInd'
    BY <1>0
  <1>1. PICK t : t = runs[r]
    OBVIOUS
  <1>2. /\ RunShape(t) /\ t.pc = "wire" /\ HooksWanted(t.req) /\ ~LedgerRefused(t.req)
        /\ RunTyped(r) /\ RunBound(r) /\ RunEnds(r) /\ RunLogged(r)
        /\ log' = log /\ machine' = machine /\ labels' = labels /\ announced' = announced
    BY <1>1, RunFacts DEF Wire, At, Req
  <1>3. runs' = [runs EXCEPT ![r] = [t EXCEPT !.pc = "announce",
                !.control = TRUE,
                !.grants = t.grants \cup LedgerGrant(t.req)]]
    BY <1>1, <1>2 DEF Wire, Req
  <1>4. /\ runs'[r] = [t EXCEPT !.pc = "announce",
                !.control = TRUE,
                !.grants = t.grants \cup LedgerGrant(t.req)]
        /\ runs' = [runs EXCEPT ![r] = runs'[r]]
    BY <1>3, RunFacts
  <1>5. /\ RunShape(runs'[r]) /\ runs'[r].pc = "announce" /\ runs'[r].req = t.req
        /\ runs'[r].grants = t.grants \cup LedgerGrant(t.req)
        /\ runs'[r].report = t.report /\ runs'[r].decision = t.decision
        /\ runs'[r].control = TRUE /\ runs'[r].temp = t.temp /\ runs'[r].guard = t.guard
        /\ runs'[r].forward = t.forward /\ runs'[r].alive = t.alive
        /\ runs'[r].started = t.started /\ runs'[r].calls = t.calls
        /\ runs'[r].counted = t.counted /\ runs'[r].warned = t.warned
    BY <1>2, <1>4 DEF RunShape
  <1>6. RunTyped(r)'
    BY <1>1, <1>2, <1>5 DEF RunTyped, Pcs, Ended, Grantable, LedgerGrant
  <1>7. RunBound(r)'
    BY <1>1, <1>2, <1>5 DEF RunBound, RunEnds, Confined, Wired, Labelling, Req
  <1>8. RunEnds(r)'
    BY <1>1, <1>2, <1>5 DEF RunEnds, Guarded, Unwired, Ended, Signalled, Unspawned
  <1>9. RunLogged(r)'
    BY <1>1, <1>2, <1>5, NothingLogged
    DEF Approved, Undecided, Ended, Recorded
  <1> QED
    BY <1>4, <1>6, <1>7, <1>8, <1>9, RunMoves DEF RunInd, Wire

\* The labels are set, all of them announced.
LEMMA SpawnKeeps ==
    ASSUME RunInd, NEW r \in Runs, SpawnPrepare(r)
    PROVE  RunInd'
  <1>a. /\ labels \subseteq labels' /\ labels' \subseteq announced
        /\ log' = log /\ machine' = machine /\ announced' = announced
    <2>1. RunTyped(r) /\ RunBound(r) /\ labels \subseteq announced /\ runs[r].pc = "spawn"
      BY DEF RunInd, SpawnPrepare, At
    <2>2. ASSUME NEW n, LabelsFirst(r, n)
          PROVE  labels \subseteq labels' /\ labels' \subseteq announced
      <3>1. FirstPaths(r, n) \ {"temp"} \subseteq runs[r].grants
        BY DEF FirstPaths
      <3> QED BY <2>1, <2>2, <3>1 DEF LabelsFirst, RunBound, ToLabel, Labelled
    <2> QED BY <2>1, <2>2 DEF SpawnPrepare
  <1>0. Bail(r, "failed") => RunInd'
    BY BailKeeps, <1>a DEF SpawnPrepare, At, RunInd, RunEnds, Approved, Recorded
  <1> SUFFICES ASSUME ~Bail(r, "failed") PROVE RunInd'
    BY <1>0
  <1>1. PICK t : t = runs[r]
    OBVIOUS
  <1>2. /\ RunShape(t) /\ t.pc = "spawn"
        /\ RunTyped(r) /\ RunBound(r) /\ RunEnds(r) /\ RunLogged(r)
        /\ log' = log /\ machine' = machine /\ announced' = announced
    BY <1>1, RunFacts DEF SpawnPrepare, At
  <1>b. Labelling(r) => /\ t.grants \subseteq labels'
                       /\ t.req.onFat \cap (t.grants \cup {"temp"}) = {}
    <2>1. Grantable \cup {"temp"} \subseteq {WritableOrder[i] : i \in 1..Len(WritableOrder)}
      <3>1. /\ Len(WritableOrder) = 5 /\ WritableOrder[1] = "workspace"
            /\ WritableOrder[2] = "temp" /\ WritableOrder[3] = "state"
            /\ WritableOrder[4] = "allowed" /\ WritableOrder[5] = "ledger"
        BY DEF WritableOrder
      <3> QED BY <3>1 DEF Grantable
    <2>2. FirstPaths(r, Len(WritableOrder)) = t.grants \cup {"temp"}
      BY <1>1, <1>2, <2>1 DEF FirstPaths, RunTyped
    <2>3. LabelsFirst(r, Len(WritableOrder)) /\ t.grants \subseteq Grantable
      BY <1>1, <1>2 DEF SpawnPrepare, RunTyped
    <2> QED BY <1>1, <2>2, <2>3 DEF LabelsFirst, Req, Grantable
  <1>3. runs' = [runs EXCEPT ![r] = [t EXCEPT !.pc = "guard",
                !.temp = TRUE,
                !.report = RunPlan(machine, t.req)]]
    BY <1>1, <1>2 DEF SpawnPrepare, Req
  <1>4. /\ runs'[r] = [t EXCEPT !.pc = "guard",
                !.temp = TRUE,
                !.report = RunPlan(machine, t.req)]
        /\ runs' = [runs EXCEPT ![r] = runs'[r]]
    BY <1>3, RunFacts
  <1>5. /\ RunShape(runs'[r]) /\ runs'[r].pc = "guard" /\ runs'[r].req = t.req
        /\ runs'[r].grants = t.grants /\ runs'[r].report = RunPlan(machine, t.req)
        /\ runs'[r].decision = t.decision /\ runs'[r].control = t.control
        /\ runs'[r].temp = TRUE /\ runs'[r].guard = t.guard
        /\ runs'[r].forward = t.forward /\ runs'[r].alive = t.alive
        /\ runs'[r].started = t.started /\ runs'[r].calls = t.calls
        /\ runs'[r].counted = t.counted /\ runs'[r].warned = t.warned
    BY <1>2, <1>4 DEF RunShape
  <1>6. RunTyped(r)'
    BY <1>1, <1>2, <1>5 DEF RunTyped, Pcs, Ended
  <1>7. RunBound(r)'
    BY <1>1, <1>2, <1>5, <1>b DEF RunBound, RunEnds, Confined, Wired, Labelling, Req
  <1>8. RunEnds(r)'
    BY <1>1, <1>2, <1>5 DEF RunEnds, Guarded, Unwired, Ended, Signalled, Unspawned
  <1>9. RunLogged(r)'
    BY <1>1, <1>2, <1>5, NothingLogged
    DEF Approved, Undecided, Ended, Recorded
  <1> QED
    BY <1>4, <1>6, <1>7, <1>8, <1>9, <1>a, RunMoves DEF RunInd, SpawnPrepare

\* Signals are guarded, but on Windows.
LEMMA GuardKeeps ==
    ASSUME RunInd, NEW r \in Runs, InstallGuard(r)
    PROVE  RunInd'
  <1>1. PICK t : t = runs[r]
    OBVIOUS
  <1>2. /\ RunShape(t) /\ t.pc = "guard"
        /\ RunTyped(r) /\ RunBound(r) /\ RunEnds(r) /\ RunLogged(r)
        /\ log' = log /\ machine' = machine /\ labels' = labels /\ announced' = announced
    BY <1>1, RunFacts DEF InstallGuard, At
  <1>3. runs' = [runs EXCEPT ![r] = [t EXCEPT !.pc = "exec", !.guard = GuardsSpawn]]
    BY <1>1, <1>2 DEF InstallGuard
  <1>4. /\ runs'[r] = [t EXCEPT !.pc = "exec", !.guard = GuardsSpawn]
        /\ runs' = [runs EXCEPT ![r] = runs'[r]]
    BY <1>3, RunFacts
  <1>5. /\ RunShape(runs'[r]) /\ runs'[r].pc = "exec" /\ runs'[r].req = t.req
        /\ runs'[r].grants = t.grants /\ runs'[r].report = t.report
        /\ runs'[r].decision = t.decision /\ runs'[r].control = t.control
        /\ runs'[r].temp = t.temp /\ runs'[r].guard = GuardsSpawn
        /\ runs'[r].forward = t.forward /\ runs'[r].alive = t.alive
        /\ runs'[r].started = t.started /\ runs'[r].calls = t.calls
        /\ runs'[r].counted = t.counted /\ runs'[r].warned = t.warned
    BY <1>2, <1>4 DEF RunShape
  <1>6. RunTyped(r)'
    BY <1>1, <1>2, <1>5 DEF RunTyped, Pcs, Ended, GuardsSpawn
  <1>7. RunBound(r)'
    BY <1>1, <1>2, <1>5 DEF RunBound, RunEnds, Confined, Wired, Labelling, Req
  <1>8. RunEnds(r)'
    BY <1>1, <1>2, <1>5 DEF RunEnds, Guarded, Unwired, Ended, Signalled, Unspawned, GuardsSpawn
  <1>9. RunLogged(r)'
    BY <1>1, <1>2, <1>5, NothingLogged
    DEF Approved, Undecided, Ended, Recorded
  <1> QED
    BY <1>4, <1>6, <1>7, <1>8, <1>9, RunMoves DEF RunInd, InstallGuard

\* The agent starts.
LEMMA SpawnChildKeeps ==
    ASSUME RunInd, NEW r \in Runs, SpawnChild(r)
    PROVE  RunInd'
  <1>0. Bail(r, "failed") => RunInd'
    BY BailKeeps DEF SpawnChild, At, RunInd, RunEnds, Approved, Recorded
  <1> SUFFICES ASSUME ~Bail(r, "failed") PROVE RunInd'
    BY <1>0
  <1>1. PICK t : t = runs[r]
    OBVIOUS
  <1>2. /\ RunShape(t) /\ t.pc = "exec"
        /\ RunTyped(r) /\ RunBound(r) /\ RunEnds(r) /\ RunLogged(r)
        /\ log' = log /\ machine' = machine /\ labels' = labels /\ announced' = announced
    BY <1>1, RunFacts DEF SpawnChild, At
  <1>3. runs' = [runs EXCEPT ![r] = [t EXCEPT !.pc = "forward", !.alive = TRUE,
                                           !.started = TRUE]]
    BY <1>1, <1>2 DEF SpawnChild
  <1>4. /\ runs'[r] = [t EXCEPT !.pc = "forward", !.alive = TRUE, !.started = TRUE]
        /\ runs' = [runs EXCEPT ![r] = runs'[r]]
    BY <1>3, RunFacts
  <1>5. /\ RunShape(runs'[r]) /\ runs'[r].pc = "forward" /\ runs'[r].req = t.req
        /\ runs'[r].grants = t.grants /\ runs'[r].report = t.report
        /\ runs'[r].decision = t.decision /\ runs'[r].control = t.control
        /\ runs'[r].temp = t.temp /\ runs'[r].guard = t.guard
        /\ runs'[r].forward = t.forward /\ runs'[r].alive = TRUE
        /\ runs'[r].started = TRUE /\ runs'[r].calls = t.calls
        /\ runs'[r].counted = t.counted /\ runs'[r].warned = t.warned
    BY <1>2, <1>4 DEF RunShape
  <1>6. RunTyped(r)'
    BY <1>1, <1>2, <1>5 DEF RunTyped, Pcs, Ended
  <1>7. RunBound(r)'
    BY <1>1, <1>2, <1>5 DEF RunBound, RunEnds, Confined, Wired, Labelling, Req
  <1>8. RunEnds(r)'
    BY <1>1, <1>2, <1>5 DEF RunEnds, Guarded, Unwired, Ended, Signalled, Unspawned
  <1>9. RunLogged(r)'
    BY <1>1, <1>2, <1>5, NothingLogged
    DEF Approved, Undecided, Ended, Recorded
  <1> QED
    BY <1>4, <1>6, <1>7, <1>8, <1>9, RunMoves DEF RunInd, SpawnChild

\* Signals are forwarded from now on.
LEMMA ForwardKeeps ==
    ASSUME RunInd, NEW r \in Runs, ForwardTo(r)
    PROVE  RunInd'
  <1>1. PICK t : t = runs[r]
    OBVIOUS
  <1>2. /\ RunShape(t) /\ t.pc = "forward"
        /\ RunTyped(r) /\ RunBound(r) /\ RunEnds(r) /\ RunLogged(r)
        /\ log' = log /\ machine' = machine /\ labels' = labels /\ announced' = announced
    BY <1>1, RunFacts DEF ForwardTo, At
  <1>3. runs' = [runs EXCEPT ![r] = [t EXCEPT !.pc = "waiting", !.forward = GuardsSpawn,
                                           !.guard = TRUE]]
    BY <1>1, <1>2 DEF ForwardTo
  <1>4. /\ runs'[r] = [t EXCEPT !.pc = "waiting", !.forward = GuardsSpawn, !.guard = TRUE]
        /\ runs' = [runs EXCEPT ![r] = runs'[r]]
    BY <1>3, RunFacts
  <1>5. /\ RunShape(runs'[r]) /\ runs'[r].pc = "waiting" /\ runs'[r].req = t.req
        /\ runs'[r].grants = t.grants /\ runs'[r].report = t.report
        /\ runs'[r].decision = t.decision /\ runs'[r].control = t.control
        /\ runs'[r].temp = t.temp /\ runs'[r].guard = TRUE
        /\ runs'[r].forward = GuardsSpawn /\ runs'[r].alive = t.alive
        /\ runs'[r].started = t.started /\ runs'[r].calls = t.calls
        /\ runs'[r].counted = t.counted /\ runs'[r].warned = t.warned
    BY <1>2, <1>4 DEF RunShape
  <1>6. RunTyped(r)'
    BY <1>1, <1>2, <1>5 DEF RunTyped, Pcs, Ended
  <1>7. RunBound(r)'
    BY <1>1, <1>2, <1>5 DEF RunBound, RunEnds, Confined, Wired, Labelling, Req
  <1>8. RunEnds(r)'
    BY <1>1, <1>2, <1>5 DEF RunEnds, Guarded, Unwired, Ended, Signalled, Unspawned
  <1>9. RunLogged(r)'
    BY <1>1, <1>2, <1>5, NothingLogged
    DEF Approved, Undecided, Ended, Recorded
  <1> QED
    BY <1>4, <1>6, <1>7, <1>8, <1>9, RunMoves DEF RunInd, ForwardTo

\* The agent has been waited for.
LEMMA ReapKeeps ==
    ASSUME RunInd, NEW r \in Runs, Reap(r)
    PROVE  RunInd'
  <1>1. PICK t : t = runs[r]
    OBVIOUS
  <1>2. /\ RunShape(t) /\ t.pc = "waiting" /\ ~t.alive
        /\ RunTyped(r) /\ RunBound(r) /\ RunEnds(r) /\ RunLogged(r)
        /\ log' = log /\ machine' = machine /\ labels' = labels /\ announced' = announced
    BY <1>1, RunFacts DEF Reap, At
  <1>3. runs' = [runs EXCEPT ![r] = [t EXCEPT !.pc = "reaped", !.guard = GuardsSpawn]]
    BY <1>1, <1>2 DEF Reap
  <1>4. /\ runs'[r] = [t EXCEPT !.pc = "reaped", !.guard = GuardsSpawn]
        /\ runs' = [runs EXCEPT ![r] = runs'[r]]
    BY <1>3, RunFacts
  <1>5. /\ RunShape(runs'[r]) /\ runs'[r].pc = "reaped" /\ runs'[r].req = t.req
        /\ runs'[r].grants = t.grants /\ runs'[r].report = t.report
        /\ runs'[r].decision = t.decision /\ runs'[r].control = t.control
        /\ runs'[r].temp = t.temp /\ runs'[r].guard = GuardsSpawn
        /\ runs'[r].forward = t.forward /\ runs'[r].alive = t.alive
        /\ runs'[r].started = t.started /\ runs'[r].calls = t.calls
        /\ runs'[r].counted = t.counted /\ runs'[r].warned = t.warned
    BY <1>2, <1>4 DEF RunShape
  <1>6. RunTyped(r)'
    BY <1>1, <1>2, <1>5 DEF RunTyped, Pcs, Ended, GuardsSpawn
  <1>7. RunBound(r)'
    BY <1>1, <1>2, <1>5 DEF RunBound, RunEnds, Confined, Wired, Labelling, Req
  <1>8. RunEnds(r)'
    BY <1>1, <1>2, <1>5 DEF RunEnds, Guarded, Unwired, Ended, Signalled, Unspawned
  <1>9. RunLogged(r)'
    BY <1>1, <1>2, <1>5, NothingLogged
    DEF Approved, Undecided, Ended, Recorded
  <1> QED
    BY <1>4, <1>6, <1>7, <1>8, <1>9, RunMoves DEF RunInd, Reap

\* The handle is dropped, and the temp directory with it.
LEMMA DropKeeps ==
    ASSUME RunInd, NEW r \in Runs, DropChild(r)
    PROVE  RunInd'
  <1>1. PICK t : t = runs[r]
    OBVIOUS
  <1>2. /\ RunShape(t) /\ t.pc = "reaped"
        /\ RunTyped(r) /\ RunBound(r) /\ RunEnds(r) /\ RunLogged(r)
        /\ log' = log /\ machine' = machine /\ labels' = labels /\ announced' = announced
    BY <1>1, RunFacts DEF DropChild, At
  <1>3. runs' = [runs EXCEPT ![r] = [t EXCEPT !.pc = "check",
                !.temp = FALSE,
                !.guard = FALSE,
                !.forward = FALSE]]
    BY <1>1, <1>2 DEF DropChild
  <1>4. /\ runs'[r] = [t EXCEPT !.pc = "check",
                !.temp = FALSE,
                !.guard = FALSE,
                !.forward = FALSE]
        /\ runs' = [runs EXCEPT ![r] = runs'[r]]
    BY <1>3, RunFacts
  <1>5. /\ RunShape(runs'[r]) /\ runs'[r].pc = "check" /\ runs'[r].req = t.req
        /\ runs'[r].grants = t.grants /\ runs'[r].report = t.report
        /\ runs'[r].decision = t.decision /\ runs'[r].control = t.control
        /\ runs'[r].temp = FALSE /\ runs'[r].guard = FALSE /\ runs'[r].forward = FALSE
        /\ runs'[r].alive = t.alive /\ runs'[r].started = t.started
        /\ runs'[r].calls = t.calls /\ runs'[r].counted = t.counted
        /\ runs'[r].warned = t.warned
    BY <1>2, <1>4 DEF RunShape
  <1>6. RunTyped(r)'
    BY <1>1, <1>2, <1>5 DEF RunTyped, Pcs, Ended
  <1>7. RunBound(r)'
    BY <1>1, <1>2, <1>5 DEF RunBound, RunEnds, Confined, Wired, Labelling, Req
  <1>8. RunEnds(r)'
    BY <1>1, <1>2, <1>5 DEF RunEnds, Guarded, Unwired, Ended, Signalled, Unspawned
  <1>9. RunLogged(r)'
    BY <1>1, <1>2, <1>5, NothingLogged
    DEF Approved, Undecided, Ended, Recorded
  <1> QED
    BY <1>4, <1>6, <1>7, <1>8, <1>9, RunMoves DEF RunInd, DropChild

\* The agent ends, whoever ends it.
LEMMA AgentStops ==
    ASSUME RunInd, NEW r \in Runs, AgentExit(r)
    PROVE  RunInd'
  <1>1. PICK t : t = runs[r]
    OBVIOUS
  <1>2. /\ RunShape(t) /\ t.pc \in {"forward", "waiting", "killed", "dropped"}
        /\ RunTyped(r) /\ RunBound(r) /\ RunEnds(r) /\ RunLogged(r)
        /\ log' = log /\ machine' = machine /\ labels' = labels /\ announced' = announced
    BY <1>1, RunFacts DEF AgentExit, RunEnds
  <1>a. t.alive
    BY <1>1 DEF AgentExit
  <1>3. runs' = [runs EXCEPT ![r] = [t EXCEPT !.alive = FALSE]]
    BY <1>1, <1>2 DEF AgentExit
  <1>4. /\ runs'[r] = [t EXCEPT !.alive = FALSE]
        /\ runs' = [runs EXCEPT ![r] = runs'[r]]
    BY <1>3, RunFacts
  <1>5. /\ RunShape(runs'[r]) /\ runs'[r].pc = t.pc /\ runs'[r].req = t.req
        /\ runs'[r].grants = t.grants /\ runs'[r].report = t.report
        /\ runs'[r].decision = t.decision /\ runs'[r].control = t.control
        /\ runs'[r].temp = t.temp /\ runs'[r].guard = t.guard
        /\ runs'[r].forward = t.forward /\ runs'[r].alive = FALSE
        /\ runs'[r].started = t.started /\ runs'[r].calls = t.calls
        /\ runs'[r].counted = t.counted /\ runs'[r].warned = t.warned
    BY <1>2, <1>4 DEF RunShape
  <1>6. RunTyped(r)'
    BY <1>1, <1>2, <1>5 DEF RunTyped, Pcs, Ended
  <1>7. RunBound(r)'
    BY <1>1, <1>2, <1>5, <1>a DEF RunBound, RunEnds, Confined, Wired, Labelling, Req
  <1>8. RunEnds(r)'
    BY <1>1, <1>2, <1>5, <1>a DEF RunEnds, Guarded, Unwired, Ended, Signalled, Unspawned
  <1>9. RunLogged(r)'
    BY <1>1, <1>2, <1>5, <1>a, NothingLogged
    DEF Approved, Undecided, Ended, Recorded
  <1> QED
    BY <1>4, <1>6, <1>7, <1>8, <1>9, RunMoves DEF RunInd, AgentExit

\* writ dies: on Windows its agent with it, by a signal never before its agent.
LEMMA DieKeeps ==
    ASSUME RunInd, NEW r \in Runs, NEW end \in Signalled, Active(r), Die(r, end),
           end = "killed" \/ ~runs[r].guard,
           UNCHANGED <<machine, log, labels, announced>>
    PROVE  RunInd'
  <1>1. PICK t : t = runs[r]
    OBVIOUS
  <1>2. /\ RunShape(t) /\ t.pc \in Approved \cup {"decide"}
        /\ t.pc \notin Ended \cup {"idle"} /\ t.alive \in BOOLEAN
        /\ RunTyped(r) /\ RunBound(r) /\ RunEnds(r) /\ RunLogged(r)
        /\ log' = log /\ machine' = machine /\ labels' = labels /\ announced' = announced
    BY <1>1, RunFacts DEF Active, RunTyped, Pcs, Ended, Approved
  <1>l. PICK live \in BOOLEAN : live = (t.alive /\ machine.os # "windows")
    OBVIOUS
  <1>a. live => t.alive /\ machine.os # "windows" /\ end = "killed"
    BY <1>1, <1>2, <1>l DEF RunEnds, Guarded, Ended, Signalled
  <1>3. runs' = [runs EXCEPT ![r] = [t EXCEPT !.pc = end, !.alive = live]]
    BY <1>1, <1>2, <1>l DEF Die, RunShape
  <1>4. /\ runs'[r] = [t EXCEPT !.pc = end, !.alive = live]
        /\ runs' = [runs EXCEPT ![r] = runs'[r]]
    BY <1>3, RunFacts
  <1>5. /\ RunShape(runs'[r]) /\ runs'[r].pc = end /\ runs'[r].req = t.req
        /\ runs'[r].grants = t.grants /\ runs'[r].report = t.report
        /\ runs'[r].decision = t.decision /\ runs'[r].control = t.control
        /\ runs'[r].temp = t.temp /\ runs'[r].guard = t.guard
        /\ runs'[r].forward = t.forward /\ runs'[r].alive = live
        /\ runs'[r].started = t.started /\ runs'[r].calls = t.calls
        /\ runs'[r].counted = t.counted /\ runs'[r].warned = t.warned
    BY <1>2, <1>4 DEF RunShape
  <1>6. RunTyped(r)'
    BY <1>1, <1>2, <1>5 DEF RunTyped, Pcs, Ended, Approved, Signalled
  <1>7. RunBound(r)'
    BY <1>1, <1>2, <1>5, <1>a DEF RunBound, Confined, Wired, Labelling, Req, Signalled, Ended
  <1>8. RunEnds(r)'
    BY <1>1, <1>2, <1>5, <1>a DEF RunEnds, Guarded, Unwired, Ended, Signalled, Unspawned
  <1>9. RunLogged(r)'
    BY <1>1, <1>2, <1>5, <1>a, NothingLogged
    DEF Approved, Undecided, Ended, Recorded, Signalled
  <1> QED
    BY <1>4, <1>6, <1>7, <1>8, <1>9, RunMoves DEF RunInd, Die

\* writ gives up on its agent, which on Windows ends with the job.
LEMMA UnwaitedKeeps ==
    ASSUME RunInd, NEW r \in Runs, DropUnwaited(r)
    PROVE  RunInd'
  <1>1. PICK t : t = runs[r]
    OBVIOUS
  <1>2. /\ RunShape(t) /\ t.pc = "waiting" /\ t.alive \in BOOLEAN
        /\ RunTyped(r) /\ RunBound(r) /\ RunEnds(r) /\ RunLogged(r)
        /\ log' = log /\ machine' = machine /\ labels' = labels /\ announced' = announced
    BY <1>1, RunFacts DEF DropUnwaited, At, RunTyped
  <1>l. PICK live \in BOOLEAN : live = (t.alive /\ machine.os # "windows")
    OBVIOUS
  <1>3. runs' = [runs EXCEPT ![r] = [t EXCEPT !.pc = "dropped", !.control = FALSE,
                                             !.temp = FALSE, !.guard = FALSE,
                                             !.forward = FALSE, !.alive = live]]
    BY <1>1, <1>2, <1>l DEF DropUnwaited
  <1>4. /\ runs'[r] = [t EXCEPT !.pc = "dropped", !.control = FALSE,
                                !.temp = FALSE, !.guard = FALSE,
                                !.forward = FALSE, !.alive = live]
        /\ runs' = [runs EXCEPT ![r] = runs'[r]]
    BY <1>3, RunFacts
  <1>5. /\ RunShape(runs'[r]) /\ runs'[r].pc = "dropped" /\ runs'[r].req = t.req
        /\ runs'[r].grants = t.grants /\ runs'[r].report = t.report
        /\ runs'[r].decision = t.decision /\ runs'[r].control = FALSE
        /\ runs'[r].temp = FALSE /\ runs'[r].guard = FALSE
        /\ runs'[r].forward = FALSE /\ runs'[r].alive = live
        /\ runs'[r].started = t.started /\ runs'[r].calls = t.calls
        /\ runs'[r].counted = t.counted /\ runs'[r].warned = t.warned
    BY <1>2, <1>4 DEF RunShape
  <1>6. RunTyped(r)'
    BY <1>1, <1>2, <1>5 DEF RunTyped, Pcs, Ended
  <1>7. RunBound(r)'
    BY <1>1, <1>2, <1>5, <1>l DEF RunBound, Confined, Wired, Labelling, Req
  <1>8. RunEnds(r)'
    BY <1>1, <1>2, <1>5, <1>l DEF RunEnds, Guarded, Unwired, Ended, Signalled, Unspawned
  <1>9. RunLogged(r)'
    BY <1>1, <1>2, <1>5, NothingLogged
    DEF Approved, Undecided, Ended, Recorded
  <1> QED
    BY <1>4, <1>6, <1>7, <1>8, <1>9, RunMoves DEF RunInd, DropUnwaited

\* The control directory goes last.
LEMMA FinishKeeps ==
    ASSUME RunInd, NEW r \in Runs, Finish(r)
    PROVE  RunInd'
  <1>1. PICK t : t = runs[r]
    OBVIOUS
  <1>2. /\ RunShape(t) /\ t.pc = "recorded"
        /\ RunTyped(r) /\ RunBound(r) /\ RunEnds(r) /\ RunLogged(r)
        /\ log' = log /\ machine' = machine /\ labels' = labels /\ announced' = announced
    BY <1>1, RunFacts DEF Finish, At
  <1>3. runs' = [runs EXCEPT ![r] = [t EXCEPT !.pc = "done", !.control = FALSE]]
    BY <1>1, <1>2 DEF Finish
  <1>4. /\ runs'[r] = [t EXCEPT !.pc = "done", !.control = FALSE]
        /\ runs' = [runs EXCEPT ![r] = runs'[r]]
    BY <1>3, RunFacts
  <1>5. /\ RunShape(runs'[r]) /\ runs'[r].pc = "done" /\ runs'[r].req = t.req
        /\ runs'[r].grants = t.grants /\ runs'[r].report = t.report
        /\ runs'[r].decision = t.decision /\ runs'[r].control = FALSE
        /\ runs'[r].temp = t.temp /\ runs'[r].guard = t.guard
        /\ runs'[r].forward = t.forward /\ runs'[r].alive = t.alive
        /\ runs'[r].started = t.started /\ runs'[r].calls = t.calls
        /\ runs'[r].counted = t.counted /\ runs'[r].warned = t.warned
    BY <1>2, <1>4 DEF RunShape
  <1>6. RunTyped(r)'
    BY <1>1, <1>2, <1>5 DEF RunTyped, Pcs, Ended
  <1>7. RunBound(r)'
    BY <1>1, <1>2, <1>5 DEF RunBound, RunEnds, Confined, Wired, Labelling, Req
  <1>8. RunEnds(r)'
    BY <1>1, <1>2, <1>5 DEF RunEnds, Guarded, Unwired, Ended, Signalled, Unspawned
  <1>9. RunLogged(r)'
    BY <1>1, <1>2, <1>5 DEF RunLogged, Own, Approved, Undecided, Recorded
  <1> QED
    BY <1>4, <1>6, <1>7, <1>8, <1>9, RunMoves DEF RunInd, Finish

\* A command line is accepted or refused.
LEMMA LaunchKeeps ==
    ASSUME RunInd, NEW r \in Runs, NEW m \in RunMachines, NEW q \in Requests[r], Launch(r, m, q)
    PROVE  RunInd'
  <1>1. PICK t : t = runs[r]
    OBVIOUS
  <1>2. /\ RunShape(t) /\ t.pc = "idle" /\ q \in RequestType
        /\ RunTyped(r) /\ RunBound(r) /\ RunEnds(r) /\ RunLogged(r)
        /\ log' = log /\ labels' = labels /\ announced' = announced
    BY <1>1, RunFacts, WritRunAssumption DEF WritRunAssumption, Launch, At
  <1>0. machine' = m /\ (machine = NoMachine \/ machine = m)
    BY DEF Launch
  <1>3. runs' = [runs EXCEPT ![r] = [t EXCEPT !.req = q,
                !.pc = IF OptionsClash(q) \/ HookConflict(q) \/ RunPlan(m, q) = Refused
                       THEN "refused" ELSE "decide"]]
    BY <1>1, <1>2 DEF Launch
  <1>4. /\ runs'[r] = [t EXCEPT !.req = q,
                !.pc = IF OptionsClash(q) \/ HookConflict(q) \/ RunPlan(m, q) = Refused
                       THEN "refused" ELSE "decide"]
        /\ runs' = [runs EXCEPT ![r] = runs'[r]]
    BY <1>3, RunFacts, ZenonT(30)
  <1>5. /\ RunShape(runs'[r])
        /\ runs'[r].pc = IF OptionsClash(q) \/ HookConflict(q) \/ RunPlan(m, q) = Refused
                       THEN "refused" ELSE "decide"
        /\ runs'[r].req = q /\ runs'[r].grants = t.grants /\ runs'[r].report = t.report
        /\ runs'[r].decision = t.decision /\ runs'[r].control = t.control
        /\ runs'[r].temp = t.temp /\ runs'[r].guard = t.guard
        /\ runs'[r].forward = t.forward /\ runs'[r].alive = t.alive
        /\ runs'[r].started = t.started /\ runs'[r].calls = t.calls
        /\ runs'[r].counted = t.counted /\ runs'[r].warned = t.warned
    BY <1>2, <1>4 DEF RunShape
  <1>6. RunTyped(r)'
    BY <1>1, <1>2, <1>5, <1>0 DEF RunTyped, Pcs, Ended
  <1>7. RunBound(r)'
    BY <1>1, <1>2, <1>5, <1>0 DEF RunBound, RunEnds, Confined, Wired, Labelling, Req, Unwired
  <1>8. RunEnds(r)'
    BY <1>1, <1>2, <1>5 DEF RunEnds, Guarded, Unwired, Ended, Signalled, Unspawned
  <1>9. RunLogged(r)'
    BY <1>1, <1>2, <1>5
    DEF RunLogged, RunEnds, Own, Approved, Undecided, Unspawned, Unwired, Recorded
  <1> QED
    BY <1>4, <1>6, <1>7, <1>8, <1>9, <1>0, RunMoves DEF RunInd, Launch

\* The decision on the launch is recorded.
LEMMA DecideKeeps ==
    ASSUME RunInd, NEW r \in Runs, DecideLaunch(r)
    PROVE  RunInd'
  <1> DEFINE Fails == Bail(r, "failed") /\ UNCHANGED log
  <1>0. Fails => RunInd'
    BY BailKeeps DEF DecideLaunch, At, RunInd, RunEnds, Approved, Recorded
  <1> SUFFICES ASSUME ~Fails PROVE RunInd'
    BY <1>0
  <1> HIDE DEF Fails
  <1>1. PICK t : t = runs[r]
    OBVIOUS
  <1>2. /\ RunShape(t) /\ t.pc = "decide"
        /\ RunTyped(r) /\ RunBound(r) /\ RunEnds(r) /\ RunLogged(r)
        /\ machine' = machine /\ labels' = labels /\ announced' = announced
    BY <1>1, RunFacts DEF DecideLaunch, At
  <1>p. PICK allowed \in BOOLEAN, label \in {"unknown-agent", t.req.agent} :
           /\ log' = Append(log, [kind |-> "Decision", run |-> r, by |-> label,
                                  of |-> Len(log) + 1])
           /\ runs' = [runs EXCEPT ![r].decision = Len(log) + 1,
                                   ![r].pc = IF allowed THEN "grant" ELSE "denied"]
    BY <1>1 DEF DecideLaunch, Req, Fails
  <1>n. PICK next \in {"grant", "denied"} : next = IF allowed THEN "grant" ELSE "denied"
    OBVIOUS
  <1>e. PICK e : e = [kind |-> "Decision", run |-> r, by |-> label, of |-> Len(log) + 1]
    OBVIOUS
  <1>a. /\ e \in LogEntry /\ e.run = r /\ e.kind = "Decision" /\ log' = Append(log, e)
        /\ Len(log') = Len(log) + 1 /\ Len(log) \in Nat
        /\ DOMAIN log = 1..Len(log) /\ DOMAIN log' = 1..(Len(log) + 1)
        /\ log'[Len(log) + 1] = e
        /\ \A i \in 1..Len(log) : log'[i] = log[i]
    <2>1. log \in Seq(LogEntry) /\ Len(log) \in Nat
      BY DEF RunInd
    <2>2. t.req.agent \in Agents
      BY <1>1, <1>2 DEF RunTyped, RequestType
    <2>3. e \in LogEntry /\ e.run = r /\ e.kind = "Decision" /\ log' = Append(log, e)
      BY <1>p, <1>e, <2>1, <2>2 DEF LogEntry
    <2> QED BY <2>1, <2>3, Appended
  <1>3. runs' = [runs EXCEPT ![r] = [t EXCEPT !.decision = Len(log) + 1, !.pc = next]]
    BY <1>1, <1>2, <1>p, <1>n
  <1>4. /\ runs'[r] = [t EXCEPT !.decision = Len(log) + 1, !.pc = next]
        /\ runs' = [runs EXCEPT ![r] = runs'[r]]
    BY <1>3, RunFacts
  <1>5. /\ RunShape(runs'[r]) /\ runs'[r].pc = next /\ runs'[r].req = t.req
        /\ runs'[r].grants = t.grants /\ runs'[r].report = t.report
        /\ runs'[r].decision = Len(log) + 1 /\ runs'[r].control = t.control
        /\ runs'[r].temp = t.temp /\ runs'[r].guard = t.guard
        /\ runs'[r].forward = t.forward /\ runs'[r].alive = t.alive
        /\ runs'[r].started = t.started /\ runs'[r].calls = t.calls
        /\ runs'[r].counted = t.counted /\ runs'[r].warned = t.warned
    BY <1>2, <1>4 DEF RunShape
  <1>6. RunTyped(r)'
    BY <1>1, <1>2, <1>5, <1>a DEF RunTyped, Pcs, Ended
  <1>7. RunBound(r)'
    BY <1>1, <1>2, <1>5 DEF RunBound, RunEnds, Confined, Wired, Labelling, Req, Unwired
  <1>8. RunEnds(r)'
    BY <1>1, <1>2, <1>5 DEF RunEnds, Guarded, Unwired, Ended, Signalled, Unspawned
  <1>9. RunLogged(r)'
    BY <1>1, <1>2, <1>5, <1>a
    DEF RunLogged, RunEnds, Own, Approved, Undecided, Unspawned, Unwired, Recorded
  <1> QED
    BY <1>4, <1>6, <1>7, <1>8, <1>9, <1>a, RunMoves DEF RunInd, DecideLaunch

\* A tool call of the agent is decided.
LEMMA HookCallKeeps ==
    ASSUME RunInd, NEW r \in Runs, HookCall(r)
    PROVE  RunInd'
  <1>1. PICK t : t = runs[r]
    OBVIOUS
  <1>2. /\ RunShape(t) /\ t.pc \in {"forward", "waiting", "killed", "dropped"}
        /\ t.calls < MaxCalls
        /\ RunTyped(r) /\ RunBound(r) /\ RunEnds(r) /\ RunLogged(r)
        /\ machine' = machine /\ labels' = labels /\ announced' = announced
    BY <1>1, RunFacts DEF HookCall, RunEnds
  <1>b. t.alive
    BY <1>1 DEF HookCall
  <1>e. PICK e : e = [kind |-> "Decision", run |-> r, by |-> t.req.agent, of |-> Len(log) + 1]
    OBVIOUS
  <1>a. /\ e \in LogEntry /\ e.run = r /\ e.kind = "Decision" /\ e.by = t.req.agent
        /\ log' = Append(log, e)
        /\ Len(log') = Len(log) + 1 /\ Len(log) \in Nat
        /\ DOMAIN log = 1..Len(log) /\ DOMAIN log' = 1..(Len(log) + 1)
        /\ log'[Len(log) + 1] = e
        /\ \A i \in 1..Len(log) : log'[i] = log[i]
    <2>1. log \in Seq(LogEntry) /\ Len(log) \in Nat
      BY DEF RunInd
    <2>2. t.req.agent \in Agents
      BY <1>1, <1>2 DEF RunTyped, RequestType
    <2>3. /\ e \in LogEntry /\ e.run = r /\ e.kind = "Decision" /\ e.by = t.req.agent
          /\ log' = Append(log, e)
      BY <1>1, <1>e, <2>1, <2>2 DEF LogEntry, HookCall, Req
    <2> QED BY <2>1, <2>3, Appended
  <1>3. runs' = [runs EXCEPT ![r] = [t EXCEPT !.calls = t.calls + 1]]
    BY <1>1, <1>2 DEF HookCall
  <1>4. /\ runs'[r] = [t EXCEPT !.calls = t.calls + 1]
        /\ runs' = [runs EXCEPT ![r] = runs'[r]]
    BY <1>3, RunFacts
  <1>5. /\ RunShape(runs'[r]) /\ runs'[r].pc = t.pc /\ runs'[r].req = t.req
        /\ runs'[r].grants = t.grants /\ runs'[r].report = t.report
        /\ runs'[r].decision = t.decision /\ runs'[r].control = t.control
        /\ runs'[r].temp = t.temp /\ runs'[r].guard = t.guard
        /\ runs'[r].forward = t.forward /\ runs'[r].alive = t.alive
        /\ runs'[r].started = t.started /\ runs'[r].calls = t.calls + 1
        /\ runs'[r].counted = t.counted /\ runs'[r].warned = t.warned
    BY <1>2, <1>4 DEF RunShape
  <1>6. RunTyped(r)'
    BY <1>1, <1>2, <1>5, <1>a, WritRunAssumption DEF RunTyped, Pcs, Ended, WritRunAssumption
  <1>7. RunBound(r)'
    BY <1>1, <1>2, <1>5, <1>b DEF RunBound, RunEnds, Confined, Wired, Labelling, Req
  <1>8. RunEnds(r)'
    BY <1>1, <1>2, <1>5, <1>b DEF RunEnds, Guarded, Unwired, Ended, Signalled, Unspawned
  <1>9. RunLogged(r)'
    <2>1. t.decision \in 0..Len(log) /\ t.calls \in Nat
      BY <1>1, <1>2, WritRunAssumption DEF RunTyped, WritRunAssumption
    <2>2. Own(r)' = Own(r)
      BY <1>a DEF Own
    <2>3. t.decision # 0 => log'[t.decision].run = r
      BY <1>1, <1>2, <1>a, <2>1 DEF RunLogged
    <2>4. \A i \in Own(r) : log'[i].of = t.decision /\ t.decision # 0
      BY <1>1, <1>2, <1>a DEF RunLogged, Own
    <2>5. Len(log) + 1 \in DOMAIN log' /\ Len(log) + 1 > t.decision
      BY <1>a, <2>1
    <2>6. runs'[r].calls > 0 /\ t.pc \notin Undecided \cup {"record", "recorded", "done"}
      BY <1>2, <1>5, <2>1 DEF Undecided
    <2>7. Own(r) = {} /\ ~t.warned /\ (t.pc \in Approved \/ t.started => t.decision # 0)
      BY <1>1, <1>2, <1>b DEF RunLogged, RunEnds, Ended
    <2> QED BY <1>5, <1>a, <2>2, <2>3, <2>4, <2>5, <2>6, <2>7 DEF RunLogged
  <1> QED
    BY <1>4, <1>6, <1>7, <1>8, <1>9, <1>a, RunMoves DEF RunInd, HookCall

\* The ledger is searched for calls of the agent.
LEMMA CheckKeeps ==
    ASSUME RunInd, NEW r \in Runs, CheckHooks(r)
    PROVE  RunInd'
  <1>1. PICK t : t = runs[r]
    OBVIOUS
  <1>2. /\ RunShape(t) /\ t.pc = "check"
        /\ RunTyped(r) /\ RunBound(r) /\ RunEnds(r) /\ RunLogged(r)
        /\ log' = log /\ machine' = machine /\ labels' = labels /\ announced' = announced
    BY <1>1, RunFacts DEF CheckHooks, At
  <1>p. PICK readable \in BOOLEAN :
           runs' = [runs EXCEPT ![r].pc = "record", ![r].counted = readable,
                      ![r].warned = /\ HooksOn(r) /\ readable
                                    /\ HookDecisionsSince(runs[r].decision, Req(r).agent) = {}]
    BY DEF CheckHooks
  <1>w. PICK w \in BOOLEAN :
           w = (/\ HooksOn(r) /\ readable
                /\ HookDecisionsSince(t.decision, t.req.agent) = {})
    OBVIOUS
  <1>3. runs' = [runs EXCEPT ![r] = [t EXCEPT !.pc = "record", !.counted = readable,
                                           !.warned = w]]
    BY <1>1, <1>p, <1>w DEF Req
  <1>4. /\ runs'[r] = [t EXCEPT !.pc = "record", !.counted = readable, !.warned = w]
        /\ runs' = [runs EXCEPT ![r] = runs'[r]]
    BY <1>3, RunFacts
  <1>5. /\ RunShape(runs'[r]) /\ runs'[r].pc = "record" /\ runs'[r].req = t.req
        /\ runs'[r].grants = t.grants /\ runs'[r].report = t.report
        /\ runs'[r].decision = t.decision /\ runs'[r].control = t.control
        /\ runs'[r].temp = t.temp /\ runs'[r].guard = t.guard
        /\ runs'[r].forward = t.forward /\ runs'[r].alive = t.alive
        /\ runs'[r].started = t.started /\ runs'[r].calls = t.calls
        /\ runs'[r].counted = readable /\ runs'[r].warned = w
    BY <1>2, <1>4 DEF RunShape
  <1>6. RunTyped(r)'
    BY <1>1, <1>2, <1>5, <1>w DEF RunTyped, Pcs, Ended
  <1>7. RunBound(r)'
    BY <1>1, <1>2, <1>5 DEF RunBound, RunEnds, Confined, Wired, Labelling, Req
  <1>8. RunEnds(r)'
    BY <1>1, <1>2, <1>5 DEF RunEnds, Guarded, Unwired, Ended, Signalled, Unspawned
  <1>9. RunLogged(r)'
    <2>0. t.calls \in Nat /\ t.decision \in Nat /\ DOMAIN log \subseteq Nat
      BY <1>1, <1>2, WritRunAssumption DEF RunTyped, WritRunAssumption, RunInd
    <2>1. w => t.calls = 0
      <3>1. t.calls # 0 => \E i \in DOMAIN log : /\ i > t.decision /\ log[i].kind = "Decision"
                                                /\ log[i].by = t.req.agent
        BY <1>1, <1>2, <2>0 DEF RunLogged
      <3> QED BY <1>w, <3>1 DEF HookDecisionsSince
    <2>2. HooksWanted(t.req) => HooksOn(r)
      BY <1>1 DEF HooksOn, Req
    <2>3. ASSUME t.calls = 0,
                 {i \in DOMAIN log : /\ log[i].run # r /\ log[i].kind = "Decision"
                                     /\ log[i].by = t.req.agent} = {}
          PROVE  HookDecisionsSince(t.decision, t.req.agent) = {}
      <3>1. \A i \in DOMAIN log : log[i].run = r /\ log[i].kind = "Decision" => i = t.decision
        BY <1>1, <1>2, <2>0, <2>3 DEF RunLogged
      <3> QED BY <2>0, <2>3, <3>1 DEF HookDecisionsSince
    <2>4. readable /\ HooksWanted(t.req) /\ t.calls = 0
          /\ {i \in DOMAIN log : /\ log[i].run # r /\ log[i].kind = "Decision"
                                  /\ log[i].by = t.req.agent} = {} => w
      BY <1>w, <2>2, <2>3
    <2> QED BY <1>1, <1>2, <1>5, <2>1, <2>4
          DEF RunLogged, Own, Approved, Undecided, Recorded
  <1> QED
    BY <1>4, <1>6, <1>7, <1>8, <1>9, RunMoves DEF RunInd, CheckHooks

\* The end of the agent is recorded.
LEMMA RecordKeeps ==
    ASSUME RunInd, NEW r \in Runs, RecordRun(r)
    PROVE  RunInd'
  <1> DEFINE Fails == Bail(r, "failed") /\ UNCHANGED log
  <1>0. Fails => RunInd'
    BY BailKeeps DEF RecordRun, At, RunInd, RunEnds, Approved, Recorded
  <1> SUFFICES ASSUME ~Fails PROVE RunInd'
    BY <1>0
  <1> HIDE DEF Fails
  <1>1. PICK t : t = runs[r]
    OBVIOUS
  <1>2. /\ RunShape(t) /\ t.pc = "record"
        /\ RunTyped(r) /\ RunBound(r) /\ RunEnds(r) /\ RunLogged(r)
        /\ machine' = machine /\ labels' = labels /\ announced' = announced
    BY <1>1, RunFacts DEF RecordRun, At
  <1>p. PICK next \in {"recorded", "failed"}, c \in BOOLEAN, d \in BOOLEAN, g \in BOOLEAN :
           /\ runs' = [runs EXCEPT ![r] = [t EXCEPT !.pc = next, !.control = c,
                                                   !.temp = d, !.guard = g]]
           /\ next = "failed" => ~c
           /\ ~d
           /\ log' = Append(log, [kind |-> "Execution", run |-> r, by |-> t.req.agent,
                                  of |-> t.decision])
    <2>1. t.control \in BOOLEAN /\ t.temp = FALSE /\ t.guard \in BOOLEAN
      BY <1>1, <1>2 DEF RunTyped, RunEnds
    <2>a. PICK more : more = Append(log, [kind |-> "Execution", run |-> r,
                                          by |-> t.req.agent, of |-> t.decision])
      OBVIOUS
    <2>b. \/ log' = more /\ Goto(r, "recorded")
          \/ log' = more /\ Bail(r, "failed")
      BY <1>1, <2>a DEF RecordRun, Req, Fails
    <2>2. CASE log' = more /\ Goto(r, "recorded")
      <3>1. runs' = [runs EXCEPT ![r] = [t EXCEPT !.pc = "recorded", !.control = t.control,
                                                 !.temp = FALSE, !.guard = t.guard]]
        BY <1>1, <1>2, <2>1, <2>2 DEF Goto, RunShape
      <3> QED BY <2>1, <2>a, <2>2, <3>1
    <2>3. CASE log' = more /\ Bail(r, "failed")
      <3>1. runs' = [runs EXCEPT ![r] = [t EXCEPT !.pc = "failed", !.control = FALSE,
                                                 !.temp = FALSE, !.guard = FALSE]]
        BY <1>1, <2>3 DEF Bail
      <3> QED BY <2>a, <2>3, <3>1
    <2> QED BY <2>b, <2>2, <2>3
  <1>e. PICK e : e = [kind |-> "Execution", run |-> r, by |-> t.req.agent, of |-> t.decision]
    OBVIOUS
  <1>a. /\ e \in LogEntry /\ e.run = r /\ e.kind = "Execution" /\ e.of = t.decision
        /\ log' = Append(log, e)
        /\ Len(log') = Len(log) + 1 /\ Len(log) \in Nat
        /\ DOMAIN log = 1..Len(log) /\ DOMAIN log' = 1..(Len(log) + 1)
        /\ log'[Len(log) + 1] = e
        /\ \A i \in 1..Len(log) : log'[i] = log[i]
    <2>1. log \in Seq(LogEntry) /\ Len(log) \in Nat
      BY DEF RunInd
    <2>2. t.req.agent \in Agents /\ t.decision \in Nat
      BY <1>1, <1>2, <2>1 DEF RunTyped, RequestType
    <2>3. /\ e \in LogEntry /\ e.run = r /\ e.kind = "Execution" /\ e.of = t.decision
          /\ log' = Append(log, e)
      BY <1>p, <1>e, <2>1, <2>2 DEF LogEntry
    <2> QED BY <2>1, <2>3, Appended
  <1>b. t.decision \in 0..Len(log')
    BY <1>1, <1>2, <1>a DEF RunTyped
  <1>4. /\ runs'[r] = [t EXCEPT !.pc = next, !.control = c, !.temp = d, !.guard = g]
        /\ runs' = [runs EXCEPT ![r] = runs'[r]]
    BY <1>p, RunFacts
  <1>5. /\ RunShape(runs'[r]) /\ runs'[r].pc = next /\ runs'[r].req = t.req
        /\ runs'[r].grants = t.grants /\ runs'[r].report = t.report
        /\ runs'[r].decision = t.decision /\ runs'[r].control = c
        /\ runs'[r].temp = d /\ runs'[r].guard = g
        /\ runs'[r].forward = t.forward /\ runs'[r].alive = t.alive
        /\ runs'[r].started = t.started /\ runs'[r].calls = t.calls
        /\ runs'[r].counted = t.counted /\ runs'[r].warned = t.warned
    BY <1>2, <1>4 DEF RunShape
  <1>6. RunTyped(r)'
    BY <1>1, <1>2, <1>5, <1>b DEF RunTyped, Pcs, Ended
  <1>7. RunBound(r)'
    BY <1>1, <1>2, <1>5 DEF RunBound, RunEnds, Confined, Wired, Labelling, Req
  <1>8. RunEnds(r)'
    BY <1>1, <1>2, <1>5, <1>p DEF RunEnds, Guarded, Unwired, Ended, Signalled, Unspawned
  <1>9. RunLogged(r)'
    <2>1. t.decision \in 1..Len(log)
      BY <1>1, <1>2, <1>a DEF RunTyped, RunLogged, Approved
    <2>2. Own(r) = {} /\ ~t.alive
      BY <1>1, <1>2 DEF RunLogged, RunEnds, Recorded
    <2>3. Own(r)' = {Len(log) + 1} /\ Len(log) + 1 \in DOMAIN log'
      BY <1>a, <2>2 DEF Own
    <2>4. {i \in DOMAIN log' : /\ log'[i].run # r /\ log'[i].kind = "Decision"
                                 /\ log'[i].by = t.req.agent} = {} =>
            {i \in DOMAIN log : /\ log[i].run # r /\ log[i].kind = "Decision"
                                /\ log[i].by = t.req.agent} = {}
      BY <1>a
    <2>5. \A i \in DOMAIN log' : log'[i].run = r /\ log'[i].kind = "Decision" =>
             i = t.decision \/ t.calls > 0
      BY <1>1, <1>2, <1>a DEF RunLogged
    <2>6. t.calls > 0 =>
             \E i \in DOMAIN log' : /\ i > t.decision /\ log'[i].kind = "Decision"
                                    /\ log'[i].by = t.req.agent
      BY <1>1, <1>2, <1>a DEF RunLogged
    <2>7. log'[t.decision].run = r /\ t.decision # 0
      BY <1>1, <1>2, <1>a, <2>1 DEF RunLogged
    <2>8. \A i \in Own(r)' : log'[i].of = t.decision
      BY <1>a, <2>3
    <2>9. HooksWanted(t.req) /\ t.calls = 0 /\ t.counted
          /\ {i \in DOMAIN log : /\ log[i].run # r /\ log[i].kind = "Decision"
                                  /\ log[i].by = t.req.agent} = {} => t.warned
      BY <1>1, <1>2 DEF RunLogged
    <2>10. t.warned => t.calls = 0
      BY <1>1, <1>2 DEF RunLogged
    <2> QED BY <1>5, <2>2, <2>3, <2>4, <2>5, <2>6, <2>7, <2>8, <2>9, <2>10
          DEF RunLogged, Approved, Undecided, Recorded
  <1> QED
    BY <1>4, <1>6, <1>7, <1>8, <1>9, <1>a, RunMoves DEF RunInd, RecordRun

\* No step of any run breaks the invariant.
LEMMA RunStepKeeps ==
    ASSUME RunInd, NEW r \in Runs, RunStep(r)
    PROVE  RunInd'
  <1>1. CASE \E m \in RunMachines, q \in Requests[r] : Launch(r, m, q)
    BY <1>1, LaunchKeeps
  <1>2. CASE DecideLaunch(r) \/ Grant(r)
    BY <1>2, DecideKeeps, GrantKeeps
  <1>3. CASE Wire(r)
    BY <1>3, UnwiredKeeps, WireKeeps
  <1>4. CASE Announce(r) \/ SpawnPrepare(r) \/ InstallGuard(r) \/ SpawnChild(r) \/ ForwardTo(r)
    BY <1>4, AnnounceKeeps, SpawnKeeps, GuardKeeps, SpawnChildKeeps, ForwardKeeps
  <1>5. CASE \/ Reap(r) \/ DropUnwaited(r) \/ DropChild(r)
             \/ CheckHooks(r) \/ RecordRun(r) \/ Finish(r)
    BY <1>5, ReapKeeps, UnwaitedKeeps, DropKeeps, CheckKeeps, RecordKeeps, FinishKeeps
  <1>6. CASE HookCall(r) \/ AgentExit(r)
    BY <1>6, HookCallKeeps, AgentStops
  <1>7. CASE Interrupt(r) \/ Terminate(r) \/ KillWrit(r)
    <2>1. Active(r) /\ UNCHANGED <<machine, log, labels, announced>>
      BY <1>7 DEF Interrupt, Terminate, KillWrit
    <2>2. AgentExit(r) \/ (~runs[r].guard /\ Die(r, "signalled")) \/ Die(r, "killed")
      BY <1>7 DEF Interrupt, Terminate, KillWrit, AgentExit
    <2>3. "signalled" \in Signalled /\ "killed" \in Signalled
      BY DEF Signalled
    <2> QED BY <2>1, <2>2, <2>3, AgentStops, DieKeeps
  <1> QED
    BY <1>1, <1>2, <1>3, <1>4, <1>5, <1>6, <1>7 DEF RunStep

\* No run has begun.
LEMMA RunIndInit == WritRunInit => RunInd
  <1> SUFFICES ASSUME WritRunInit PROVE RunInd
    OBVIOUS
  <1>1. log = <<>> /\ labels = {} /\ announced = {} /\ runs = [r \in Runs |-> Fresh]
        /\ machine = NoMachine
    BY DEF WritRunInit
  <1>2. ASSUME NEW r \in Runs
        PROVE  RunTyped(r) /\ RunBound(r) /\ RunEnds(r) /\ RunLogged(r)
    <2>1. PICK t : t = runs[r]
      OBVIOUS
    <2>2. /\ RunShape(t) /\ t.pc = "idle" /\ t.grants = {} /\ t.decision = 0
          /\ t.control = FALSE /\ t.temp = FALSE /\ t.guard = FALSE /\ t.alive = FALSE
          /\ t.started = FALSE /\ t.calls = 0 /\ t.warned = FALSE
      BY <1>1, <2>1 DEF Fresh, RunShape
    <2>3. RunTyped(r)
      <3>1. 0 \in 0..MaxCalls /\ 0 \in 0..Len(log)
        BY <1>1, WritRunAssumption DEF WritRunAssumption
      <3> QED BY <2>1, <2>2, <3>1 DEF RunTyped, Pcs
    <2>4. RunBound(r)
      BY <2>1, <2>2 DEF RunBound, Confined, Wired
    <2>5. RunEnds(r)
      BY <2>1, <2>2 DEF RunEnds, Guarded, Ended
    <2>6. RunLogged(r)
      BY <1>1, <2>1, <2>2 DEF RunLogged, Own, Approved, Recorded
    <2> QED BY <2>3, <2>4, <2>5, <2>6
  <1> QED BY <1>1, <1>2 DEF RunInd

\* Every step of every run keeps the invariant.
LEMMA RunInductive == WritRunSpec => []RunInd
  <1>1. RunInd /\ [WritRunNext]_writRunVars => RunInd'
    <2> SUFFICES ASSUME RunInd, [WritRunNext]_writRunVars PROVE RunInd'
      OBVIOUS
    <2>1. CASE WritRunNext
      BY <2>1, RunStepKeeps DEF WritRunNext
    <2>2. CASE UNCHANGED writRunVars
      <3>1. machine' = machine /\ runs' = runs /\ log' = log /\ labels' = labels
            /\ announced' = announced
        BY <2>2 DEF writRunVars
      <3> QED BY <3>1 DEF RunInd, RunTyped, RunBound, RunEnds, RunLogged, Own, ToLabel,
                       Labelling, Labelled, Req
    <2> QED BY <2>1, <2>2
  <1> QED BY <1>1, RunIndInit, PTL DEF WritRunSpec
-----------------------------------------------------------------------------
(***************************************************************************)
(* What the invariant gives                                                *)
(***************************************************************************)
\* A launch is decided, recorded once and cleaned up after.
LEMMA Accounted == RunInd => LaunchAccounted
  <1> SUFFICES ASSUME RunInd PROVE LaunchAccounted
    OBVIOUS
  <1>1. AgentNotOrphaned
    BY DEF AgentNotOrphaned, RunInd, RunEnds, Ended
  <1>2. DirsRemoved
    BY DEF DirsRemoved, RunInd, RunEnds, Signalled
  <1>3. LaunchRecorded
    <2> SUFFICES ASSUME NEW r \in Runs
                 PROVE  /\ runs[r].started => runs[r].decision # 0
                        /\ Cardinality(Own(r)) <= 1
                        /\ runs[r].pc = "done" => Cardinality(Own(r)) = 1
                        /\ Own(r) # {} => ~runs[r].alive /\ runs[r].pc \in Recorded
                        /\ \A i \in Own(r) : log[log[i].of].run = r
                                             /\ log[i].of = runs[r].decision
      BY DEF LaunchRecorded, Own, Recorded
    <2>1. RunLogged(r)
      BY DEF RunInd
    <2>2. Cardinality(Own(r)) <= 1 /\ (runs[r].pc = "done" => Cardinality(Own(r)) = 1)
      <3>1. CASE Own(r) # {}
        <4>1. PICK k \in DOMAIN log : Own(r) = {k}
          BY <2>1, <3>1 DEF RunLogged
        <4>2. Cardinality({k}) = 1
          BY FS_Singleton
        <4> QED BY <4>1, <4>2
      <3>2. CASE Own(r) = {}
        BY <2>1, <3>2, FS_EmptySet DEF RunLogged
      <3> QED BY <3>1, <3>2
    <2> QED BY <2>1, <2>2 DEF RunLogged
  <1>4. UngovernedWarned
    <2> SUFFICES ASSUME NEW r \in Runs, runs[r].pc \in {"record", "recorded", "done"}
                 PROVE  /\ runs[r].calls > 0 => ~runs[r].warned
                        /\ HooksWanted(Req(r)) /\ runs[r].calls = 0 /\ runs[r].counted
                           /\ {i \in DOMAIN log : log[i].run # r /\ log[i].kind = "Decision"
                                                  /\ log[i].by = Req(r).agent} = {}
                              => runs[r].warned
      BY DEF UngovernedWarned
    <2>1. RunLogged(r)
      BY DEF RunInd
    <2> QED BY <2>1 DEF RunLogged, Req
  <1> QED BY <1>1, <1>2, <1>3, <1>4 DEF LaunchAccounted

\* A larger grant lets the agent write no less.
LEMMA WithinGrants ==
    ASSUME NEW A, NEW B, NEW under, A \subseteq B
    PROVE  Beneath(A, under) \subseteq Beneath(B, under)
  BY DEF Beneath

\* What writ plans is what the machine can do.
LEMMA Planned ==
    ASSUME NEW m \in Machines, NEW q \in RequestType, RunPlan(m, q) # Refused
    PROVE  /\ RunPlan(m, q).fs = "Enforced" =>
                 /\ RunPlan(m, q).applyFs /\ ~q.unconfined
                 /\ m.os = "linux" => m.abi = 3
                 /\ m.os # "other"
           /\ RunPlan(m, q).net = "Enforced" =>
                 /\ RunPlan(m, q).applyNet /\ q.net = "None" /\ ~q.unconfined
                 /\ m.os \in {"linux", "macos"}
           /\ ModeOf(q) = "Required" =>
                 /\ RunPlan(m, q).fs = "Enforced"
                 /\ q.net = "None" => RunPlan(m, q).net = "Enforced"
           /\ RunPlan(m, q).applyNet => q.net = "None" /\ ~q.unconfined
           /\ q.unconfined => ~RunPlan(m, q).applyFs
           /\ ModeOf(q) = "Unconfined" <=> q.unconfined
  <1> DEFINE mode == ModeOf(q)
             caps == InteractiveCapabilities(m)
  <1>1. /\ q.net \in {"Open", "None"} /\ q.unconfined \in BOOLEAN /\ q.bestEffort \in BOOLEAN
        /\ m.os \in {"linux", "macos", "windows", "other"} /\ m.abi \in {0, 2, 3}
        /\ m.seccomp \in BOOLEAN /\ m.lowToken \in BOOLEAN
    BY DEF RequestType, Machines
  <1>2. /\ mode \in {"Unconfined", "BestEffort", "Required"}
        /\ mode = "Unconfined" <=> q.unconfined
    <2>1. CASE q.unconfined
      BY <2>1 DEF ModeOf
    <2>2. CASE ~q.unconfined
      <3>1. CASE q.bestEffort
        BY <2>2, <3>1 DEF ModeOf
      <3>2. CASE ~q.bestEffort
        BY <2>2, <3>2 DEF ModeOf
      <3> QED BY <2>2, <3>1, <3>2
    <2> QED BY <2>1, <2>2
  <1>3. /\ caps.fs \in Supports /\ caps.net \in Supports
        /\ caps.fs = "Full" => (m.os = "linux" => m.abi = 3) /\ m.os # "other"
        /\ caps.net = "Full" => m.os \in {"linux", "macos"}
    BY <1>1 DEF InteractiveCapabilities, Capabilities, LinuxFilesystem, LinuxNetwork,
                WindowsFilesystem, WindowsNetwork, LowTokenFilesystem, Supports
  <1>4. RunPlan(m, q) = InteractivePlan(caps, q.net, mode)
    BY DEF RunPlan
  <1> HIDE DEF mode, caps
  <1>5. CASE mode = "Unconfined"
    <2>1. RunPlan(m, q) = [fs |-> "NotEnforced", net |-> "NotEnforced",
                           applyFs |-> FALSE, applyNet |-> FALSE]
      BY <1>4, <1>5 DEF InteractivePlan
    <2> QED BY <1>2, <1>5, <2>1 DEF mode
  <1>6. CASE mode # "Unconfined"
    <2>1. /\ ~(mode = "Required" /\ (caps.fs # "Full" \/ (q.net = "None" /\ caps.net # "Full")))
          /\ RunPlan(m, q) =
               [fs |-> LevelOf(caps.fs),
                net |-> IF q.net = "None" THEN LevelOf(caps.net) ELSE "NotEnforced",
                applyFs |-> Applicable(caps.fs),
                applyNet |-> q.net = "None" /\ Applicable(caps.net)]
      BY <1>4, <1>6 DEF InteractivePlan
    <2>2. /\ LevelOf(caps.fs) = "Enforced" <=> caps.fs = "Full"
          /\ LevelOf(caps.net) = "Enforced" <=> caps.net = "Full"
          /\ caps.fs = "Full" => Applicable(caps.fs)
          /\ caps.net = "Full" => Applicable(caps.net)
      BY <1>3 DEF LevelOf, Applicable, Supports
    <2>3. ~q.unconfined
      BY <1>2, <1>6
    <2>4. PICK p : p = RunPlan(m, q)
      OBVIOUS
    <2>5. /\ p.fs = LevelOf(caps.fs) /\ p.applyFs = Applicable(caps.fs)
          /\ q.net = "None" => p.net = LevelOf(caps.net)
          /\ q.net # "None" => p.net = "NotEnforced"
          /\ p.applyNet = (q.net = "None" /\ Applicable(caps.net))
      BY <2>1, <2>4
    <2>6. p.fs = "Enforced" => /\ p.applyFs /\ ~q.unconfined
                               /\ m.os = "linux" => m.abi = 3
                               /\ m.os # "other"
      BY <1>3, <2>2, <2>3, <2>5
    <2>7. p.net = "Enforced" => /\ p.applyNet /\ q.net = "None" /\ ~q.unconfined
                                /\ m.os \in {"linux", "macos"}
      BY <1>3, <2>2, <2>3, <2>5
    <2>8. mode = "Required" => /\ p.fs = "Enforced"
                               /\ q.net = "None" => p.net = "Enforced"
      BY <2>1, <2>2, <2>5
    <2>9. (p.applyNet => q.net = "None" /\ ~q.unconfined) /\ (q.unconfined => ~p.applyFs)
      BY <2>3, <2>5
    <2> QED BY <1>2, <2>4, <2>6, <2>7, <2>8, <2>9 DEF mode
  <1> QED BY <1>5, <1>6

\* What is known of a run whose agent is alive.
LEMMA AliveFacts ==
    ASSUME RunInd, NEW r \in Runs, runs[r].alive
    PROVE  /\ Req(r) \in RequestType /\ machine \in Machines
           /\ RunPlan(machine, Req(r)) # Refused
           /\ runs[r].report = RunPlan(machine, Req(r))
           /\ runs[r].grants \subseteq Grantable
           /\ labels \subseteq announced /\ announced \subseteq Grantable
           /\ Labelling(r) => /\ runs[r].grants \subseteq labels
                              /\ Req(r).onFat \cap (runs[r].grants \cup {"temp"}) = {}
           /\ HooksOn(r) => /\ HooksWanted(Req(r)) /\ ~LedgerRefused(Req(r))
                            /\ LedgerGrant(Req(r)) \subseteq runs[r].grants
  BY WritRunAssumption
  DEF RunInd, RunTyped, RunBound, RunEnds, Confined, Req, HooksOn, Ended, WritRunAssumption

\* What a Low integrity agent writes.
LowWrites(r) ==
    Beneath(labels \cup {"temp"} \cup OnFat(Req(r)), Under(r)) \cup {"noLabels", "localLow"}

\* The power of a running agent, one machine after the other.
LEMMA PowerFacts ==
    ASSUME RunInd, NEW r \in Runs, runs[r].alive,
           NEW W, W = runs[r].grants \cup {"temp"}
    PROVE  /\ Req(r).unconfined => AgentPower(r) = NoLimits
           /\ ~Req(r).unconfined =>
              /\ machine.os = "linux" =>
                   AgentPower(r) =
                     [writes |-> IF runs[r].report.applyFs
                                 THEN Beneath(W, Under(r)) \cup {"dev"} ELSE Places,
                      truncates |-> IF runs[r].report.applyFs THEN machine.abi < 3 ELSE TRUE,
                      sockets |-> InteractiveFilter(machine, runs[r].report.applyNet)]
              /\ machine.os = "macos" =>
                   AgentPower(r) =
                     [writes |-> IF runs[r].report.applyFs
                                 THEN (Beneath(W, Under(r)) \cup {"dev"})
                                      \ ProtectedPlaces(Req(r).agent)
                                 ELSE Places,
                      truncates |-> ~runs[r].report.applyFs,
                      sockets |-> IF runs[r].report.applyNet THEN {} ELSE Families]
              /\ machine.os = "windows" =>
                   AgentPower(r) = IF runs[r].report.applyFs
                                   THEN [writes |-> LowWrites(r),
                                         truncates |-> FALSE, sockets |-> Families]
                                   ELSE NoLimits
              /\ machine.os = "other" => AgentPower(r) = NoLimits
  <1>1. ModeOf(Req(r)) = "Unconfined" <=> Req(r).unconfined
    BY AliveFacts, Planned
  <1>2. CASE Req(r).unconfined
    BY <1>1, <1>2 DEF AgentPower
  <1>3. CASE ~Req(r).unconfined /\ machine.os = "linux"
    BY <1>1, <1>3 DEF AgentPower, LinuxChild, Landlock, NoLimits
  <1>4. CASE ~Req(r).unconfined /\ machine.os = "macos"
    BY <1>1, <1>4 DEF AgentPower, SeatbeltChild
  <1>5. CASE ~Req(r).unconfined /\ machine.os = "windows"
    BY <1>1, <1>5 DEF AgentPower, LowTokenChild, LowWrites
  <1>6. CASE ~Req(r).unconfined /\ machine.os = "other"
    BY <1>1, <1>6 DEF AgentPower
  <1> QED BY <1>2, <1>3, <1>4, <1>5, <1>6

\* The same, field by field: what the agent writes and what it opens.
LEMMA PowerFields ==
    ASSUME RunInd, NEW r \in Runs, runs[r].alive, ~Req(r).unconfined
    PROVE  /\ machine.os = "linux" /\ runs[r].report.applyFs =>
                /\ AgentPower(r).writes =
                     Beneath(runs[r].grants \cup {"temp"}, Under(r)) \cup {"dev"}
                /\ machine.abi = 3 => AgentPower(r).truncates = FALSE
           /\ machine.os = "macos" /\ runs[r].report.applyFs =>
                /\ AgentPower(r).writes =
                     (Beneath(runs[r].grants \cup {"temp"}, Under(r)) \cup {"dev"})
                        \ ProtectedPlaces(Req(r).agent)
                /\ AgentPower(r).truncates = FALSE
           /\ machine.os = "windows" /\ runs[r].report.applyFs =>
                /\ AgentPower(r).writes = LowWrites(r)
                /\ AgentPower(r).truncates = FALSE
           /\ ~runs[r].report.applyFs \/ machine.os = "other" => AgentPower(r).writes = Places
           /\ machine.os = "linux" =>
                AgentPower(r).sockets = InteractiveFilter(machine, runs[r].report.applyNet)
           /\ machine.os = "macos" /\ runs[r].report.applyNet => AgentPower(r).sockets = {}
           /\ ~(machine.os = "macos" /\ runs[r].report.applyNet) /\ machine.os # "linux" =>
                AgentPower(r).sockets = Families
  <1>1. /\ machine.os \in {"linux", "macos", "windows", "other"} /\ machine.abi \in {0, 2, 3}
    BY AliveFacts DEF Machines
  <1>2. CASE machine.os = "linux"
    <2> DEFINE wr == IF runs[r].report.applyFs
                     THEN Beneath(runs[r].grants \cup {"temp"}, Under(r)) \cup {"dev"}
                     ELSE Places
               tr == IF runs[r].report.applyFs THEN machine.abi < 3 ELSE TRUE
               so == InteractiveFilter(machine, runs[r].report.applyNet)
    <2>1. AgentPower(r) = [writes |-> wr, truncates |-> tr, sockets |-> so]
      BY <1>2, PowerFacts
    <2>2. runs[r].report.applyFs /\ machine.abi = 3 => tr = FALSE
      OBVIOUS
    <2>3. /\ runs[r].report.applyFs =>
               wr = Beneath(runs[r].grants \cup {"temp"}, Under(r)) \cup {"dev"}
          /\ ~runs[r].report.applyFs => wr = Places
      OBVIOUS
    <2> HIDE DEF wr, tr, so
    <2>4. /\ AgentPower(r).writes = wr /\ AgentPower(r).truncates = tr
          /\ AgentPower(r).sockets = so
      BY <2>1
    <2>5. runs[r].report.applyFs /\ machine.abi = 3 => AgentPower(r).truncates = FALSE
      BY <2>2, <2>4
    <2>6. AgentPower(r).sockets = InteractiveFilter(machine, runs[r].report.applyNet)
      BY <2>4 DEF so
    <2> QED BY <1>2, <2>3, <2>4, <2>5, <2>6
  <1>3. CASE machine.os = "macos"
    <2> DEFINE wr == IF runs[r].report.applyFs
                     THEN (Beneath(runs[r].grants \cup {"temp"}, Under(r)) \cup {"dev"})
                            \ ProtectedPlaces(Req(r).agent)
                     ELSE Places
               tr == ~runs[r].report.applyFs
               so == IF runs[r].report.applyNet THEN {} ELSE Families
    <2>1. AgentPower(r) = [writes |-> wr, truncates |-> tr, sockets |-> so]
      BY <1>3, PowerFacts
    <2>2. runs[r].report.applyFs => tr = FALSE
      OBVIOUS
    <2>3. /\ runs[r].report.applyFs =>
               wr = (Beneath(runs[r].grants \cup {"temp"}, Under(r)) \cup {"dev"})
                      \ ProtectedPlaces(Req(r).agent)
          /\ ~runs[r].report.applyFs => wr = Places
          /\ runs[r].report.applyNet => so = {}
          /\ ~runs[r].report.applyNet => so = Families
      OBVIOUS
    <2> HIDE DEF wr, tr, so
    <2>4. /\ AgentPower(r).writes = wr /\ AgentPower(r).truncates = tr
          /\ AgentPower(r).sockets = so
      BY <2>1
    <2>5. runs[r].report.applyFs => AgentPower(r).truncates = FALSE
      BY <2>2, <2>4
    <2> QED BY <1>3, <2>3, <2>4, <2>5
  <1>4. NoLimits.writes = Places /\ NoLimits.sockets = Families
    BY DEF NoLimits
  <1>5. CASE machine.os = "windows" /\ runs[r].report.applyFs
    <2> DEFINE wr == LowWrites(r)
    <2>1. AgentPower(r) = [writes |-> wr, truncates |-> FALSE, sockets |-> Families]
      BY <1>5, PowerFacts
    <2> HIDE DEF wr
    <2>2. /\ AgentPower(r).writes = wr /\ AgentPower(r).truncates = FALSE
          /\ AgentPower(r).sockets = Families
      BY <2>1
    <2> QED BY <1>5, <2>2 DEF wr
  <1>6. CASE \/ machine.os = "windows" /\ ~runs[r].report.applyFs
             \/ machine.os = "other"
    <2>1. CASE machine.os = "windows" /\ ~runs[r].report.applyFs
      <3>1. AgentPower(r) = NoLimits
        BY <2>1, PowerFacts
      <3> QED BY <1>4, <2>1, <3>1
    <2>2. CASE machine.os = "other"
      <3>1. AgentPower(r) = NoLimits
        BY <2>2, PowerFacts
      <3> QED BY <1>4, <2>2, <3>1
    <2> QED BY <1>6, <2>1, <2>2
  <1> QED BY <1>1, <1>2, <1>3, <1>5, <1>6

\* An enforced report is kept by whatever the kernel was told to do.
LEMMA Honest == RunInd => BoundaryHonest
  <1> SUFFICES ASSUME RunInd, NEW r \in Runs, runs[r].alive,
                      NEW W, W = runs[r].grants \cup {"temp"},
                      NEW A, A = Beneath(W \cup announced \cup Residue(r), Under(r))
               PROVE  /\ Keeps(AgentPower(r), runs[r].report, A)
                      /\ Labelling(r) => OnFat(Req(r)) \cap W = {}
                      /\ Protection(r) = "Enforced" =>
                            AgentPower(r).writes \cap ProtectedPlaces(Req(r).agent) = {}
                      /\ ModeOf(Req(r)) = "Required" =>
                            /\ runs[r].report.fs = "Enforced"
                            /\ Req(r).net = "None" => AgentPower(r).sockets = {}
    BY DEF BoundaryHonest
  <1> DEFINE q == Req(r)
             p == runs[r].report
             power == AgentPower(r)
  <1>1. /\ q \in RequestType /\ machine \in Machines /\ q.unconfined \in BOOLEAN
        /\ machine.os \in {"linux", "macos", "windows", "other"} /\ machine.abi \in {0, 2, 3}
    BY AliveFacts DEF RequestType, Machines
  <1>2. /\ p.fs = "Enforced" => /\ p.applyFs /\ ~q.unconfined
                                /\ machine.os = "linux" => machine.abi = 3
                                /\ machine.os # "other"
        /\ p.net = "Enforced" => /\ p.applyNet /\ ~q.unconfined
                                 /\ machine.os \in {"linux", "macos"}
        /\ ModeOf(q) = "Required" => /\ p.fs = "Enforced"
                                     /\ q.net = "None" => p.net = "Enforced"
        /\ p.applyFs => ~q.unconfined
    BY AliveFacts, Planned
  <1>3. /\ Beneath(W, Under(r)) \subseteq A
        /\ machine.os = "windows" => LowWrites(r) \subseteq A
    <2>1. Beneath(W, Under(r)) \subseteq A
      BY WithinGrants
    <2>2. ASSUME machine.os = "windows" PROVE LowWrites(r) \subseteq A
      <3>1. Residue(r) = OnFat(Req(r)) \cup {"noLabels", "localLow"}
        BY <2>2 DEF Residue, LowTokenResidue
      <3>2. labels \cup {"temp"} \cup OnFat(Req(r)) \subseteq W \cup announced \cup Residue(r)
        BY <3>1, AliveFacts
      <3>3. {"noLabels", "localLow"} \subseteq A
        BY <3>1 DEF Beneath
      <3> QED BY <3>2, <3>3, WithinGrants DEF LowWrites
    <2> QED BY <2>1, <2>2
  <1>7. Labelling(r) => OnFat(Req(r)) \cap W = {}
    BY AliveFacts DEF OnFat, Grantable
  <1>4. p.fs = "Enforced" => power.writes \subseteq A \cup {"dev"} /\ ~power.truncates
    <2> SUFFICES ASSUME p.fs = "Enforced"
                 PROVE  power.writes \subseteq A \cup {"dev"} /\ ~power.truncates
      OBVIOUS
    <2>1. CASE machine.os = "linux"
      BY <1>1, <1>2, <1>3, <2>1, PowerFields
    <2>2. CASE machine.os = "macos"
      BY <1>1, <1>2, <1>3, <2>2, PowerFields
    <2>3. CASE machine.os = "windows"
      BY <1>1, <1>2, <1>3, <2>3, PowerFields
    <2> QED BY <1>1, <1>2, <2>1, <2>2, <2>3
  <1>5. p.net = "Enforced" => power.sockets = {}
    <2> SUFFICES ASSUME p.net = "Enforced" PROVE power.sockets = {}
      OBVIOUS
    <2>1. CASE machine.os = "linux"
      BY <1>1, <1>2, <2>1, PowerFields DEF InteractiveFilter, DenyAllFilter
    <2>2. CASE machine.os = "macos"
      BY <1>1, <1>2, <2>2, PowerFields
    <2> QED BY <1>2, <2>1, <2>2
  <1>6. ASSUME Protection(r) = "Enforced"
        PROVE  power.writes \cap ProtectedPlaces(q.agent) = {}
    <2>1. CASE ProtectedPlaces(q.agent) = {}
      BY <2>1
    <2>2. CASE ProtectedPlaces(q.agent) # {}
      <3>1. p.applyFs /\ machine.os = "macos"
        BY <1>6, <2>2 DEF Protection
      <3> QED BY <1>2, <3>1, PowerFacts
    <2> QED BY <2>1, <2>2
  <1> QED BY <1>2, <1>4, <1>5, <1>6, <1>7 DEF Keeps

\* The control directory is not granted, nor in anything granted.
LEMMA OutOfReach == RunInd => HooksOutOfReach
  <1> SUFFICES ASSUME RunInd, NEW r \in Runs, runs[r].alive, HooksOn(r),
                      runs[r].report.fs = "Enforced",
                      Req(r).tempIn \cap (runs[r].grants \cup labels \cup Req(r).onFat) = {}
               PROVE  Carrier(Req(r).agent) \notin AgentPower(r).writes
    BY DEF HooksOutOfReach
  <1>1. PICK W : W = runs[r].grants \cup {"temp"}
    OBVIOUS
  <1>2. /\ machine.os \in {"linux", "macos", "windows"} /\ runs[r].report.applyFs
        /\ ~Req(r).unconfined /\ Req(r).tempIn \subseteq {"workspace", "allowed", "ledger"}
    BY AliveFacts, Planned DEF RequestType, Machines
  <1>3. ASSUME NEW S, S \subseteq Grantable \cup {"temp"}, Req(r).tempIn \cap S = {}
        PROVE  Carrier(Req(r).agent) \notin
                  Beneath(S, Under(r)) \cup {"dev", "noLabels", "localLow"}
    <2>1. Under(r)["control"] = Req(r).tempIn
      BY DEF Under, Places
    <2>2. "control" \notin Beneath(S, Under(r))
      BY <1>3, <2>1 DEF Beneath, Grantable
    <2>3. "argv" \notin Beneath(S, Under(r))
      BY <1>3 DEF Beneath, Grantable, Places
    <2> QED BY <2>2, <2>3 DEF Carrier
  <1>6. machine.os = "windows" => "temp" \notin Req(r).onFat /\ OnFat(Req(r)) = Req(r).onFat
    BY <1>2, AliveFacts DEF Labelling, OnFat
  <1>4. \/ AgentPower(r).writes \subseteq Beneath(W, Under(r)) \cup {"dev"}
        \/ AgentPower(r).writes \subseteq
              Beneath(labels \cup {"temp"} \cup Req(r).onFat, Under(r))
                 \cup {"noLabels", "localLow"}
    <2>1. CASE machine.os = "linux"
      BY <1>1, <1>2, <2>1, PowerFields
    <2>2. CASE machine.os = "macos"
      BY <1>1, <1>2, <2>2, PowerFields
    <2>3. CASE machine.os = "windows"
      BY <1>1, <1>2, <1>6, <2>3, PowerFields DEF LowWrites
    <2> QED BY <1>2, <2>1, <2>2, <2>3
  <1>5. /\ W \subseteq Grantable \cup {"temp"} /\ Req(r).tempIn \cap W = {}
        /\ labels \cup {"temp"} \cup Req(r).onFat \subseteq Grantable \cup {"temp"}
        /\ Req(r).tempIn \cap (labels \cup {"temp"} \cup Req(r).onFat) = {}
    <2>1. Req(r).onFat \subseteq Grantable \cup {"temp"}
      BY AliveFacts DEF RequestType, Grantable
    <2> QED BY <1>1, <1>2, <2>1, AliveFacts
  <1> QED BY <1>3, <1>4, <1>5

\* The hooks' ledger is granted, or reached over the network.
LEMMA CanRecord == RunInd => HooksCanRecord
  <1> SUFFICES ASSUME RunInd, NEW r \in Runs, runs[r].alive, HooksOn(r)
               PROVE  IF Req(r).ledger = "file" THEN "ledger" \in AgentPower(r).writes
                      ELSE "inet" \in AgentPower(r).sockets
    BY DEF HooksCanRecord
  <1>2. /\ Req(r) \in RequestType /\ machine \in Machines
        /\ ~LedgerRefused(Req(r)) /\ LedgerGrant(Req(r)) \subseteq runs[r].grants
        /\ Labelling(r) => runs[r].grants \subseteq labels
        /\ runs[r].report = RunPlan(machine, Req(r))
    BY AliveFacts
  <1>3. /\ machine.os \in {"linux", "macos", "windows", "other"}
        /\ Req(r).ledger \in {"file", "pg", "pgPassword"} /\ Req(r).net \in {"Open", "None"}
        /\ ModeOf(Req(r)) = "Unconfined" <=> Req(r).unconfined
        /\ runs[r].report.applyNet => Req(r).net = "None" /\ ~Req(r).unconfined
    BY <1>2, AliveFacts, Planned DEF RequestType, Machines
  <1>4. CASE Req(r).unconfined
    <2>1. AgentPower(r) = NoLimits
      BY <1>4, PowerFacts
    <2> QED BY <2>1 DEF NoLimits, Places, Families
  <1>5. CASE ~Req(r).unconfined /\ Req(r).ledger = "file"
    <2>1. "ledger" \in runs[r].grants
      BY <1>2, <1>3, <1>5 DEF LedgerGrant
    <2>2. "ledger" \in Places /\ "ledger" \notin ProtectedPlaces(Req(r).agent)
      BY DEF Places, ProtectedPlaces
    <2>3. \A S : "ledger" \in S => "ledger" \in Beneath(S, Under(r))
      BY DEF Beneath
    <2>4. CASE machine.os = "linux" /\ runs[r].report.applyFs
      <3>1. AgentPower(r).writes =
              Beneath(runs[r].grants \cup {"temp"}, Under(r)) \cup {"dev"}
        BY <1>5, <2>4, PowerFields
      <3>2. "ledger" \in Beneath(runs[r].grants \cup {"temp"}, Under(r))
        BY <2>1, <2>3
      <3> QED BY <1>5, <3>1, <3>2
    <2>5. CASE machine.os = "macos" /\ runs[r].report.applyFs
      <3>1. AgentPower(r).writes =
              (Beneath(runs[r].grants \cup {"temp"}, Under(r)) \cup {"dev"})
                 \ ProtectedPlaces(Req(r).agent)
        BY <1>5, <2>5, PowerFields
      <3>2. "ledger" \in Beneath(runs[r].grants \cup {"temp"}, Under(r))
        BY <2>1, <2>3
      <3> QED BY <1>5, <2>2, <3>1, <3>2
    <2>6. CASE machine.os = "windows" /\ runs[r].report.applyFs
      <3>1. "ledger" \in labels
        BY <1>2, <2>1, <2>6 DEF Labelling
      <3>2. "ledger" \in LowWrites(r)
        BY <2>3, <3>1 DEF LowWrites
      <3>3. AgentPower(r).writes = LowWrites(r)
        BY <1>5, <2>6, PowerFields
      <3> QED BY <1>5, <3>2, <3>3
    <2>7. CASE machine.os = "other" \/ ~runs[r].report.applyFs
      <3>1. AgentPower(r).writes = Places
        BY <1>5, <2>7, PowerFields
      <3> QED BY <1>5, <2>2, <3>1
    <2> QED BY <1>3, <2>4, <2>5, <2>6, <2>7
  <1>6. CASE ~Req(r).unconfined /\ Req(r).ledger # "file"
    <2>1. Req(r).net = "Open" /\ ~runs[r].report.applyNet
      BY <1>2, <1>3, <1>6 DEF LedgerRefused
    <2>2. "inet" \in Families /\ "inet" \in InteractiveFilter(machine, FALSE)
      BY DEF Families, InteractiveFilter, OpenFilter
    <2>3. CASE machine.os = "linux"
      <3>1. AgentPower(r).sockets = InteractiveFilter(machine, runs[r].report.applyNet)
        BY <1>6, <2>3, PowerFields
      <3>2. "inet" \in InteractiveFilter(machine, runs[r].report.applyNet)
        BY <2>1, <2>2 DEF InteractiveFilter, OpenFilter
      <3> QED BY <1>6, <3>1, <3>2
    <2>4. CASE machine.os # "linux"
      <3>1. AgentPower(r).sockets = Families
        BY <1>6, <2>1, <2>4, PowerFields
      <3> QED BY <1>6, <2>2, <3>1
    <2> QED BY <1>6, <2>3, <2>4
  <1> QED BY <1>4, <1>5, <1>6

\* The parts of BoundarySafe, together.
LEMMA BoundaryHolds == RunInd => BoundarySafe
  <1>1. RunInd => WritRunTypeOK
    BY DEF RunInd, RunTyped, WritRunTypeOK, Req, Grantable, Places
  <1>2. RunInd => LabelsAnnounced
    BY DEF RunInd, LabelsAnnounced
  <1> QED BY <1>1, <1>2, Honest, OutOfReach, CanRecord DEF BoundarySafe
(* The agent is started only after its launch was decided and recorded; a  *)
(* run that ends well has one execution record, of its own decision,       *)
(* and reports an agent that went around its hooks.  No signal writ can    *)
(* handle and no failure leaves the agent running; SIGKILL of writ and a   *)
(* child dropped unwaited do, on Unix (run.rs, interactive.rs).            *)
THEOREM LaunchesAccounted == WritRunSpec => []LaunchAccounted
  BY RunInductive, Accounted, PTL

(* What the banner calls enforced holds for the running agent, on every    *)
(* machine and for every command line, with any number of runs beside it:  *)
(* its writes, its sockets, its hooks and the labels it leaves, but for    *)
(* what Windows leaves open to every Low integrity process (run.rs,        *)
(* interactive.rs, windows_interactive.rs).                                *)
THEOREM BoundariesHold == WritRunSpec => []BoundarySafe
  BY RunInductive, BoundaryHolds, PTL
-----------------------------------------------------------------------------
(***************************************************************************)
(* The batch sandboxes                                                     *)
(***************************************************************************)
\* The first host is chosen once, and nothing happens before.
HostKnown ==
    \/ /\ host = NoOne /\ boxes = {} /\ procs = {} /\ temps = {} /\ profiles = {} /\ nextRun = 0
       /\ \A b \in Backends : calls[b] = NoOne
       /\ \A id \in 1..MaxBoxes : daemon[id] = "absent"
    \/ /\ \E h \in Hosts, mode \in {"Required", "BestEffort"} :
             host = [machine |-> h.machine, kind |-> h.kind, mode |-> mode]
       /\ Local => \A id \in 1..MaxBoxes : daemon[id] = "absent"
       /\ ~Local => temps = {}
       /\ ~(Local /\ Windows) => profiles = {}

\* A prepared sandbox: its report is what was planned for it.
BoxOK(x) ==
    /\ x.id \in 1..nextId /\ x.ws \in Workspaces /\ x.owns \in BOOLEAN
    /\ x.report # Refused
    /\ Local => \E hosts \in BOOLEAN : x.report = BoxPlan(hosts)
    /\ ~Local => x.report = DockerReport /\ x.owns = FALSE

\* A process: it keeps what it was started with.
ProcOK(p) ==
    /\ p = [box |-> p.box, run |-> p.run, kind |-> p.kind, holds |-> p.holds,
            power |-> p.power, report |-> p.report]
    /\ p.run \in 1..nextRun /\ p.kind \in {"leader", "member", "escaped"}
    /\ p.holds \in BOOLEAN
    /\ Keeps(p.power, p.report, BoxWritable)
    /\ host.mode = "Required" =>
          p.power.sockets = {} /\ p.power.writes \subseteq BoxWritable \cup {"dev"}

\* An exec under way: its sandbox is there, and once nothing of the program
\* is to be waited for, what was to be killed is dead.
CallOK(b) ==
    LET c == calls[b] IN
    c # NoOne =>
       /\ c = [box |-> c.box, run |-> c.run, stage |-> c.stage, timedOut |-> c.timedOut]
       /\ c.stage \in {"poll", "drain"} /\ c.timedOut \in BOOLEAN
       /\ c.run \in 1..nextRun
       /\ \E x \in BoxesOf(b) : x.id = c.box
       /\ \A p \in procs : p.run = c.run => p.box = c.box
       /\ c.timedOut => Local
       /\ c.stage = "poll" => c.timedOut = FALSE
       /\ \A p \in procs : p.run = c.run /\ Local /\ c.stage = "drain" =>
              ~Windows /\ (c.timedOut => p.kind = "escaped")

\* An exec that has answered is over.
AnswerOK(b) ==
    /\ answers[b].run \in 0..nextRun
    /\ \A p \in procs :
          p.run = answers[b].run =>
             /\ answers[b].result = "timed_out" => p.kind = "escaped" \/ p.box \in unconfirmed
             /\ Local => ~Windows /\ p.holds = FALSE

\* What is on the disk and in the daemon.
MachineOK ==
    /\ temps \subseteq 1..MaxBoxes /\ profiles \subseteq Workspaces /\ aces \subseteq Workspaces
    /\ spoiled \subseteq Workspaces
    /\ daemon \in [1..MaxBoxes -> {"absent", "created", "running", "stopped"}]

\* On Windows whatever runs belongs to an exec under way.
Held ==
    \A p \in procs : Local /\ Windows =>
       \E b \in Backends : calls[b] # NoOne /\ calls[b].run = p.run

\* What may be left: NothingLeftBehind but for the processes.
LeftOK ==
    /\ temps = {x.id : x \in {y \in boxes : y.owns}}
    /\ profiles \subseteq {x.ws : x \in boxes} \cup spoiled
    /\ \A id \in 1..MaxBoxes :
          daemon[id] # "absent" => id \in unconfirmed \/ \E x \in boxes : x.id = id

\* The inductive invariant.
SandboxInd ==
    /\ HostKnown
    /\ nextId \in 0..MaxBoxes /\ nextRun \in 0..MaxExecs
    /\ MachineOK
    /\ calls = [b \in Backends |-> calls[b]] /\ answers = [b \in Backends |-> answers[b]]
    /\ \A x \in boxes : BoxOK(x)
    /\ \A x, y \in boxes : x.id = y.id => x = y
    /\ \A p \in procs : ProcOK(p)
    /\ \A b \in Backends : CallOK(b) /\ AnswerOK(b)
    /\ LeftOK /\ Held

\* What is known once a host is chosen.
LEMMA HostFacts ==
    ASSUME SandboxInd, host # NoOne
    PROVE  /\ host.machine \in Machines /\ host.kind \in {"local-os", "docker"}
           /\ host.mode \in {"Required", "BestEffort"}
           /\ [machine |-> host.machine, kind |-> host.kind] \in Hosts
           /\ \E h \in Hosts, mode \in {"Required", "BestEffort"} :
                 host = [machine |-> h.machine, kind |-> h.kind, mode |-> mode]
           /\ Local => \A id \in 1..MaxBoxes : daemon[id] = "absent"
           /\ ~Local => temps = {}
           /\ ~(Local /\ Windows) => profiles = {}
  <1>1. PICK h \in Hosts, mode \in {"Required", "BestEffort"} :
               host = [machine |-> h.machine, kind |-> h.kind, mode |-> mode]
    BY DEF SandboxInd, HostKnown
  <1>2. /\ h.machine \in Machines /\ h.kind \in {"local-os", "docker"}
        /\ h = [machine |-> h.machine, kind |-> h.kind]
    BY <1>1, SandboxAssumption DEF SandboxAssumption
  <1>3. host.machine = h.machine /\ host.kind = h.kind /\ host.mode = mode
    BY <1>1
  <1> QED BY <1>1, <1>2, <1>3 DEF SandboxInd, HostKnown

\* A process p that a process q became, or that was there all along.
Became(p, q) ==
    /\ p = [box |-> p.box, run |-> p.run, kind |-> p.kind, holds |-> p.holds,
            power |-> p.power, report |-> p.report]
    /\ p.box = q.box /\ p.run = q.run /\ p.power = q.power /\ p.report = q.report
    /\ p.kind \in {"leader", "member", "escaped"} /\ p.holds \in BOOLEAN
    /\ q.kind = "escaped" => p.kind = "escaped"
    /\ q.holds = FALSE => p.holds = FALSE

\* The processes of the execs started so far come from those there were.
Descend == \A p \in procs' : p.run \in 1..nextRun => \E q \in procs : Became(p, q)

\* A process that does nothing.
LEMMA Stays ==
    ASSUME SandboxInd, NEW p \in procs
    PROVE  Became(p, p) /\ p.run \in 1..nextRun
  BY DEF SandboxInd, ProcOK, Became

\* Processes only die.
LEMMA Shrinks ==
    ASSUME SandboxInd, procs' \subseteq procs
    PROVE  Descend /\ \A p \in procs' : p.run \in 1..nextRun
  BY Stays DEF Descend

\* A process of before is as it should be.
LEMMA ProcKeeps ==
    ASSUME SandboxInd, NEW p, NEW q \in procs, Became(p, q), host' = host,
           nextRun' \in Nat, nextRun <= nextRun'
    PROVE  ProcOK(p)'
  <1>1. ProcOK(q) /\ nextRun \in Nat
    BY SandboxAssumption DEF SandboxInd, SandboxAssumption
  <1>2. BoxWritable' = BoxWritable
    BY DEF BoxWritable, Local, Windows
  <1> QED BY <1>1, <1>2 DEF ProcOK, Became

\* What a backend is in, or has answered, when it does nothing itself.
LEMMA Undisturbed ==
    ASSUME SandboxInd, NEW c \in Backends, host' = host, Descend,
           nextRun' \in Nat, nextRun <= nextRun', \A p \in procs' : p.run \in 1..nextRun',
           calls'[c] = calls[c], answers'[c] = answers[c],
           BoxesOf(c) \subseteq boxes', unconfirmed \subseteq unconfirmed'
    PROVE  CallOK(c)' /\ AnswerOK(c)'
  <1>1. CallOK(c) /\ AnswerOK(c) /\ nextRun \in Nat /\ \A q \in procs : ProcOK(q)
    BY SandboxAssumption DEF SandboxInd, SandboxAssumption
  <1>2. \A p \in procs' : p.run \in 1..nextRun => \E q \in procs : Became(p, q)
    BY DEF Descend
  <1>3. CallOK(c)'
    <2> SUFFICES ASSUME calls[c] # NoOne
                 PROVE  CallOK(c)'
      BY DEF CallOK
    <2>1. PICK k : k = calls[c]
      OBVIOUS
    <2>2. /\ k = [box |-> k.box, run |-> k.run, stage |-> k.stage, timedOut |-> k.timedOut]
          /\ k.stage \in {"poll", "drain"} /\ k.timedOut \in BOOLEAN
          /\ k.run \in 1..nextRun
          /\ k.timedOut => Local
          /\ k.stage = "poll" => k.timedOut = FALSE
      BY <1>1, <2>1 DEF CallOK
    <2>3. \E x \in BoxesOf(c)' : x.id = k.box
      BY <1>1, <2>1 DEF CallOK, BoxesOf
    <2>4. ASSUME NEW p \in procs', p.run = k.run
          PROVE  /\ p.box = k.box
                 /\ Local /\ k.stage = "drain" =>
                       ~Windows /\ (k.timedOut => p.kind = "escaped")
      <3>1. PICK q \in procs : Became(p, q)
        BY <1>2, <2>2, <2>4
      <3>2. q.run = k.run
        BY <2>4, <3>1 DEF Became
      <3>3. /\ q.box = k.box
            /\ Local /\ k.stage = "drain" =>
                  ~Windows /\ (k.timedOut => q.kind = "escaped")
        BY <1>1, <2>1, <3>2 DEF CallOK
      <3> QED BY <3>1, <3>3 DEF Became
    <2>5. k.run \in 1..nextRun'
      BY <1>1, <2>2
    <2>6. Local' = Local /\ Windows' = Windows /\ calls'[c] = k
      BY <2>1 DEF Local, Windows
    <2> QED BY <2>2, <2>3, <2>4, <2>5, <2>6 DEF CallOK
  <1>4. AnswerOK(c)'
    <2>1. PICK a : a = answers[c]
      OBVIOUS
    <2>2. a.run \in 0..nextRun
      BY <1>1, <2>1 DEF AnswerOK
    <2>3. ASSUME NEW p \in procs', p.run = a.run, p.run \in 1..nextRun
          PROVE  /\ a.result = "timed_out" => p.kind = "escaped" \/ p.box \in unconfirmed
                 /\ Local => ~Windows /\ p.holds = FALSE
      <3>1. PICK q \in procs : Became(p, q)
        BY <1>2, <2>3
      <3>2. /\ q.run = a.run /\ p.box = q.box
            /\ q.kind = "escaped" => p.kind = "escaped"
            /\ q.holds = FALSE => p.holds = FALSE
        BY <2>3, <3>1 DEF Became
      <3>3. /\ a.result = "timed_out" => q.kind = "escaped" \/ q.box \in unconfirmed
            /\ Local => ~Windows /\ q.holds = FALSE
        BY <1>1, <2>1, <3>2 DEF AnswerOK
      <3> QED BY <3>2, <3>3
    <2>4. \A p \in procs' : p.run = a.run => p.run \in 1..nextRun
      BY <1>1, <2>2
    <2>5. a.run \in 0..nextRun'
      BY <1>1, <2>2
    <2>6. Local' = Local /\ Windows' = Windows /\ answers'[c] = a
      BY <2>1 DEF Local, Windows
    <2> HIDE DEF Local, Windows
    <2> QED BY <2>3, <2>4, <2>5, <2>6 DEF AnswerOK
  <1> QED BY <1>3, <1>4

\* What the plan of a batch sandbox says of the machine it was made on.
LEMMA BatchPlanned ==
    ASSUME NEW m \in Machines, NEW mode \in {"Required", "BestEffort"}, NEW hosts \in BOOLEAN,
           NEW r, r = Plan(Capabilities(m), hosts, mode), r # Refused
    PROVE  /\ r.fs = "Enforced" => /\ r.applyFs = TRUE /\ m.os # "other"
                                   /\ m.os = "linux" => m.abi = 3
           /\ r.net = "Enforced" => /\ r.applyNet = TRUE /\ m.os # "other"
                                    /\ m.os = "windows" => r.applyFs = TRUE
           /\ mode = "Required" => r.fs = "Enforced" /\ r.net = "Enforced"
  <1>1. /\ m.os \in {"linux", "macos", "windows", "other"} /\ m.abi \in {0, 2, 3}
        /\ m.seccomp \in BOOLEAN /\ m.appContainer \in BOOLEAN /\ m.firewall \in BOOLEAN
    BY DEF Machines
  <1>2. PICK caps : caps = Capabilities(m)
    OBVIOUS
  <1>3. /\ caps.fs \in Supports /\ caps.net \in Supports
        /\ caps.fs = "Full" => (m.os = "linux" => m.abi = 3) /\ m.os # "other"
        /\ caps.net = "Full" => (m.os = "windows" => caps.fs = "Full") /\ m.os # "other"
    BY <1>1, <1>2 DEF Capabilities, LinuxFilesystem, LinuxNetwork, WindowsFilesystem,
                      WindowsNetwork, Supports
  <1>4. /\ LevelOf(caps.fs) = "Enforced" <=> caps.fs = "Full"
        /\ LevelOf(caps.net) = "Enforced" <=> caps.net = "Full"
        /\ caps.fs = "Full" => Applicable(caps.fs) = TRUE
        /\ caps.net = "Full" => Applicable(caps.net) = TRUE
    BY <1>3 DEF LevelOf, Applicable, Supports
  <1> DEFINE fs == LevelOf(caps.fs)
             net == IF hosts THEN "NotEnforced" ELSE LevelOf(caps.net)
             af == Applicable(caps.fs)
             an == ~hosts /\ Applicable(caps.net)
  <1>5. /\ ~(mode = "Required" /\ (hosts \/ caps.fs # "Full" \/ caps.net # "Full"))
        /\ r = [fs |-> fs, net |-> net, applyFs |-> af, applyNet |-> an]
    BY <1>2 DEF Plan
  <1>6. /\ fs = "Enforced" => caps.fs = "Full" /\ af = TRUE
        /\ net = "Enforced" => caps.net = "Full" /\ an = TRUE
        /\ caps.fs = "Full" => af = TRUE
        /\ mode = "Required" => fs = "Enforced" /\ net = "Enforced"
    BY <1>4, <1>5
  <1> HIDE DEF fs, net, af, an
  <1>7. r.fs = fs /\ r.net = net /\ r.applyFs = af /\ r.applyNet = an
    BY <1>5
  <1> QED BY <1>3, <1>6, <1>7

\* A child of a local-os sandbox can do no more than its report says.
LEMMA LocalConfined ==
    ASSUME NEW m \in Machines, NEW r, NEW x, m = host.machine, r = x.report, Local,
           r.fs = "Enforced" => /\ r.applyFs = TRUE /\ m.os # "other"
                                /\ m.os = "linux" => m.abi = 3,
           r.net = "Enforced" => /\ r.applyNet = TRUE /\ m.os # "other"
                                 /\ m.os = "windows" => r.applyFs = TRUE
    PROVE  Keeps(PowerIn(x), r, BoxWritable)
  <1> DEFINE power == PowerIn(x)
  <1>1. m.os \in {"linux", "macos", "windows", "other"} /\ m.abi \in {0, 2, 3}
    BY DEF Machines
  <1>2. host.kind # "docker"
    BY DEF Local
  <1>3. Beneath(BatchWritable, Flat) = BatchWritable
    BY DEF Beneath, Flat
  <1>7. BatchWritable \subseteq BoxWritable
    BY DEF BoxWritable
  <1>4. r.fs = "Enforced" =>
          power.writes \subseteq BoxWritable \cup {"dev"} /\ power.truncates = FALSE
    <2> SUFFICES ASSUME r.fs = "Enforced"
                 PROVE  /\ power.writes \subseteq BoxWritable \cup {"dev"}
                        /\ power.truncates = FALSE
      OBVIOUS
    <2>1. CASE m.os = "linux"
      <3> DEFINE tr == m.abi < 3
                 wr == BatchWritable \cup {"dev"}
                 so == BatchFilter(r.applyNet)
      <3>1. tr = FALSE
        BY <2>1
      <3>2. Landlock(m, BatchWritable, Flat) = [writes |-> wr, truncates |-> tr]
        BY <1>3 DEF Landlock
      <3> HIDE DEF tr, wr, so
      <3>3. /\ Landlock(m, BatchWritable, Flat).writes = wr
            /\ Landlock(m, BatchWritable, Flat).truncates = tr
        BY <3>2
      <3>4. LinuxChild(m, BatchWritable, Flat, r.applyFs, so)
              = [writes |-> wr, truncates |-> tr, sockets |-> so]
        BY <3>3 DEF LinuxChild
      <3>5. power = LinuxChild(m, BatchWritable, Flat, r.applyFs, so)
        BY <1>2, <2>1 DEF PowerIn, so
      <3>6. power.writes = wr /\ power.truncates = tr
        BY <3>4, <3>5
      <3> QED BY <1>7, <3>1, <3>6 DEF wr
    <2>2. CASE m.os = "macos"
      <3> DEFINE tr == ~r.applyFs
                 wr == IF r.applyFs
                       THEN (Beneath(BatchWritable, Flat) \cup {"dev"}) \ {} ELSE Places
                 so == IF r.applyNet THEN {} ELSE Families
      <3>1. tr = FALSE /\ wr = BatchWritable \cup {"dev"}
        BY <1>3
      <3>2. power = [writes |-> wr, truncates |-> tr, sockets |-> so]
        BY <1>2, <2>2 DEF PowerIn, SeatbeltChild
      <3> HIDE DEF tr, wr, so
      <3>3. power.writes = wr /\ power.truncates = tr
        BY <3>2
      <3> QED BY <1>7, <3>1, <3>3
    <2>3. CASE m.os = "windows"
      <3> DEFINE wr == ({"temp"} \cup {p \in {"workspace"} : x.ws \in aces}) \cup {"appPackages"}
                 so == IF ~r.applyNet THEN Families ELSE {}
      <3>1. wr \subseteq BoxWritable
        BY <2>3 DEF BatchWritable, BoxWritable, AppContainerResidue, Windows
      <3>2. power = [writes |-> wr, truncates |-> FALSE, sockets |-> so]
        BY <1>2, <2>3 DEF PowerIn, AppContainerChild
      <3> HIDE DEF wr, so
      <3>3. power.writes = wr /\ power.truncates = FALSE
        BY <3>2
      <3> QED BY <3>1, <3>3
    <2> QED BY <1>1, <2>1, <2>2, <2>3
  <1>5. r.net = "Enforced" => power.sockets = {}
    <2> SUFFICES ASSUME r.net = "Enforced" PROVE power.sockets = {}
      OBVIOUS
    <2>1. CASE m.os = "linux"
      <3>1. power = LinuxChild(m, BatchWritable, Flat, r.applyFs, BatchFilter(r.applyNet))
        BY <1>2, <2>1 DEF PowerIn
      <3>2. BatchFilter(r.applyNet) = {}
        BY <2>1 DEF BatchFilter, DenyAllFilter
      <3>3. power.sockets = BatchFilter(r.applyNet)
        BY <3>1 DEF LinuxChild
      <3> QED BY <3>2, <3>3
    <2>2. CASE m.os = "macos"
      <3>1. power = SeatbeltChild(BatchWritable, {}, Flat, r.applyFs, r.applyNet)
        BY <1>2, <2>2 DEF PowerIn
      <3> QED BY <3>1 DEF SeatbeltChild
    <2>3. CASE m.os = "windows"
      <3> DEFINE wr == ({"temp"} \cup {p \in {"workspace"} : x.ws \in aces}) \cup {"appPackages"}
                 so == IF ~r.applyNet THEN Families ELSE {}
      <3>1. so = {}
        OBVIOUS
      <3>2. power = [writes |-> wr, truncates |-> FALSE, sockets |-> so]
        BY <1>2, <2>3 DEF PowerIn, AppContainerChild
      <3> HIDE DEF wr, so
      <3>3. power.sockets = so
        BY <3>2
      <3> QED BY <3>1, <3>3
    <2> QED BY <1>1, <2>1, <2>2, <2>3
  <1> HIDE DEF power
  <1>6. Keeps(power, r, BoxWritable)
    BY <1>4, <1>5 DEF Keeps
  <1> QED BY <1>6 DEF power

\* A program started in a prepared sandbox can do what the report allows.
LEMMA Confines ==
    ASSUME SandboxInd, host # NoOne, NEW x \in boxes
    PROVE  /\ Keeps(PowerIn(x), x.report, BoxWritable)
           /\ host.mode = "Required" =>
                 /\ PowerIn(x).sockets = {}
                 /\ PowerIn(x).writes \subseteq BoxWritable \cup {"dev"}
  <1>1. BoxOK(x)
    BY DEF SandboxInd
  <1>2. CASE Local
    <2>1. PICK hosts \in BOOLEAN : x.report = BoxPlan(hosts)
      BY <1>1, <1>2 DEF BoxOK
    <2>2. PICK r : r = x.report
      OBVIOUS
    <2>3. r = Plan(Capabilities(host.machine), hosts, host.mode) /\ r # Refused
      BY <1>1, <2>1, <2>2 DEF BoxOK, BoxPlan
    <2>4. PICK m \in Machines, mode \in {"Required", "BestEffort"} :
             m = host.machine /\ mode = host.mode
      BY HostFacts
    <2>5. /\ r.fs = "Enforced" => /\ r.applyFs = TRUE /\ m.os # "other"
                                  /\ m.os = "linux" => m.abi = 3
          /\ r.net = "Enforced" => /\ r.applyNet = TRUE /\ m.os # "other"
                                   /\ m.os = "windows" => r.applyFs = TRUE
          /\ mode = "Required" => r.fs = "Enforced" /\ r.net = "Enforced"
      <3>1. r = Plan(Capabilities(m), hosts, mode)
        BY <2>3, <2>4
      <3> QED BY <2>3, <3>1, BatchPlanned
    <2>6. Keeps(PowerIn(x), r, BoxWritable)
      BY <1>2, <2>2, <2>4, <2>5, LocalConfined
    <2> QED BY <2>2, <2>4, <2>5, <2>6 DEF Keeps
  <1>3. CASE ~Local
    <2>1. PowerIn(x) = DockerChild /\ x.report = DockerReport
      BY <1>1, <1>3, HostFacts DEF PowerIn, BoxOK, Local
    <2>2. Keeps(DockerChild, DockerReport, BatchWritable)
      BY DEF Keeps, DockerChild, DockerReport, BatchWritable
    <2>3. DockerChild.sockets = {} /\ DockerChild.writes \subseteq BatchWritable \cup {"dev"}
      BY DEF DockerChild, BatchWritable
    <2>4. BoxWritable = BatchWritable
      BY <1>3 DEF BoxWritable
    <2> QED BY <2>1, <2>2, <2>3, <2>4
  <1> QED BY <1>2, <1>3

\* Prepared sandboxes that stay as they are.
LEMMA BoxesStay ==
    ASSUME SandboxInd, host' = host, boxes' \subseteq boxes,
           nextId' \in Nat, nextId <= nextId'
    PROVE  /\ \A x \in boxes' : BoxOK(x)'
           /\ \A x, y \in boxes' : x.id = y.id => x = y
  <1>1. ASSUME NEW x \in boxes' PROVE BoxOK(x)'
    <2>1. BoxOK(x) /\ nextId \in Nat
      BY SandboxAssumption DEF SandboxInd, SandboxAssumption
    <2> QED BY <2>1 DEF BoxOK, Local, BoxPlan
  <1> QED BY <1>1 DEF SandboxInd

\* A step of the programs and the execs: nothing is prepared or torn down.
LEMMA MovesKeep ==
    ASSUME SandboxInd, host # NoOne,
           UNCHANGED <<host, boxes, nextId, temps, profiles, aces, spoiled, nextRun>>,
           \A p \in procs' : \E q \in procs : Became(p, q),
           Local => daemon' = daemon,
           daemon' \in [1..MaxBoxes -> {"absent", "created", "running", "stopped"}],
           unconfirmed \subseteq unconfirmed', LeftOK', Held',
           calls' = [b \in Backends |-> calls'[b]], answers' = [b \in Backends |-> answers'[b]],
           \A c \in Backends : \/ calls'[c] = calls[c] /\ answers'[c] = answers[c]
                               \/ CallOK(c)' /\ AnswerOK(c)'
    PROVE  SandboxInd'
  <1>1. Descend /\ nextRun \in Nat /\ \A p \in procs' : p.run \in 1..nextRun
    BY SandboxAssumption DEF Descend, SandboxInd, ProcOK, Became, SandboxAssumption
  <1>2. \A c \in Backends : CallOK(c)' /\ AnswerOK(c)'
    <2> SUFFICES ASSUME NEW c \in Backends, calls'[c] = calls[c], answers'[c] = answers[c]
                 PROVE  CallOK(c)' /\ AnswerOK(c)'
      OBVIOUS
    <2>1. BoxesOf(c) \subseteq boxes'
      BY DEF BoxesOf
    <2> QED BY <1>1, <2>1, Undisturbed
  <1>3. \A p \in procs' : ProcOK(p)'
    BY <1>1, ProcKeeps
  <1>4. nextId \in Nat
    BY SandboxAssumption DEF SandboxInd, SandboxAssumption
  <1>5. /\ \A x \in boxes' : BoxOK(x)'
        /\ \A x, y \in boxes' : x.id = y.id => x = y
    BY <1>4, BoxesStay
  <1>6. HostKnown'
    BY HostFacts DEF HostKnown, Local, Windows
  <1>7. MachineOK'
    BY DEF SandboxInd, MachineOK
  <1> QED BY <1>2, <1>3, <1>5, <1>6, <1>7 DEF SandboxInd

\* A chosen host is one.
LEMMA HostIsOne ==
    \A g \in Hosts, m \in {"Required", "BestEffort"} :
       [machine |-> g.machine, kind |-> g.kind, mode |-> m] # NoOne
  BY SandboxAssumption DEF SandboxAssumption

\* The host is chosen.
LEMMA BootKeeps ==
    ASSUME SandboxInd, NEW h \in Hosts, NEW mode \in {"Required", "BestEffort"}, Boot(h, mode)
    PROVE  SandboxInd'
  <1>1. /\ boxes = {} /\ procs = {} /\ temps = {} /\ profiles = {} /\ nextRun = 0
        /\ \A b \in Backends : calls[b] = NoOne
        /\ \A id \in 1..MaxBoxes : daemon[id] = "absent"
    BY HostIsOne DEF SandboxInd, HostKnown, Boot
  <1>2. /\ boxes' = boxes /\ procs' = procs /\ temps' = temps /\ nextRun' = nextRun
        /\ calls' = calls /\ daemon' = daemon /\ nextId' = nextId /\ profiles' = profiles
        /\ aces' = aces /\ spoiled' = spoiled /\ unconfirmed' = unconfirmed
        /\ answers' = answers
        /\ host' = [machine |-> h.machine, kind |-> h.kind, mode |-> mode]
    BY DEF Boot, boxVars, runVars
  <1>3. HostKnown'
    BY <1>1, <1>2 DEF HostKnown
  <1>4. \A b \in Backends : CallOK(b)' /\ AnswerOK(b)'
    BY <1>1, <1>2 DEF SandboxInd, CallOK, AnswerOK
  <1>5. LeftOK' /\ MachineOK' /\ Held'
    BY <1>1, <1>2 DEF SandboxInd, LeftOK, MachineOK, Held
  <1> QED BY <1>1, <1>2, <1>3, <1>4, <1>5 DEF SandboxInd

\* The programs fork, leave their group, close their output and exit.
LEMMA ProgramKeeps ==
    ASSUME SandboxInd, ProgramStep
    PROVE  SandboxInd'
  <1>1. /\ UNCHANGED <<host, boxes, nextId, temps, profiles, aces, spoiled, nextRun, daemon, unconfirmed,
                       calls, answers>>
        /\ \E p \in procs : Fork(p) \/ Detach(p) \/ CloseOutput(p) \/ Exit(p)
    BY DEF ProgramStep, boxVars
  <1>2. host # NoOne
    BY <1>1, HostIsOne DEF SandboxInd, HostKnown
  <1>3. ASSUME NEW q \in procs'
        PROVE  \E p \in procs : Became(q, p)
    <2>1. PICK p \in procs : Fork(p) \/ Detach(p) \/ CloseOutput(p) \/ Exit(p)
      BY <1>1
    <2>2. /\ p = [box |-> p.box, run |-> p.run, kind |-> p.kind, holds |-> p.holds,
                  power |-> p.power, report |-> p.report]
          /\ p.kind \in {"leader", "member", "escaped"} /\ p.holds \in BOOLEAN
      BY DEF SandboxInd, ProcOK
    <2>3. CASE q \in procs
      BY <2>3, Stays
    <2>4. CASE Fork(p) /\ q \notin procs
      <3>1. q = [p EXCEPT !.kind = "member"] /\ p.kind = "leader"
        BY <2>4 DEF Fork, ChildOf
      <3> QED BY <2>2, <3>1 DEF Became
    <2>5. CASE Detach(p) /\ q \notin procs
      <3>1. q = [p EXCEPT !.kind = "escaped"]
        BY <2>5 DEF Detach
      <3> QED BY <2>2, <3>1 DEF Became
    <2>6. CASE CloseOutput(p) /\ q \notin procs
      <3>1. q = [p EXCEPT !.holds = FALSE]
        BY <2>6 DEF CloseOutput
      <3> QED BY <2>2, <3>1 DEF Became
    <2>7. CASE Exit(p) /\ q \notin procs
      BY <2>7 DEF Exit
    <2> QED BY <2>1, <2>3, <2>4, <2>5, <2>6, <2>7
  <1>4. LeftOK' /\ calls' = [b \in Backends |-> calls'[b]]
        /\ answers' = [b \in Backends |-> answers'[b]]
        /\ daemon' \in [1..MaxBoxes -> {"absent", "created", "running", "stopped"}]
    BY <1>1 DEF SandboxInd, LeftOK, MachineOK
  <1>5. Held'
    <2>1. Local' = Local /\ Windows' = Windows /\ calls' = calls
      BY <1>1 DEF Local, Windows
    <2>2. \A q \in procs' : \E p \in procs : q.run = p.run
      BY <1>3 DEF Became
    <2>3. Held
      BY DEF SandboxInd
    <2> HIDE DEF Local, Windows
    <2> QED BY <2>1, <2>2, <2>3 DEF Held
  <1> QED BY <1>1, <1>2, <1>3, <1>4, <1>5, MovesKeep

\* What is known of an exec under way.
LEMMA CallFacts ==
    ASSUME SandboxInd, NEW b \in Backends, calls[b] # NoOne, NEW k, k = calls[b]
    PROVE  /\ host # NoOne
           /\ k = [box |-> k.box, run |-> k.run, stage |-> k.stage, timedOut |-> k.timedOut]
           /\ k.stage \in {"poll", "drain"} /\ k.timedOut \in BOOLEAN /\ k.run \in 1..nextRun
           /\ \E x \in BoxesOf(b) : x.id = k.box
           /\ \A p \in procs : p.run = k.run => p.box = k.box
           /\ k.timedOut => Local
           /\ k.stage = "poll" => k.timedOut = FALSE
           /\ \A p \in procs : p.run = k.run /\ Local /\ k.stage = "drain" =>
                  ~Windows /\ (k.timedOut => p.kind = "escaped")
  <1>1. CallOK(b)
    BY DEF SandboxInd
  <1>2. host # NoOne
    BY HostIsOne DEF SandboxInd, HostKnown
  <1> QED BY <1>1, <1>2 DEF CallOK

\* A step of one exec: programs may die, and the exec goes on.
LEMMA PollKeeps ==
    ASSUME SandboxInd, NEW b \in Backends, calls[b] # NoOne,
           UNCHANGED <<host, boxVars, nextRun>>, procs' \subseteq procs,
           calls' = [calls EXCEPT ![b] = calls'[b]],
           answers' = [answers EXCEPT ![b] = answers'[b]],
           CallOK(b)', AnswerOK(b)',
           Local /\ Windows => \A p \in procs' : p.run # calls[b].run
    PROVE  SandboxInd'
  <1>1. host # NoOne /\ \A p \in procs' : \E q \in procs : Became(p, q)
    BY CallFacts, Stays
  <1>2. /\ UNCHANGED <<host, boxes, nextId, temps, profiles, aces, spoiled, nextRun, daemon, unconfirmed>>
        /\ LeftOK'
        /\ daemon' \in [1..MaxBoxes -> {"absent", "created", "running", "stopped"}]
    BY DEF boxVars, SandboxInd, LeftOK, MachineOK
  <1>3. /\ calls' = [c \in Backends |-> calls'[c]]
        /\ answers' = [c \in Backends |-> answers'[c]]
        /\ \A c \in Backends : c # b => calls'[c] = calls[c] /\ answers'[c] = answers[c]
    BY DEF SandboxInd
  <1>4. Held'
    <2>1. Local' = Local /\ Windows' = Windows
      BY DEF Local, Windows
    <2>2. Held
      BY DEF SandboxInd
    <2> HIDE DEF Local, Windows
    <2> QED BY <1>3, <2>1, <2>2 DEF Held
  <1> QED BY <1>1, <1>2, <1>3, <1>4, MovesKeep

\* The poll loop ends: whom it had to kill is dead.
LEMMA DrainKeeps ==
    ASSUME SandboxInd, NEW b \in Backends, Polling(b), NEW t \in BOOLEAN,
           UNCHANGED <<host, boxVars, nextRun, answers>>, procs' \subseteq procs,
           calls' = [calls EXCEPT ![b] = [calls[b] EXCEPT !.stage = "drain", !.timedOut = t]],
           t => Local,
           Local /\ Windows => \A p \in procs' : p.run # calls[b].run,
           t => \A p \in procs' : p.run = calls[b].run => p.kind = "escaped"
    PROVE  SandboxInd'
  <1>1. PICK k : k = calls[b]
    OBVIOUS
  <1>2. /\ calls[b] # NoOne
        /\ k = [box |-> k.box, run |-> k.run, stage |-> k.stage, timedOut |-> k.timedOut]
        /\ k.run \in 1..nextRun
        /\ \E x \in BoxesOf(b) : x.id = k.box
        /\ \A p \in procs : p.run = k.run => p.box = k.box
    BY <1>1, CallFacts DEF Polling
  <1>3. PICK l : l = [k EXCEPT !.stage = "drain", !.timedOut = t]
    OBVIOUS
  <1>4. /\ l = [box |-> l.box, run |-> l.run, stage |-> l.stage, timedOut |-> l.timedOut]
        /\ l.box = k.box /\ l.run = k.run /\ l.stage = "drain" /\ l.timedOut = t
    BY <1>2, <1>3
  <1>5. /\ calls' = [calls EXCEPT ![b] = l]
        /\ calls'[b] = l
    BY <1>1, <1>3 DEF SandboxInd
  <1>6. CallOK(b)'
    <2>1. Local' = Local /\ Windows' = Windows /\ BoxesOf(b)' = BoxesOf(b) /\ nextRun' = nextRun
      BY DEF Local, Windows, BoxesOf, boxVars
    <2>2. \A p \in procs' : p.run = l.run =>
             /\ p.box = l.box
             /\ Local => ~Windows /\ (l.timedOut => p.kind = "escaped")
      BY <1>1, <1>2, <1>4
    <2> HIDE DEF Local, Windows, BoxesOf
    <2> QED BY <1>2, <1>4, <1>5, <2>1, <2>2 DEF CallOK
  <1>7. AnswerOK(b)'
    BY DEF SandboxInd, AnswerOK, boxVars, Local, Windows
  <1>8. answers' = [answers EXCEPT ![b] = answers'[b]]
    BY DEF SandboxInd
  <1> QED BY <1>2, <1>5, <1>6, <1>7, <1>8, PollKeeps

\* The program has exited.
LEMMA PollExitedKeeps ==
    ASSUME SandboxInd, NEW b \in Backends, PollExited(b)
    PROVE  SandboxInd'
  <1>1. /\ Polling(b) /\ Local /\ UNCHANGED <<host, boxVars, nextRun, answers>>
        /\ calls' = [calls EXCEPT ![b].stage = "drain"]
    BY DEF PollExited
  <1>2. PICK k : k = calls[b]
    OBVIOUS
  <1>3. /\ k = [box |-> k.box, run |-> k.run, stage |-> k.stage, timedOut |-> k.timedOut]
        /\ k.timedOut = FALSE
    BY <1>1, <1>2, CallFacts DEF Polling
  <1>4. [k EXCEPT !.stage = "drain"] = [k EXCEPT !.stage = "drain", !.timedOut = FALSE]
    BY <1>3
  <1>5. calls' = [calls EXCEPT ![b] = [calls[b] EXCEPT !.stage = "drain", !.timedOut = FALSE]]
    BY <1>1, <1>2, <1>4
  <1>6. /\ procs' \subseteq procs
        /\ Local /\ Windows => \A p \in procs' : p.run # calls[b].run
    BY DEF PollExited, Killed, JobOf, ProcsOf
  <1> QED BY <1>1, <1>5, <1>6, DrainKeeps

\* The program is late and is killed.
LEMMA PollTimeoutKeeps ==
    ASSUME SandboxInd, NEW b \in Backends, PollTimeout(b)
    PROVE  SandboxInd'
  <1>1. /\ Polling(b) /\ Local /\ UNCHANGED <<host, boxVars, nextRun, answers>>
        /\ calls' = [calls EXCEPT ![b] = [calls[b] EXCEPT !.stage = "drain", !.timedOut = TRUE]]
    BY DEF PollTimeout, SandboxInd
  <1>2. /\ procs' \subseteq procs
        /\ Local /\ Windows => \A p \in procs' : p.run # calls[b].run
        /\ \A p \in procs' : p.run = calls[b].run => p.kind = "escaped"
    BY DEF PollTimeout, Killed, JobOf, GroupOf, ProcsOf
  <1> QED BY <1>1, <1>2, DrainKeeps

\* docker: the program has exited.
LEMMA DockerDoneKeeps ==
    ASSUME SandboxInd, NEW b \in Backends, DockerDone(b)
    PROVE  SandboxInd'
  <1>1. /\ Polling(b) /\ ~Local /\ UNCHANGED <<host, boxVars, nextRun, procs, answers>>
        /\ calls' = [calls EXCEPT ![b].stage = "drain"]
    BY DEF DockerDone
  <1>2. PICK k : k = calls[b]
    OBVIOUS
  <1>3. /\ k = [box |-> k.box, run |-> k.run, stage |-> k.stage, timedOut |-> k.timedOut]
        /\ k.timedOut = FALSE
    BY <1>1, <1>2, CallFacts DEF Polling
  <1>4. [k EXCEPT !.stage = "drain"] = [k EXCEPT !.stage = "drain", !.timedOut = FALSE]
    BY <1>3
  <1>5. calls' = [calls EXCEPT ![b] = [calls[b] EXCEPT !.stage = "drain", !.timedOut = FALSE]]
    BY <1>1, <1>2, <1>4
  <1> QED BY <1>1, <1>5, DrainKeeps

\* exec comes back.
LEMMA DrainedKeeps ==
    ASSUME SandboxInd, NEW b \in Backends, Drained(b)
    PROVE  SandboxInd'
  <1>1. PICK k : k = calls[b]
    OBVIOUS
  <1>2. /\ calls[b] # NoOne /\ k.stage = "drain"
        /\ UNCHANGED <<host, boxVars, nextRun, procs>>
        /\ \A p \in ProcsOf(k.run) : ~p.holds
        /\ calls' = [calls EXCEPT ![b] = NoOne]
    BY <1>1 DEF Drained
  <1>3. PICK a : a = IF k.timedOut THEN TimedOut(k.run) ELSE [run |-> k.run, result |-> "ok"]
    OBVIOUS
  <1>4. answers' = [answers EXCEPT ![b] = a]
    BY <1>1, <1>3 DEF Drained
  <1>5. /\ k.run \in 1..nextRun /\ (k.timedOut => Local) /\ k.timedOut \in BOOLEAN
        /\ \A p \in procs : p.run = k.run /\ Local =>
               ~Windows /\ (k.timedOut => p.kind = "escaped")
        /\ \A p \in procs : p.holds \in BOOLEAN
    BY <1>1, <1>2, CallFacts DEF SandboxInd, ProcOK
  <1>6. a.run = k.run /\ (a.result = "timed_out" => k.timedOut = TRUE)
    BY <1>3, <1>5 DEF TimedOut
  <1>7. calls'[b] = NoOne /\ answers'[b] = a
    BY <1>2, <1>4 DEF SandboxInd
  <1>8. CallOK(b)'
    BY <1>7 DEF CallOK
  <1>9. AnswerOK(b)'
    <2>1. \A p \in procs : p.run = k.run => p.holds = FALSE
      BY <1>2, <1>5 DEF ProcsOf
    <2>2. /\ Local' = Local /\ Windows' = Windows /\ procs' = procs /\ nextRun' = nextRun
          /\ k.run \in 0..nextRun
      BY <1>2, <1>5 DEF Local, Windows
    <2> HIDE DEF Local, Windows
    <2>3. \A p \in procs : p.run = a.run =>
             /\ a.result = "timed_out" => p.kind = "escaped"
             /\ Local => ~Windows /\ p.holds = FALSE
      BY <1>5, <1>6, <2>1
    <2> QED BY <1>6, <1>7, <2>2, <2>3 DEF AnswerOK
  <1>10. /\ calls' = [calls EXCEPT ![b] = calls'[b]]
         /\ answers' = [answers EXCEPT ![b] = answers'[b]]
    BY <1>2, <1>4, <1>7
  <1>11. Local /\ Windows => \A p \in procs' : p.run # calls[b].run
    BY <1>1, <1>2, <1>5
  <1> QED BY <1>2, <1>8, <1>9, <1>10, <1>11, PollKeeps

\* docker: the container is stopped, or the daemon did not say.
LEMMA DockerTimeoutKeeps ==
    ASSUME SandboxInd, NEW b \in Backends, DockerTimeout(b)
    PROVE  SandboxInd'
  <1>1. PICK k : k = calls[b]
    OBVIOUS
  <1>2. /\ calls[b] # NoOne /\ ~Local
        /\ calls' = [calls EXCEPT ![b] = NoOne]
        /\ answers' = [answers EXCEPT ![b] = TimedOut(k.run)]
        /\ UNCHANGED <<host, boxes, nextId, temps, profiles, aces, spoiled, nextRun>>
        /\ \/ /\ daemon' = [daemon EXCEPT ![k.box] = "stopped"]
              /\ procs' = {p \in procs : p.box # k.box}
              /\ unconfirmed' = unconfirmed
           \/ unconfirmed' = unconfirmed \cup {k.box} /\ daemon' = daemon /\ procs' = procs
    BY <1>1 DEF DockerTimeout, Polling
  <1>3. /\ k.run \in 1..nextRun /\ \E x \in BoxesOf(b) : x.id = k.box
        /\ \A p \in procs : p.run = k.run => p.box = k.box
        /\ host # NoOne
    BY <1>1, <1>2, CallFacts
  <1>4. /\ daemon \in [1..MaxBoxes -> {"absent", "created", "running", "stopped"}]
        /\ LeftOK
        /\ calls = [c \in Backends |-> calls[c]] /\ answers = [c \in Backends |-> answers[c]]
    BY DEF SandboxInd, MachineOK
  <1>5. PICK a : a = TimedOut(k.run)
    OBVIOUS
  <1>6. /\ calls' = [c \in Backends |-> calls'[c]] /\ answers' = [c \in Backends |-> answers'[c]]
        /\ calls'[b] = NoOne /\ answers'[b] = a
        /\ \A c \in Backends : c # b => calls'[c] = calls[c] /\ answers'[c] = answers[c]
    BY <1>2, <1>4, <1>5
  <1>7. /\ procs' \subseteq procs /\ unconfirmed \subseteq unconfirmed'
        /\ \A p \in procs' : p.run = k.run => p.box \in unconfirmed'
        /\ daemon' \in [1..MaxBoxes -> {"absent", "created", "running", "stopped"}]
        /\ \A id \in 1..MaxBoxes : daemon'[id] # daemon[id] => id = k.box
    BY <1>2, <1>3, <1>4
  <1>8. LeftOK'
    BY <1>2, <1>3, <1>4, <1>7 DEF LeftOK, BoxesOf
  <1>9. CallOK(b)'
    BY <1>6 DEF CallOK
  <1>10. AnswerOK(b)'
    <2>1. a.run = k.run /\ k.run \in 0..nextRun
      BY <1>3, <1>5 DEF TimedOut
    <2>2. ~Local' /\ nextRun' = nextRun
      BY <1>2 DEF Local
    <2> HIDE DEF Local
    <2> QED BY <1>6, <1>7, <2>1, <2>2 DEF AnswerOK
  <1>11. \A p \in procs' : \E q \in procs : Became(p, q)
    BY <1>7, Stays
  <1>12. Held'
    BY <1>2 DEF Held, Local
  <1> QED BY <1>2, <1>3, <1>6, <1>7, <1>8, <1>9, <1>10, <1>11, <1>12, MovesKeep

\* docker: the container goes behind writ's back.
LEMMA ContainerDiesKeeps ==
    ASSUME SandboxInd, NEW id \in 1..MaxBoxes, ContainerDies(id)
    PROVE  SandboxInd'
  <1>1. /\ host # NoOne /\ ~Local
        /\ UNCHANGED <<host, boxes, nextId, temps, profiles, aces, spoiled, nextRun, unconfirmed,
                       calls, answers>>
        /\ daemon' = [daemon EXCEPT ![id] = "absent"]
        /\ \A p \in procs' : \E q \in procs : Became(p, q)
    BY Stays DEF ContainerDies
  <1>2. /\ daemon' \in [1..MaxBoxes -> {"absent", "created", "running", "stopped"}]
        /\ calls' = [c \in Backends |-> calls'[c]] /\ answers' = [c \in Backends |-> answers'[c]]
        /\ LeftOK'
    BY <1>1 DEF SandboxInd, MachineOK, LeftOK
  <1>3. Held'
    BY <1>1 DEF Held, Local
  <1> QED BY <1>1, <1>2, <1>3, MovesKeep

\* A program is started, or is not.
LEMMA ExecStartKeeps ==
    ASSUME SandboxInd, NEW b \in Backends, NEW x \in boxes, ExecStart(b, x)
    PROVE  SandboxInd'
  <1> DEFINE n == nextRun + 1
             k == [box |-> x.id, run |-> n, stage |-> "poll", timedOut |-> FALSE]
  <1>1. /\ host # NoOne /\ calls[b] = NoOne /\ x \in BoxesOf(b) /\ nextRun' = n
        /\ host' = host /\ boxes' = boxes /\ nextId' = nextId /\ temps' = temps
        /\ profiles' = profiles /\ aces' = aces /\ spoiled' = spoiled /\ daemon' = daemon
        /\ unconfirmed' = unconfirmed
    BY DEF ExecStart, Idle, boxVars
  <1>2. /\ nextRun \in Nat /\ nextId \in Nat /\ n \in 0..MaxExecs
        /\ calls = [c \in Backends |-> calls[c]] /\ answers = [c \in Backends |-> answers[c]]
    BY SandboxAssumption DEF SandboxInd, SandboxAssumption, ExecStart
  <1>0. PICK l : l = Leader(x, n)
    OBVIOUS
  <1>3. /\ l = [box |-> l.box, run |-> l.run, kind |-> l.kind, holds |-> l.holds,
                power |-> l.power, report |-> l.report]
        /\ l.box = x.id /\ l.run = n /\ l.kind = "leader" /\ l.holds \in BOOLEAN
        /\ l.power = PowerIn(x) /\ l.report = x.report
    BY <1>0 DEF Leader
  <1>4. ProcOK(l)'
    <2>1. PICK w : w = PowerIn(x)
      OBVIOUS
    <2>2. /\ Keeps(w, x.report, BoxWritable)
          /\ host.mode = "Required" =>
                w.sockets = {} /\ w.writes \subseteq BoxWritable \cup {"dev"}
          /\ BoxWritable' = BoxWritable
      BY <1>1, <2>1, Confines DEF BoxWritable, Local, Windows
    <2>3. l.power = w /\ l.run \in 1..nextRun'
      BY <1>1, <1>2, <1>3, <2>1
    <2> QED BY <1>1, <1>3, <2>2, <2>3 DEF ProcOK
  <1>5. \A p \in procs : Became(p, p) /\ p.run \in 1..nextRun /\ p.run \in 1..n
    BY <1>2, Stays
  <1>call. k # NoOne
    <2>1. x.id \in 1..MaxBoxes /\ n \in 1..MaxExecs
      BY <1>2, SandboxAssumption DEF SandboxInd, SandboxAssumption, BoxOK
    <2>2. k \in [box : 1..MaxBoxes, run : 1..MaxExecs, stage : {"poll", "drain"},
                 timedOut : BOOLEAN]
      <3> HIDE DEF n
      <3> QED BY <2>1
    <2> QED BY <2>2, SandboxAssumption DEF SandboxAssumption
  <1>6. CASE /\ procs' = procs \cup {l} /\ answers' = answers
             /\ calls' = [calls EXCEPT ![b] = k]
    <2>1. Descend /\ \A p \in procs' : p.run \in 1..nextRun'
      BY <1>1, <1>2, <1>3, <1>5, <1>6 DEF Descend
    <2>2. \A p \in procs' : ProcOK(p)'
      BY <1>1, <1>2, <1>4, <1>5, <1>6, ProcKeeps
    <2>3. /\ calls' = [c \in Backends |-> calls'[c]] /\ answers' = [c \in Backends |-> answers'[c]]
          /\ \A c \in Backends : answers'[c] = answers[c]
          /\ \A c \in Backends : c # b => calls'[c] = calls[c]
          /\ calls'[b] = k
      BY <1>2, <1>6
    <2>4. \A c \in Backends : c # b => CallOK(c)' /\ AnswerOK(c)'
      <3>1. \A c \in Backends : BoxesOf(c) \subseteq boxes'
        BY <1>1 DEF BoxesOf
      <3> QED BY <1>1, <1>2, <2>1, <2>3, <3>1, Undisturbed
    <2>5. CallOK(b)'
      <3>1. /\ k = [box |-> k.box, run |-> k.run, stage |-> k.stage, timedOut |-> k.timedOut]
            /\ k.box = x.id /\ k.run = n /\ k.stage = "poll" /\ k.timedOut = FALSE
        OBVIOUS
      <3>2. \A p \in procs' : p.run = n => p.box = x.id
        BY <1>2, <1>3, <1>5, <1>6
      <3>3. x \in BoxesOf(b)' /\ n \in 1..nextRun'
        BY <1>1, <1>2 DEF BoxesOf
      <3> HIDE DEF k
      <3> QED BY <2>3, <3>1, <3>2, <3>3 DEF CallOK
    <2>6. AnswerOK(b)'
      <3>1. PICK a : a = answers[b]
        OBVIOUS
      <3>2. a.run \in 0..nextRun /\ AnswerOK(b)
        BY <3>1 DEF SandboxInd, AnswerOK
      <3>3. \A p \in procs' : p.run = a.run => p \in procs
        BY <1>2, <1>3, <1>6, <3>2
      <3>4. a.run \in 0..nextRun' /\ answers'[b] = a
        BY <1>1, <1>2, <2>3, <3>1, <3>2
      <3>5. Local' = Local /\ Windows' = Windows /\ unconfirmed' = unconfirmed
        BY <1>1 DEF Local, Windows
      <3> HIDE DEF Local, Windows
      <3> QED BY <3>1, <3>2, <3>3, <3>4, <3>5 DEF AnswerOK
    <2>7. \A c \in Backends : CallOK(c)' /\ AnswerOK(c)'
      BY <2>4, <2>5, <2>6
    <2>8. /\ \A y \in boxes' : BoxOK(y)'
          /\ \A y, z \in boxes' : y.id = z.id => y = z
      BY <1>1, <1>2, BoxesStay
    <2>9. HostKnown' /\ MachineOK' /\ LeftOK'
      BY <1>1, HostFacts DEF HostKnown, Local, Windows, SandboxInd, MachineOK, LeftOK
    <2>10. Held'
      <3>1. Held /\ Local' = Local /\ Windows' = Windows
        BY <1>1 DEF SandboxInd, Local, Windows
      <3>2. k # NoOne /\ k.run = n
        BY <1>call
      <3> HIDE DEF Local, Windows, k
      <3>3. \A c \in Backends : calls[c] # NoOne => calls'[c] = calls[c]
        BY <1>1, <2>3
      <3>4. \A p \in procs' : p \in procs \/ p.run = n
        BY <1>3, <1>6
      <3> QED BY <2>3, <3>1, <3>2, <3>3, <3>4 DEF Held
    <2> QED BY <1>1, <1>2, <2>2, <2>3, <2>7, <2>8, <2>9, <2>10 DEF SandboxInd
  <1>7. CASE /\ procs' = procs /\ calls' = calls
             /\ answers' = [answers EXCEPT ![b] = [run |-> n, result |-> "error"]]
    <2>1. Descend /\ \A p \in procs' : p.run \in 1..nextRun'
      BY <1>1, <1>2, <1>5, <1>7 DEF Descend
    <2>2. \A p \in procs' : ProcOK(p)'
      BY <1>1, <1>2, <1>5, <1>7, ProcKeeps
    <2>3. /\ calls' = [c \in Backends |-> calls'[c]] /\ answers' = [c \in Backends |-> answers'[c]]
          /\ \A c \in Backends : calls'[c] = calls[c]
          /\ \A c \in Backends : c # b => answers'[c] = answers[c]
          /\ answers'[b] = [run |-> n, result |-> "error"]
      BY <1>2, <1>7
    <2>4. \A c \in Backends : c # b => CallOK(c)' /\ AnswerOK(c)'
      <3>1. \A c \in Backends : BoxesOf(c) \subseteq boxes'
        BY <1>1 DEF BoxesOf
      <3> QED BY <1>1, <1>2, <2>1, <2>3, <3>1, Undisturbed
    <2>5. CallOK(b)'
      BY <1>1, <2>3 DEF CallOK
    <2>6. AnswerOK(b)'
      <3>1. \A p \in procs' : p.run # n
        BY <1>2, <1>5, <1>7
      <3>2. n \in 0..nextRun'
        BY <1>1, <1>2
      <3> HIDE DEF n
      <3> QED BY <2>3, <3>1, <3>2 DEF AnswerOK
    <2>7. \A c \in Backends : CallOK(c)' /\ AnswerOK(c)'
      BY <2>4, <2>5, <2>6
    <2>8. /\ \A y \in boxes' : BoxOK(y)'
          /\ \A y, z \in boxes' : y.id = z.id => y = z
      BY <1>1, <1>2, BoxesStay
    <2>9. HostKnown' /\ MachineOK' /\ LeftOK'
      BY <1>1, HostFacts DEF HostKnown, Local, Windows, SandboxInd, MachineOK, LeftOK
    <2>10. Held'
      BY <1>1, <1>7, <2>3 DEF SandboxInd, Held, Local, Windows
    <2> QED BY <1>1, <1>2, <2>2, <2>3, <2>7, <2>8, <2>9, <2>10 DEF SandboxInd
  <1>8. \/ /\ procs' = procs \cup {l} /\ answers' = answers
           /\ calls' = [calls EXCEPT ![b] = k]
        \/ /\ procs' = procs /\ calls' = calls
           /\ answers' = [answers EXCEPT ![b] = [run |-> n, result |-> "error"]]
    BY <1>0 DEF ExecStart
  <1> QED BY <1>6, <1>7, <1>8

\* A step of prepare or teardown: no exec begins or ends, backends keep the
\* sandboxes of their execs.
LEMMA BoxStepKeeps ==
    ASSUME SandboxInd, host # NoOne, host' = host,
           nextRun' = nextRun, calls' = calls, answers' = answers,
           procs' \subseteq procs, unconfirmed \subseteq unconfirmed',
           nextId' \in 0..MaxBoxes, MachineOK', LeftOK',
           Local => daemon' = daemon, ~Local => temps' = temps,
           ~(Local /\ Windows) => profiles' = profiles,
           \A x \in boxes' : BoxOK(x)',
           \A x, y \in boxes' : x.id = y.id => x = y,
           \A c \in Backends : calls[c] = NoOne \/ BoxesOf(c) \subseteq boxes'
    PROVE  SandboxInd'
  <1>1. /\ nextRun \in Nat /\ nextRun \in 0..MaxExecs
        /\ calls = [c \in Backends |-> calls[c]] /\ answers = [c \in Backends |-> answers[c]]
        /\ \A c \in Backends : AnswerOK(c)
    BY SandboxAssumption DEF SandboxInd, SandboxAssumption
  <1>2. Descend /\ \A p \in procs' : p.run \in 1..nextRun
    BY Shrinks
  <1>3. \A p \in procs' : ProcOK(p)'
    BY <1>1, Stays, ProcKeeps
  <1>4. ASSUME NEW c \in Backends PROVE CallOK(c)' /\ AnswerOK(c)'
    <2>1. CASE BoxesOf(c) \subseteq boxes'
      BY <1>1, <1>2, <2>1, Undisturbed
    <2>2. CASE calls[c] = NoOne
      <3>1. CallOK(c)'
        BY <2>2 DEF CallOK
      <3>2. Local' = Local /\ Windows' = Windows
        BY DEF Local, Windows
      <3> HIDE DEF Local, Windows
      <3>3. AnswerOK(c)'
        BY <1>1, <3>2 DEF AnswerOK
      <3> QED BY <3>1, <3>3
    <2> QED BY <2>1, <2>2
  <1>5. HostKnown'
    BY HostFacts DEF HostKnown, Local, Windows
  <1>6. Held'
    BY DEF SandboxInd, Held, Local, Windows
  <1> QED BY <1>1, <1>3, <1>4, <1>5, <1>6 DEF SandboxInd

\* The next id is new.
LEMMA IdFresh ==
    ASSUME SandboxInd, nextId < MaxBoxes
    PROVE  /\ nextId \in Nat /\ nextId + 1 \in 1..MaxBoxes /\ nextId + 1 \in Nat
           /\ \A x \in boxes : x.id # nextId + 1
           /\ nextId + 1 \notin temps
  <1>1. nextId \in Nat /\ nextId + 1 \in 1..MaxBoxes
    BY SandboxAssumption DEF SandboxInd, SandboxAssumption
  <1>2. \A x \in boxes : x.id \in 1..nextId
    BY DEF SandboxInd, BoxOK
  <1>3. temps = {x.id : x \in {y \in boxes : y.owns}}
    BY DEF SandboxInd, LeftOK
  <1> QED BY <1>1, <1>2, <1>3

\* local-os prepares a sandbox, or refuses a workspace around its temp.
LEMMA PrepareLocalKeeps ==
    ASSUME SandboxInd, NEW b \in Backends, NEW ws \in Workspaces, NEW hosts \in BOOLEAN,
           PrepareLocal(b, ws, hosts)
    PROVE  SandboxInd'
  <1>1. PICK id : id = nextId + 1
    OBVIOUS
  <1>2. PICK plan : plan = BoxPlan(hosts)
    OBVIOUS
  <1>3. PICK o \in BOOLEAN : o = ~(Windows /\ plan.applyFs)
    OBVIOUS
  <1>4. PICK x : x = [id |-> id, backend |-> b, ws |-> ws, report |-> plan, owns |-> o]
    OBVIOUS
  <1>5. /\ host # NoOne /\ Local /\ nextId < MaxBoxes /\ plan # Refused /\ nextId' = id
        /\ host' = host /\ daemon' = daemon /\ unconfirmed' = unconfirmed
        /\ nextRun' = nextRun /\ calls' = calls /\ answers' = answers /\ procs' = procs
    BY <1>1, <1>2 DEF PrepareLocal, Idle, runVars
  <1>6. boxes' = IF ws \in HoldsTemp THEN boxes ELSE boxes \cup {x}
    BY <1>1, <1>2, <1>3, <1>4 DEF PrepareLocal
  <1>7. /\ o = FALSE => /\ temps' = temps /\ Windows /\ aces' \subseteq aces \cup {ws}
                        /\ profiles' = profiles \cup {ws}
                        /\ spoiled' = IF ws \in HoldsTemp THEN spoiled \cup {ws} ELSE spoiled
        /\ o = TRUE => /\ temps' = IF ws \in HoldsTemp THEN temps ELSE temps \cup {id}
                       /\ profiles' = profiles /\ aces' = aces /\ spoiled' = spoiled
    BY <1>1, <1>2, <1>3 DEF PrepareLocal, PrepareContainer, TempOf
  <1>8. /\ id \in 1..MaxBoxes /\ nextId \in Nat /\ \A y \in boxes : y.id # id
    BY <1>1, <1>5, IdFresh
  <1>9. x.id = id /\ x.ws = ws /\ x.report = plan /\ x.owns = o
    BY <1>4
  <1>10. BoxOK(x)'
    <2>1. BoxPlan(hosts)' = plan /\ Local'
      BY <1>2, <1>5 DEF BoxPlan, Local
    <2>2. x.id \in 1..nextId'
      BY <1>1, <1>5, <1>8, <1>9
    <2> QED BY <1>5, <1>9, <2>1, <2>2 DEF BoxOK
  <1>11. /\ \A y \in boxes : BoxOK(y)'
         /\ \A y, z \in boxes : y.id = z.id => y = z
    <2>1. ASSUME NEW y \in boxes PROVE BoxOK(y)'
      <3>1. BoxOK(y)
        BY DEF SandboxInd
      <3> QED BY <1>1, <1>5, <1>8, <3>1 DEF BoxOK, Local, BoxPlan
    <2> QED BY <2>1 DEF SandboxInd
  <1>12. /\ \A y \in boxes' : BoxOK(y)'
         /\ \A y, z \in boxes' : y.id = z.id => y = z
    BY <1>6, <1>8, <1>9, <1>10, <1>11
  <1>13. LeftOK'
    <2>1. /\ temps = {y.id : y \in {z \in boxes : z.owns}}
          /\ \A i \in 1..MaxBoxes : daemon[i] # "absent" => i \in unconfirmed
                                                            \/ \E y \in boxes : y.id = i
          /\ profiles \subseteq {y.ws : y \in boxes} \cup spoiled
      BY DEF SandboxInd, LeftOK
    <2>2. temps' = {y.id : y \in {z \in boxes' : z.owns}}
      <3>1. CASE ws \in HoldsTemp
        BY <1>6, <1>7, <2>1, <3>1
      <3>2. CASE ws \notin HoldsTemp /\ o = TRUE
        <4>1. temps' = temps \cup {id} /\ boxes' = boxes \cup {x}
          BY <1>6, <1>7, <3>2
        <4>2. x.owns /\ x.id = id
          BY <1>9, <3>2
        <4> QED BY <2>1, <4>1, <4>2
      <3>3. CASE ws \notin HoldsTemp /\ o = FALSE
        BY <1>6, <1>7, <1>9, <2>1, <3>3
      <3> QED BY <3>1, <3>2, <3>3
    <2>3. profiles' \subseteq {y.ws : y \in boxes'} \cup spoiled'
      <3>1. CASE ws \in HoldsTemp
        BY <1>6, <1>7, <2>1, <3>1
      <3>2. CASE ws \notin HoldsTemp
        BY <1>6, <1>7, <1>9, <2>1, <3>2
      <3> QED BY <3>1, <3>2
    <2> QED BY <1>5, <1>6, <2>1, <2>2, <2>3 DEF LeftOK
  <1>14. MachineOK'
    BY <1>5, <1>7, <1>8 DEF SandboxInd, MachineOK
  <1>15. nextId' \in 0..MaxBoxes /\ \A c \in Backends : BoxesOf(c) \subseteq boxes'
    BY <1>5, <1>6, <1>8 DEF BoxesOf
  <1>16. ~(Local /\ Windows) => profiles' = profiles
    BY <1>5, <1>7
  <1> QED BY <1>5, <1>12, <1>13, <1>14, <1>15, <1>16, BoxStepKeeps

\* Half of an AppContainer is left behind.
LEMMA ContainerFailsKeeps ==
    ASSUME SandboxInd, NEW b \in Backends, NEW ws \in Workspaces, NEW hosts \in BOOLEAN,
           ContainerFails(b, ws, hosts)
    PROVE  SandboxInd'
  <1>1. /\ host # NoOne /\ Local /\ Windows /\ nextId < MaxBoxes /\ nextId' = nextId + 1
        /\ host' = host /\ boxes' = boxes /\ temps' = temps /\ daemon' = daemon
        /\ unconfirmed' = unconfirmed /\ nextRun' = nextRun /\ calls' = calls
        /\ answers' = answers /\ procs' = procs
        /\ profiles' = profiles \cup {ws} /\ spoiled' = spoiled \cup {ws}
        /\ aces' \subseteq aces \cup {ws}
    BY DEF ContainerFails, Idle, runVars
  <1>2. nextId' \in 0..MaxBoxes /\ nextId \in Nat /\ nextId' \in Nat /\ nextId <= nextId'
    BY <1>1, IdFresh
  <1>3. /\ \A x \in boxes' : BoxOK(x)'
        /\ \A x, y \in boxes' : x.id = y.id => x = y
    BY <1>1, <1>2, BoxesStay
  <1>4. LeftOK' /\ MachineOK'
    BY <1>1 DEF SandboxInd, LeftOK, MachineOK
  <1>5. \A c \in Backends : BoxesOf(c) \subseteq boxes'
    BY <1>1 DEF BoxesOf
  <1> QED BY <1>1, <1>2, <1>3, <1>4, <1>5, BoxStepKeeps

\* docker prepares a container, or the daemon fails half-way.
LEMMA PrepareDockerKeeps ==
    ASSUME SandboxInd, NEW b \in Backends, NEW ws \in Workspaces, NEW hosts \in BOOLEAN,
           PrepareDocker(b, ws, hosts)
    PROVE  SandboxInd'
  <1>1. PICK id : id = nextId + 1
    OBVIOUS
  <1>2. PICK x : x = [id |-> id, backend |-> b, ws |-> ws, report |-> DockerReport,
                      owns |-> FALSE]
    OBVIOUS
  <1>3. /\ host # NoOne /\ ~Local /\ nextId < MaxBoxes /\ nextId' = id
        /\ host' = host /\ temps' = temps /\ profiles' = profiles /\ aces' = aces
        /\ spoiled' = spoiled /\ nextRun' = nextRun /\ calls' = calls /\ answers' = answers /\ procs' = procs
    BY <1>1 DEF PrepareDocker, Idle, runVars
  <1>4. \/ /\ daemon' = [daemon EXCEPT ![id] = "running"] /\ boxes' = boxes \cup {x}
           /\ unconfirmed' = unconfirmed
        \/ daemon' = daemon /\ boxes' = boxes /\ unconfirmed' = unconfirmed
        \/ /\ \E s \in {"created", "running"} : daemon' = [daemon EXCEPT ![id] = s]
           /\ boxes' = boxes /\ unconfirmed' = unconfirmed \cup {id}
    BY <1>1, <1>2 DEF PrepareDocker, StartFailed
  <1>5. /\ id \in 1..MaxBoxes /\ nextId \in Nat /\ \A y \in boxes : y.id # id
    BY <1>1, <1>3, IdFresh
  <1>6. x.id = id /\ x.ws = ws /\ x.report = DockerReport /\ x.owns = FALSE
    BY <1>2
  <1>7. BoxOK(x)'
    <2>1. DockerReport # Refused
      <3>1. DockerReport.fs = "NotEnforced" /\ Refused.fs = "Refused"
        BY DEF DockerReport, Refused
      <3> QED BY <3>1
    <2>2. x.id \in 1..nextId' /\ ~Local'
      BY <1>1, <1>3, <1>5, <1>6 DEF Local
    <2> QED BY <1>6, <2>1, <2>2 DEF BoxOK
  <1>8. /\ \A y \in boxes : BoxOK(y)'
        /\ \A y, z \in boxes : y.id = z.id => y = z
    <2>1. ASSUME NEW y \in boxes PROVE BoxOK(y)'
      <3>1. BoxOK(y)
        BY DEF SandboxInd
      <3> QED BY <1>1, <1>3, <1>5, <3>1 DEF BoxOK, Local, BoxPlan
    <2> QED BY <2>1 DEF SandboxInd
  <1>9. /\ \A y \in boxes' : BoxOK(y)'
        /\ \A y, z \in boxes' : y.id = z.id => y = z
    BY <1>4, <1>5, <1>6, <1>7, <1>8
  <1>10. daemon \in [1..MaxBoxes -> {"absent", "created", "running", "stopped"}]
    BY DEF SandboxInd, MachineOK
  <1>11. LeftOK'
    <2>1. /\ temps = {y.id : y \in {z \in boxes : z.owns}}
          /\ \A i \in 1..MaxBoxes : daemon[i] # "absent" => i \in unconfirmed
                                                            \/ \E y \in boxes : y.id = i
      BY DEF SandboxInd, LeftOK
    <2>2. temps' = {y.id : y \in {z \in boxes' : z.owns}}
      BY <1>3, <1>4, <1>6, <2>1
    <2>3. \A i \in 1..MaxBoxes : daemon'[i] # "absent" =>
             i \in unconfirmed' \/ \E y \in boxes' : y.id = i
      BY <1>4, <1>6, <1>10, <2>1
    <2>4. profiles' = {}
      BY <1>3, HostFacts
    <2> QED BY <2>2, <2>3, <2>4 DEF LeftOK
  <1>12. MachineOK'
    BY <1>3, <1>4, <1>5, <1>10 DEF SandboxInd, MachineOK
  <1>13. /\ nextId' \in 0..MaxBoxes /\ unconfirmed \subseteq unconfirmed'
         /\ \A c \in Backends : BoxesOf(c) \subseteq boxes'
    BY <1>3, <1>4, <1>5 DEF BoxesOf
  <1> QED BY <1>3, <1>9, <1>11, <1>12, <1>13, BoxStepKeeps

\* local-os forgets some of a backend's sandboxes.
LEMMA ForgetKeeps ==
    ASSUME SandboxInd, NEW b \in Backends, Idle(b), Local,
           NEW gone, gone \subseteq BoxesOf(b), boxes' = boxes \ gone, Forgets(b, gone),
           UNCHANGED <<host, nextId, aces, spoiled, daemon, unconfirmed, runVars>>
    PROVE  SandboxInd'
  <1>1. /\ host # NoOne /\ calls[b] = NoOne
        /\ host' = host /\ nextId' = nextId /\ aces' = aces /\ daemon' = daemon
        /\ spoiled' = spoiled
        /\ unconfirmed' = unconfirmed /\ nextRun' = nextRun /\ calls' = calls
        /\ answers' = answers /\ procs' = procs
    BY DEF Idle, runVars
  <1>2. /\ nextId \in Nat /\ nextId \in 0..MaxBoxes /\ MachineOK
        /\ \A x, y \in boxes : x.id = y.id => x = y
    BY SandboxAssumption DEF SandboxInd, SandboxAssumption
  <1>3. /\ \A x \in boxes' : BoxOK(x)'
        /\ \A x, y \in boxes' : x.id = y.id => x = y
    BY <1>1, <1>2, BoxesStay
  <1>4. /\ temps = {x.id : x \in {y \in boxes : y.owns}}
        /\ \A i \in 1..MaxBoxes : daemon[i] = "absent"
        /\ profiles \subseteq {x.ws : x \in boxes} \cup spoiled
        /\ ~Windows => profiles = {}
    BY <1>1, HostFacts DEF SandboxInd, LeftOK
  <1>5. temps' = temps \ {x.id : x \in {y \in gone : y.owns}} /\ profiles' \subseteq profiles
    BY DEF Forgets
  <1>6. temps' = {x.id : x \in {y \in boxes' : y.owns}}
    BY <1>2, <1>4, <1>5 DEF BoxesOf
  <1>10. profiles' \subseteq {x.ws : x \in boxes'} \cup spoiled'
    <2> SUFFICES ASSUME NEW w \in profiles, w \in profiles', w \notin spoiled
                 PROVE  \E x \in boxes' : x.ws = w
      BY <1>1, <1>5
    <2>1. PICK x \in boxes : x.ws = w
      BY <1>4
    <2>2. CASE x \in gone
      <3>1. \E y \in BoxesOf(b) \ gone : y.ws = w
        BY <1>4, <2>1, <2>2 DEF Forgets
      <3> QED BY <3>1 DEF BoxesOf
    <2>3. CASE x \notin gone
      BY <2>1, <2>3
    <2> QED BY <2>2, <2>3
  <1>7. LeftOK'
    BY <1>1, <1>4, <1>6, <1>10 DEF LeftOK
  <1>11. ~(Local /\ Windows) => profiles' = profiles
    BY <1>4, <1>5
  <1>8. MachineOK'
    BY <1>1, <1>2, <1>5 DEF MachineOK
  <1>9. \A c \in Backends : c = b \/ BoxesOf(c) \subseteq boxes'
    BY DEF BoxesOf
  <1> QED BY <1>1, <1>2, <1>3, <1>7, <1>8, <1>9, <1>11, BoxStepKeeps

\* docker's teardown: the container goes, or the daemon did not say.
LEMMA TeardownDockerKeeps ==
    ASSUME SandboxInd, NEW b \in Backends, NEW x \in boxes, TeardownDocker(b, x)
    PROVE  SandboxInd'
  <1>1. /\ host # NoOne /\ calls[b] = NoOne /\ ~Local /\ x \in BoxesOf(b)
        /\ host' = host /\ nextId' = nextId /\ temps' = temps /\ profiles' = profiles
        /\ aces' = aces /\ spoiled' = spoiled /\ nextRun' = nextRun /\ calls' = calls /\ answers' = answers
    BY DEF TeardownDocker, Idle
  <1>2. \/ /\ daemon' = [daemon EXCEPT ![x.id] = "absent"] /\ procs' \subseteq procs
           /\ boxes' = boxes \ {x} /\ unconfirmed' = unconfirmed
        \/ /\ daemon' = daemon /\ procs' = procs /\ unconfirmed' = unconfirmed \cup {x.id}
           /\ boxes' \in {boxes, boxes \ {x}}
    BY DEF TeardownDocker
  <1>3. /\ nextId \in Nat /\ nextId \in 0..MaxBoxes /\ MachineOK
        /\ daemon \in [1..MaxBoxes -> {"absent", "created", "running", "stopped"}]
        /\ \A y \in boxes : y.owns = FALSE
    BY <1>1, SandboxAssumption DEF SandboxInd, SandboxAssumption, MachineOK, BoxOK
  <1>4. /\ \A y \in boxes' : BoxOK(y)'
        /\ \A y, z \in boxes' : y.id = z.id => y = z
    BY <1>1, <1>2, <1>3, BoxesStay
  <1>5. LeftOK'
    <2>1. /\ temps = {y.id : y \in {z \in boxes : z.owns}}
          /\ \A i \in 1..MaxBoxes : daemon[i] # "absent" => i \in unconfirmed
                                                            \/ \E y \in boxes : y.id = i
      BY DEF SandboxInd, LeftOK
    <2>2. temps' = {y.id : y \in {z \in boxes' : z.owns}}
      BY <1>1, <1>2, <1>3, <2>1
    <2>3. \A i \in 1..MaxBoxes : daemon'[i] # "absent" =>
             i \in unconfirmed' \/ \E y \in boxes' : y.id = i
      <3> SUFFICES ASSUME NEW i \in 1..MaxBoxes, daemon'[i] # "absent"
                   PROVE  i \in unconfirmed' \/ \E y \in boxes' : y.id = i
        OBVIOUS
      <3>1. CASE i = x.id
        BY <1>2, <1>3, <2>1, <3>1
      <3>2. CASE i # x.id
        <4>1. daemon'[i] = daemon[i]
          BY <1>2, <1>3, <3>2
        <4> QED BY <1>2, <2>1, <3>2, <4>1
      <3> QED BY <3>1, <3>2
    <2>4. profiles' = {}
      BY <1>1, HostFacts
    <2> QED BY <2>2, <2>3, <2>4 DEF LeftOK
  <1>6. MachineOK'
    BY <1>1, <1>2, <1>3 DEF MachineOK
  <1>7. \A c \in Backends : c = b \/ BoxesOf(c) \subseteq boxes'
    BY <1>1, <1>2 DEF BoxesOf
  <1> QED BY <1>1, <1>2, <1>3, <1>4, <1>5, <1>6, <1>7, BoxStepKeeps

\* Nothing is prepared.
LEMMA SandboxIndInit == SandboxInit => SandboxInd
  <1> SUFFICES ASSUME SandboxInit PROVE SandboxInd
    OBVIOUS
  <1>1. /\ host = NoOne /\ boxes = {} /\ nextId = 0 /\ temps = {} /\ profiles = {} /\ aces = {}
        /\ spoiled = {}
        /\ daemon = [i \in 1..MaxBoxes |-> "absent"] /\ nextRun = 0 /\ procs = {}
        /\ calls = [b \in Backends |-> NoOne] /\ answers = [b \in Backends |-> NoAnswer]
    BY DEF SandboxInit
  <1>2. 0 \in 0..MaxBoxes /\ 0 \in 0..MaxExecs
    BY SandboxAssumption DEF SandboxAssumption
  <1>3. \A b \in Backends : CallOK(b) /\ AnswerOK(b)
    BY <1>1 DEF CallOK, AnswerOK, NoAnswer
  <1>4. HostKnown /\ MachineOK /\ LeftOK /\ Held
    BY <1>1 DEF HostKnown, MachineOK, LeftOK, Held
  <1> QED BY <1>1, <1>2, <1>3, <1>4 DEF SandboxInd

\* Every step of every backend and program keeps the invariant.
LEMMA SandboxInductive == SandboxSpec => []SandboxInd
  <1>1. SandboxInd /\ [SandboxNext]_sandboxVars => SandboxInd'
    <2> SUFFICES ASSUME SandboxInd, [SandboxNext]_sandboxVars PROVE SandboxInd'
      OBVIOUS
    <2>1. ASSUME NEW h \in Hosts, NEW mode \in {"Required", "BestEffort"}, Boot(h, mode)
          PROVE  SandboxInd'
      BY <2>1, BootKeeps
    <2>2. ASSUME NEW b \in Backends, NEW ws \in Workspaces, NEW hosts \in BOOLEAN,
                 \/ PrepareLocal(b, ws, hosts) \/ ContainerFails(b, ws, hosts)
                 \/ PrepareDocker(b, ws, hosts)
          PROVE  SandboxInd'
      BY <2>2, PrepareLocalKeeps, ContainerFailsKeeps, PrepareDockerKeeps
    <2>3. ASSUME NEW b \in Backends, NEW x \in boxes, ExecStart(b, x) \/ TeardownDocker(b, x)
          PROVE  SandboxInd'
      BY <2>3, ExecStartKeeps, TeardownDockerKeeps
    <2>4. ASSUME NEW b \in Backends, NEW x \in boxes, TeardownLocal(b, x)
          PROVE  SandboxInd'
      <3>1. /\ Idle(b) /\ Local /\ {x} \subseteq BoxesOf(b) /\ boxes' = boxes \ {x}
            /\ Forgets(b, {x})
            /\ UNCHANGED <<host, nextId, aces, spoiled, daemon, unconfirmed, runVars>>
        BY <2>4 DEF TeardownLocal
      <3> QED BY <3>1, ForgetKeeps
    <2>5. ASSUME NEW b \in Backends, DropLocal(b)
          PROVE  SandboxInd'
      <3>1. /\ Idle(b) /\ Local /\ boxes' = boxes \ BoxesOf(b) /\ Forgets(b, BoxesOf(b))
            /\ UNCHANGED <<host, nextId, aces, spoiled, daemon, unconfirmed, runVars>>
        BY <2>5 DEF DropLocal
      <3> QED BY <3>1, ForgetKeeps
    <2>6. ASSUME NEW b \in Backends,
                 PollExited(b) \/ PollTimeout(b) \/ Drained(b) \/ DockerDone(b) \/ DockerTimeout(b)
          PROVE  SandboxInd'
      BY <2>6, PollExitedKeeps, PollTimeoutKeeps, DrainedKeeps, DockerDoneKeeps,
         DockerTimeoutKeeps
    <2>7. ASSUME NEW id \in 1..MaxBoxes, ContainerDies(id)
          PROVE  SandboxInd'
      BY <2>7, ContainerDiesKeeps
    <2>8. CASE UNCHANGED sandboxVars
      <3>1. UNCHANGED <<host, boxes, nextId, temps, profiles, aces, spoiled, daemon,
                        unconfirmed, calls, nextRun, procs, answers>>
        BY <2>8 DEF sandboxVars, boxVars, runVars
      <3>2. Local' = Local /\ Windows' = Windows
        BY <3>1 DEF Local, Windows
      <3>3. HostKnown' /\ MachineOK' /\ LeftOK'
        BY <3>1, <3>2 DEF SandboxInd, HostKnown, MachineOK, LeftOK
      <3>4. Held'
        BY <3>1, <3>2 DEF SandboxInd, Held
      <3>5. \A x \in boxes' : BoxOK(x)'
        BY <3>1, <3>2 DEF SandboxInd, BoxOK, BoxPlan
      <3>6. \A p \in procs' : ProcOK(p)'
        BY <3>1, <3>2 DEF SandboxInd, ProcOK, BoxWritable
      <3>7. \A b \in Backends : CallOK(b)' /\ AnswerOK(b)'
        BY <3>1, <3>2 DEF SandboxInd, CallOK, AnswerOK, BoxesOf
      <3> QED BY <3>1, <3>3, <3>4, <3>5, <3>6, <3>7 DEF SandboxInd
    <2> QED BY <2>1, <2>2, <2>3, <2>4, <2>5, <2>6, <2>7, <2>8, ProgramKeeps DEF SandboxNext
  <1> QED BY <1>1, SandboxIndInit, PTL DEF SandboxSpec

\* The parts of SandboxSafe, from the invariant.
LEMMA SandboxHolds == SandboxInd => SandboxSafe
  <1> SUFFICES ASSUME SandboxInd PROVE SandboxSafe
    OBVIOUS
  <1>1. SandboxTypeOK
    <2>1. host = NoOne \/ [machine |-> host.machine, kind |-> host.kind] \in Hosts
      BY HostFacts
    <2>2. \A b \in Backends : calls[b] = NoOne \/ calls[b].stage \in {"poll", "drain"}
      BY DEF SandboxInd, CallOK
    <2>3. \A p \in procs : p.run \in 1..nextRun /\ p.kind \in {"leader", "member", "escaped"}
      BY DEF SandboxInd, ProcOK
    <2>4. \A x \in boxes : x.id \in 1..nextId /\ x.ws \in Workspaces /\ x.report # Refused
      BY DEF SandboxInd, BoxOK
    <2> QED BY <2>1, <2>2, <2>3, <2>4 DEF SandboxTypeOK, SandboxInd, MachineOK
  <1>2. EnforcedMeansConfined
    BY DEF SandboxInd, ProcOK, EnforcedMeansConfined
  <1>3. AnsweredMeansEnded
    <2> SUFFICES ASSUME NEW b \in Backends, NEW p \in procs, p.run = answers[b].run
                 PROVE  /\ answers[b].result = "timed_out" =>
                              p.kind = "escaped" \/ p.box \in unconfirmed
                        /\ Local => ~Windows /\ ~p.holds
      BY DEF AnsweredMeansEnded
    <2>1. /\ answers[b].result = "timed_out" => p.kind = "escaped" \/ p.box \in unconfirmed
          /\ Local => ~Windows /\ p.holds = FALSE
      BY DEF SandboxInd, AnswerOK
    <2> QED BY <2>1
  <1>4. NothingLeftBehind
    <2>1. ASSUME NEW p \in procs, Local, Windows
          PROVE  \E x \in boxes : x.id = p.box
      <3>1. PICK b \in Backends : calls[b] # NoOne /\ calls[b].run = p.run
        BY <2>1 DEF SandboxInd, Held
      <3>2. PICK k : k = calls[b]
        OBVIOUS
      <3>3. /\ \E x \in BoxesOf(b) : x.id = k.box
            /\ \A q \in procs : q.run = k.run => q.box = k.box
        BY <3>1, <3>2, CallFacts
      <3> QED BY <3>1, <3>2, <3>3 DEF BoxesOf
    <2> QED BY <2>1 DEF SandboxInd, LeftOK, NothingLeftBehind
  <1> QED BY <1>1, <1>2, <1>3, <1>4 DEF SandboxSafe

\* What a step does to an AppContainer profile.
LEMMA ProfileStep ==
    ASSUME SandboxNext
    PROVE  \/ profiles \subseteq profiles'
           \/ \E b \in Backends : \E gone \in SUBSET BoxesOf(b) :
                 boxes' = boxes \ gone /\ Forgets(b, gone) /\ gone # {}
  <1>1. ASSUME NEW b \in Backends, NEW x \in boxes, TeardownLocal(b, x)
        PROVE  \E gone \in SUBSET BoxesOf(b) :
                  boxes' = boxes \ gone /\ Forgets(b, gone) /\ gone # {}
    BY <1>1 DEF TeardownLocal
  <1>2. ASSUME NEW b \in Backends, DropLocal(b)
        PROVE  \E gone \in SUBSET BoxesOf(b) :
                  boxes' = boxes \ gone /\ Forgets(b, gone) /\ gone # {}
    BY <1>2 DEF DropLocal
  <1>3. ASSUME NEW b \in Backends, NEW ws \in Workspaces, NEW hosts \in BOOLEAN,
               PrepareLocal(b, ws, hosts) \/ ContainerFails(b, ws, hosts)
        PROVE  profiles \subseteq profiles'
    BY <1>3 DEF PrepareLocal, PrepareContainer, ContainerFails
  <1> QED
    BY <1>1, <1>2, <1>3
    DEF SandboxNext, Boot, PrepareDocker, ExecStart, TeardownDocker, PollExited, PollTimeout,
        Drained, DockerDone, DockerTimeout, ProgramStep, ContainerDies, boxVars

(* Sandboxes of any number of writ processes, on any machine: what a       *)
(* report calls enforced holds for every live process, an exec that has    *)
(* answered is over, and nothing is left on disk or in the daemon that     *)
(* writ does not know of, but for what Windows leaves open to every        *)
(* AppContainer, the ACE of a workspace, and the profile of a prepare that *)
(* failed (SandboxBackend: prepare, exec, teardown).                       *)
THEOREM SandboxesSafe == SandboxSpec => []SandboxSafe
  BY SandboxInductive, SandboxHolds, PTL

(* A teardown or a drop never takes the AppContainer profile from a        *)
(* sandbox of the same backend that lives on (local_os.rs teardown, Drop). *)
THEOREM ProfilesKept == SandboxSpec => OwnProfileKept
  <1>1. [SandboxNext]_sandboxVars =>
          [\A x \in boxes \cap boxes' :
             x.ws \in profiles /\ x.ws \notin profiles' =>
                \E y \in boxes \ boxes' : y.backend # x.backend]_sandboxVars
    <2> SUFFICES ASSUME SandboxNext, NEW x \in boxes \cap boxes',
                        x.ws \in profiles, x.ws \notin profiles'
                 PROVE  \E y \in boxes \ boxes' : y.backend # x.backend
      OBVIOUS
    <2>0. PICK b \in Backends : \E gone \in SUBSET BoxesOf(b) :
             boxes' = boxes \ gone /\ Forgets(b, gone) /\ gone # {}
      BY ProfileStep
    <2>1. PICK gone \in SUBSET BoxesOf(b) :
             boxes' = boxes \ gone /\ Forgets(b, gone) /\ gone # {}
      BY <2>0
    <2>2. x \notin gone
      BY <2>1
    <2>3. x.backend # b
      BY <2>1, <2>2 DEF Forgets, BoxesOf
    <2>4. PICK y \in gone : TRUE
      BY <2>1
    <2>5. y \in boxes \ boxes' /\ y.backend = b
      BY <2>1, <2>4 DEF BoxesOf
    <2> QED BY <2>3, <2>5
  <1> QED BY <1>1, PTL DEF SandboxSpec, OwnProfileKept
-----------------------------------------------------------------------------
(***************************************************************************)
(* `writ integrate'                                                        *)
(***************************************************************************)
\* A run and what it has read.
JobOK(q) ==
    /\ q = [pc |-> q.pc, path |-> q.path, read |-> q.read]
    /\ q.path \in ConfigPaths /\ ~BadText(q.read)

\* The text a run is about to rename over the file has the edits it has read.
ScratchOK(q, text) ==
    q.pc = "written" => FileText(text) /\ text.rest = q.read.rest

\* Once a run has chosen the legacy file, the current one has been made only
\* by the user or by another run.
LegacyOK ==
    \A p \in Writs : job[p].path = "legacy" =>
       \/ config["current"].kind = "absent"
       \/ \E m \in made : m[2] = "current"
       \/ \E q \in Writs : job[q].pc = "done" /\ job[q].path = "current"

ConfigShape ==
    /\ config = [path \in ConfigPaths |-> config[path]]
    /\ \A path \in ConfigPaths : FileText(config[path])
    /\ scratch = [p \in Writs |-> scratch[p]]
    /\ job = [p \in Writs |-> job[p]]
    /\ \A p \in Writs : JobOK(job[p]) /\ ScratchOK(job[p], scratch[p])
    /\ \A m \in made : m[2] \in ConfigPaths

\* Nothing happens before there is a project.
NoProject ==
    target = "none" => made = {} /\ \A p \in Writs : job[p].pc = "new" /\ job[p].path = "current"

ConfigInd == ConfigShape /\ NoProject /\ EditsKept /\ LegacyOK

\* The path of an integration: the agent's own, or Windsurf's.
LEMMA IntegrationPath ==
    ASSUME NEW p \in Writs
    PROVE  Integration(p).path = "current" \/ Integration(p).path = HookPath
  <1>1. /\ IntegrateClaudeCode(p).path = "current" /\ IntegrateGemini(p).path = "current"
        /\ IntegrateCodex(p).path = "current" /\ IntegrateCursor(p).path = "current"
        /\ IntegrateWindsurf(p).path = HookPath
    BY DEF IntegrateClaudeCode, IntegrateGemini, IntegrateCodex, IntegrateCursor,
           IntegrateWindsurf
  <1> QED BY <1>1, Zenon DEF Integration

LEMMA AbsentFacts ==
    /\ FileText(Absent) /\ Absent.kind = "absent" /\ Torn.kind = "torn"
  BY DEF FileText, Absent, Torn

LEMMA ConfigInit == IntegrateInit => ConfigInd
  <1> SUFFICES ASSUME IntegrateInit PROVE ConfigInd
    OBVIOUS
  <1>1. /\ config = [path \in ConfigPaths |-> Absent] /\ scratch = [p \in Writs |-> Absent]
        /\ job = [p \in Writs |-> [pc |-> "new", path |-> "current", read |-> Absent]]
        /\ made = {}
    BY DEF IntegrateInit
  <1>2. ConfigShape
    <2>1. \A path \in ConfigPaths : config[path] = Absent
      BY <1>1
    <2>2. \A p \in Writs : job[p] = [pc |-> "new", path |-> "current", read |-> Absent]
      BY <1>1
    <2>3. \A p \in Writs : JobOK(job[p]) /\ ScratchOK(job[p], scratch[p])
      BY <2>2, AbsentFacts DEF JobOK, ScratchOK, BadText, ConfigPaths
    <2>4. \A path \in ConfigPaths : FileText(config[path])
      BY <2>1, AbsentFacts
    <2>5. /\ config = [path \in ConfigPaths |-> config[path]]
          /\ scratch = [p \in Writs |-> scratch[p]] /\ job = [p \in Writs |-> job[p]]
      BY <1>1, Zenon
    <2> QED BY <1>1, <2>3, <2>4, <2>5 DEF ConfigShape
  <1>3. NoProject /\ EditsKept /\ LegacyOK
    BY <1>1 DEF NoProject, EditsKept, LegacyOK
  <1> QED BY <1>2, <1>3 DEF ConfigInd

\* Only p's run has moved.
OnlyJob(p, q) == q = job'[p] /\ job' = [r \in Writs |-> IF r = p THEN q ELSE job[r]]

\* A run whose file stays and that is not through.
LEMMA JobMoves ==
    ASSUME ConfigInd, NEW p \in Writs, NEW q, OnlyJob(p, q), target' = target,
           UNCHANGED <<config, made>>, JobOK(q), ScratchOK(q, scratch'[p]),
           \A r \in Writs : r # p => scratch'[r] = scratch[r],
           scratch' = [r \in Writs |-> scratch'[r]],
           job[p].pc # "done",
           q.path = job[p].path \/ q.path = "current" \/ config["current"].kind = "absent",
           target # "none"
    PROVE  ConfigInd'
  <1>1. /\ \A r \in Writs : r # p => job'[r] = job[r]
        /\ job' = [r \in Writs |-> job'[r]] /\ job'[p] = q
    BY DEF OnlyJob
  <1>2. ConfigShape'
    BY <1>1 DEF ConfigInd, ConfigShape
  <1>3. EditsKept'
    BY <1>1 DEF ConfigInd, EditsKept
  <1>4. LegacyOK'
    BY <1>1 DEF ConfigInd, LegacyOK
  <1> QED BY <1>2, <1>3, <1>4 DEF ConfigInd, NoProject

\* The steps of a run before its file is replaced, and after it has failed.
LEMMA QuietSteps ==
    ASSUME ConfigInd, target # "none", target' = target, NEW p \in Writs,
           \/ Validate(p) \/ ReadConfig(p) \/ WriteStart(p) \/ WriteEnd(p)
           \/ Rename(p) /\ UNCHANGED config /\ Step(p, "failed")
           \/ Interrupted(p)
    PROVE  ConfigInd'
  <1> DEFINE q == job'[p]
  <1>1. /\ JobOK(job[p]) /\ scratch = [r \in Writs |-> scratch[r]]
        /\ job = [r \in Writs |-> job[r]]
        /\ \A path \in ConfigPaths : FileText(config[path])
    BY DEF ConfigInd, ConfigShape
  <1>2. ASSUME NEW pc, Step(p, pc)
        PROVE  OnlyJob(p, q) /\ q = [pc |-> pc, path |-> job[p].path, read |-> job[p].read]
    <2>1. PICK b : b = job[p]
      OBVIOUS
    <2>2. b = [pc |-> b.pc, path |-> b.path, read |-> b.read]
      BY <1>1, <2>1 DEF JobOK
    <2>3. q = [b EXCEPT !.pc = pc]
      BY <1>1, <1>2, <2>1 DEF Step
    <2>4. q = [pc |-> pc, path |-> b.path, read |-> b.read]
      BY <2>2, <2>3
    <2> QED BY <1>1, <1>2, <2>1, <2>4 DEF OnlyJob, Step
  <1>3. ASSUME NEW pc, pc # "written", Step(p, pc), UNCHANGED <<config, made>>,
               \A r \in Writs : r # p => scratch'[r] = scratch[r],
               scratch' = [r \in Writs |-> scratch'[r]], job[p].pc # "done"
        PROVE  ConfigInd'
    <2>1. /\ OnlyJob(p, q) /\ q = [pc |-> pc, path |-> job[p].path, read |-> job[p].read]
      BY <1>2, <1>3
    <2> HIDE DEF q
    <2>2. JobOK(q) /\ ScratchOK(q, scratch'[p]) /\ q.path = job[p].path
      BY <1>1, <1>3, <2>1 DEF JobOK, ScratchOK
    <2> QED BY <1>3, <2>1, <2>2, JobMoves
  <1>4. CASE Validate(p)
    <2>1. /\ UNCHANGED <<config, scratch, made>> /\ job[p].pc = "new"
          /\ \/ job' = [job EXCEPT ![p].pc = "valid", ![p].path = Integration(p).path]
             \/ Step(p, "failed")
      BY <1>4 DEF Validate
    <2>2. CASE job' = [job EXCEPT ![p].pc = "valid", ![p].path = Integration(p).path]
      <3>1. PICK b, path : b = job[p] /\ path = Integration(p).path
        OBVIOUS
      <3>2. path = "current" \/ (path = "legacy" /\ config["current"].kind = "absent")
        BY <3>1, IntegrationPath DEF HookPath
      <3>3. /\ b = [pc |-> b.pc, path |-> b.path, read |-> b.read] /\ ~BadText(b.read)
        BY <1>1, <3>1 DEF JobOK
      <3>4. q = [b EXCEPT !.pc = "valid", !.path = path]
        BY <1>1, <2>2, <3>1
      <3>5. q = [pc |-> "valid", path |-> path, read |-> b.read]
        BY <3>3, <3>4
      <3>6. OnlyJob(p, q)
        BY <1>1, <2>2 DEF OnlyJob
      <3> HIDE DEF q
      <3>7. JobOK(q) /\ ScratchOK(q, scratch'[p])
        BY <3>2, <3>3, <3>5 DEF JobOK, ScratchOK, ConfigPaths
      <3>8. /\ q.path = "current" \/ config["current"].kind = "absent"
            /\ \A r \in Writs : r # p => scratch'[r] = scratch[r]
            /\ scratch' = [r \in Writs |-> scratch'[r]]
        BY <1>1, <2>1, <3>2, <3>5
      <3> QED BY <2>1, <3>6, <3>7, <3>8, JobMoves
    <2>3. CASE Step(p, "failed")
      BY <1>1, <1>3, <2>1, <2>3
    <2> QED BY <2>1, <2>2, <2>3
  <1>5. CASE ReadConfig(p)
    <2>1. /\ UNCHANGED <<config, scratch, made>> /\ job[p].pc = "valid"
          /\ \/ Step(p, "failed")
             \/ /\ ~BadText(config[job[p].path])
                /\ job' = [job EXCEPT ![p].pc = IF Argv[p].print THEN "printed" ELSE "merged",
                                      ![p].read = config[job[p].path]]
      BY <1>5 DEF ReadConfig
    <2>2. CASE /\ ~BadText(config[job[p].path])
               /\ job' = [job EXCEPT ![p].pc = IF Argv[p].print THEN "printed" ELSE "merged",
                                     ![p].read = config[job[p].path]]
      <3>1. PICK b, text, pc : /\ b = job[p] /\ text = config[job[p].path]
                               /\ pc = IF Argv[p].print THEN "printed" ELSE "merged"
        OBVIOUS
      <3>2. b = [pc |-> b.pc, path |-> b.path, read |-> b.read] /\ b.path \in ConfigPaths
        BY <1>1, <3>1 DEF JobOK
      <3>3. q = [b EXCEPT !.pc = pc, !.read = text]
        BY <1>1, <2>2, <3>1
      <3>4. q = [pc |-> pc, path |-> b.path, read |-> text]
        BY <3>2, <3>3
      <3>5. OnlyJob(p, q)
        BY <1>1, <2>2 DEF OnlyJob
      <3> HIDE DEF q
      <3>6. JobOK(q) /\ ScratchOK(q, scratch'[p]) /\ q.path = job[p].path
        BY <2>2, <3>1, <3>2, <3>4 DEF JobOK, ScratchOK
      <3>7. /\ \A r \in Writs : r # p => scratch'[r] = scratch[r]
            /\ scratch' = [r \in Writs |-> scratch'[r]]
        BY <1>1, <2>1
      <3> QED BY <2>1, <3>5, <3>6, <3>7, JobMoves
    <2>3. CASE Step(p, "failed")
      BY <1>1, <1>3, <2>1, <2>3
    <2> QED BY <2>1, <2>2, <2>3
  <1>6. CASE WriteStart(p)
    <2>1. /\ job[p].pc = "merged" /\ Step(p, "writing")
          /\ scratch' = [scratch EXCEPT ![p] = Torn] /\ UNCHANGED <<config, made>>
      BY <1>6 DEF WriteStart, Truncate
    <2>2. /\ \A r \in Writs : r # p => scratch'[r] = scratch[r]
          /\ scratch' = [r \in Writs |-> scratch'[r]]
      BY <1>1, <2>1
    <2> QED BY <1>3, <2>1, <2>2
  <1>7. CASE WriteEnd(p)
    <2>1. /\ job[p].pc = "writing" /\ Step(p, "written")
          /\ scratch' = [scratch EXCEPT ![p] = MergedText(p)] /\ UNCHANGED <<config, made>>
      BY <1>7 DEF WriteEnd
    <2>2. /\ \A r \in Writs : r # p => scratch'[r] = scratch[r]
          /\ scratch' = [r \in Writs |-> scratch'[r]]
          /\ scratch'[p] = MergedText(p)
      BY <1>1, <2>1
    <2>3. FileText(MergedText(p)) /\ MergedText(p).rest = job[p].read.rest
      <3>1. PICK hooks : hooks = Integration(p).hooks
        OBVIOUS
      <3>2. MergedText(p) = [kind |-> "doc", rest |-> job[p].read.rest, hooks |-> hooks]
        BY <3>1 DEF MergedText
      <3> QED BY <3>2 DEF FileText
    <2>4. OnlyJob(p, q) /\ q = [pc |-> "written", path |-> job[p].path, read |-> job[p].read]
      BY <1>2, <2>1
    <2> HIDE DEF q
    <2>5. JobOK(q) /\ ScratchOK(q, scratch'[p]) /\ q.path = job[p].path
      BY <1>1, <2>2, <2>3, <2>4 DEF JobOK, ScratchOK
    <2> QED BY <2>1, <2>2, <2>4, <2>5, JobMoves
  <1>8. CASE Rename(p) /\ UNCHANGED config /\ Step(p, "failed")
    <2>1. /\ job[p].pc = "written" /\ Step(p, "failed")
          /\ scratch' = [scratch EXCEPT ![p] = Absent] /\ UNCHANGED <<config, made>>
      BY <1>8 DEF Rename
    <2>2. /\ \A r \in Writs : r # p => scratch'[r] = scratch[r]
          /\ scratch' = [r \in Writs |-> scratch'[r]]
      BY <1>1, <2>1
    <2> QED BY <1>3, <2>1, <2>2
  <1>9. CASE Interrupted(p)
    <2>1. /\ job[p].pc # "done" /\ Step(p, "failed")
          /\ UNCHANGED <<config, scratch, made>>
      BY <1>9 DEF Interrupted
    <2> QED BY <1>1, <1>3, <2>1
  <1> QED BY <1>4, <1>5, <1>6, <1>7, <1>8, <1>9

\* The file is replaced: what the run has not read is what it may lose.
LEMMA RenameStep ==
    ASSUME ConfigInd, target # "none", target' = target, NEW p \in Writs,
           job[p].pc = "written", Step(p, "done"), UNCHANGED made,
           scratch' = [scratch EXCEPT ![p] = Absent],
           config' = [config EXCEPT ![job[p].path] = scratch[p]]
    PROVE  ConfigInd'
  <1>1. /\ JobOK(job[p]) /\ FileText(scratch[p]) /\ scratch[p].rest = job[p].read.rest
        /\ scratch = [r \in Writs |-> scratch[r]] /\ job = [r \in Writs |-> job[r]]
        /\ config = [path \in ConfigPaths |-> config[path]]
        /\ job[p].path \in ConfigPaths
    BY DEF ConfigInd, ConfigShape, ScratchOK, JobOK
  <1>2. /\ \A r \in Writs : r # p => job'[r] = job[r] /\ scratch'[r] = scratch[r]
        /\ \A path \in ConfigPaths : path # job[p].path => config'[path] = config[path]
        /\ config'[job[p].path] = scratch[p] /\ scratch'[p] = Absent
    BY <1>1 DEF Step
  <1>3. job'[p] = [pc |-> "done", path |-> job[p].path, read |-> job[p].read]
    <2>1. PICK b : b = job[p]
      OBVIOUS
    <2>2. b = [pc |-> b.pc, path |-> b.path, read |-> b.read]
      BY <1>1, <2>1 DEF JobOK
    <2>3. job'[p] = [b EXCEPT !.pc = "done"]
      BY <1>1, <2>1 DEF Step
    <2> QED BY <2>1, <2>2, <2>3
  <1>4. ConfigShape'
    <2>1. \A r \in Writs : JobOK(job'[r]) /\ ScratchOK(job'[r], scratch'[r])
      BY <1>1, <1>2, <1>3 DEF ConfigInd, ConfigShape, JobOK, ScratchOK
    <2>2. \A path \in ConfigPaths : FileText(config'[path])
      BY <1>1, <1>2 DEF ConfigInd, ConfigShape
    <2>3. /\ config' = [path \in ConfigPaths |-> config'[path]]
          /\ scratch' = [r \in Writs |-> scratch'[r]] /\ job' = [r \in Writs |-> job'[r]]
      BY <1>1 DEF Step
    <2> QED BY <2>1, <2>2, <2>3 DEF ConfigInd, ConfigShape
  <1>5. EditsKept'
    <2> SUFFICES ASSUME NEW m \in made, m[1] \notin config'[m[2]].rest
                 PROVE  \E r \in Writs : /\ job'[r].pc = "done" /\ job'[r].path = m[2]
                                         /\ m[1] \notin job'[r].read.rest
      BY DEF EditsKept
    <2>1. CASE m[2] = job[p].path
      BY <1>1, <1>2, <1>3, <2>1
    <2>2. CASE m[2] # job[p].path
      <3>1. config'[m[2]] = config[m[2]]
        BY <1>2, <2>2 DEF ConfigInd, ConfigShape
      <3>2. PICK r \in Writs : /\ job[r].pc = "done" /\ job[r].path = m[2]
                               /\ m[1] \notin job[r].read.rest
        BY <3>1 DEF ConfigInd, EditsKept
      <3> QED BY <1>2, <2>2, <3>2
    <2> QED BY <2>1, <2>2
  <1>6. LegacyOK'
    <2> SUFFICES ASSUME NEW r \in Writs, job'[r].path = "legacy"
                 PROVE  \/ config'["current"].kind = "absent"
                        \/ \E m \in made : m[2] = "current"
                        \/ \E s \in Writs : job'[s].pc = "done" /\ job'[s].path = "current"
      BY DEF LegacyOK
    <2>1. job[r].path = "legacy"
      BY <1>2, <1>3
    <2>2. CASE job[p].path = "current"
      BY <1>3, <2>2
    <2>3. CASE job[p].path # "current"
      <3>1. config'["current"] = config["current"]
        BY <1>2, <2>3 DEF ConfigPaths
      <3>2. \A s \in Writs : job[s].pc = "done" => job'[s] = job[s]
        BY <1>2
      <3> QED BY <2>1, <3>1, <3>2 DEF ConfigInd, LegacyOK
    <2> QED BY <2>2, <2>3
  <1> QED BY <1>4, <1>5, <1>6 DEF ConfigInd, NoProject

LEMMA ProjectStep ==
    ASSUME ConfigInd, NEW t \in Targets, NEW texts \in StartTexts(t), Project(t, texts)
    PROVE  ConfigInd'
  <1>1. /\ target = "none" /\ target' = t /\ config' = texts /\ UNCHANGED <<scratch, job, made>>
        /\ made = {} /\ \A p \in Writs : job[p].pc = "new" /\ job[p].path = "current"
    BY DEF Project, ConfigInd, NoProject
  <1>2. /\ texts = [path \in ConfigPaths |-> texts[path]]
        /\ \A path \in ConfigPaths : FileText(texts[path])
    BY IntegrateAssumption DEF IntegrateAssumption
  <1>3. ConfigShape'
    BY <1>1, <1>2 DEF ConfigInd, ConfigShape
  <1> QED BY <1>1, <1>3 DEF ConfigInd, NoProject, EditsKept, LegacyOK

LEMMA EditStep ==
    ASSUME ConfigInd, target # "none", target' = target,
           NEW path \in ConfigPaths, NEW e, NEW broken \in BOOLEAN, UserEdits(path, e, broken)
    PROVE  ConfigInd'
  <1>1. /\ config = [x \in ConfigPaths |-> config[x]] /\ FileText(config[path])
        /\ made' = made \cup {<<e, path>>} /\ UNCHANGED <<scratch, job>>
        /\ config' = [config EXCEPT ![path].rest = @ \cup {e},
                                    ![path].kind = IF broken THEN "garbage" ELSE "doc"]
    BY DEF UserEdits, ConfigInd, ConfigShape
  <1>2. PICK text, kind : text = config[path] /\ kind = (IF broken THEN "garbage" ELSE "doc")
    OBVIOUS
  <1>3. /\ \A x \in ConfigPaths : x # path => config'[x] = config[x]
        /\ config' = [x \in ConfigPaths |-> config'[x]]
    BY <1>1
  <1>4. config'[path] = [text EXCEPT !.rest = text.rest \cup {e}, !.kind = kind]
    BY <1>1, <1>2
  <1>5. /\ FileText(config'[path]) /\ config'[path].rest = text.rest \cup {e}
    <2>1. text = [kind |-> text.kind, rest |-> text.rest, hooks |-> text.hooks]
      BY <1>1, <1>2 DEF FileText
    <2>2. config'[path] = [kind |-> kind, rest |-> text.rest \cup {e}, hooks |-> text.hooks]
      BY <1>4, <2>1
    <2>3. kind \in {"garbage", "doc"}
      BY <1>2
    <2> QED BY <2>2, <2>3 DEF FileText
  <1>6. ConfigShape'
    <2>1. \A m \in made' : m[2] \in ConfigPaths
      <3>1. <<e, path>>[2] = path
        OBVIOUS
      <3> QED BY <1>1, <3>1 DEF ConfigInd, ConfigShape
    <2> QED BY <1>1, <1>3, <1>5, <2>1 DEF ConfigInd, ConfigShape
  <1>7. EditsKept'
    <2> SUFFICES ASSUME NEW m \in made', m[1] \notin config'[m[2]].rest
                 PROVE  \E r \in Writs : /\ job[r].pc = "done" /\ job[r].path = m[2]
                                         /\ m[1] \notin job[r].read.rest
      BY <1>1 DEF EditsKept
    <2>1. m # <<e, path>>
      BY <1>5
    <2>2. m \in made /\ m[2] \in ConfigPaths
      BY <1>1, <2>1 DEF ConfigInd, ConfigShape
    <2>3. m[1] \notin config[m[2]].rest
      <3>1. CASE m[2] = path
        BY <1>2, <1>5, <3>1
      <3>2. CASE m[2] # path
        BY <1>3, <2>2, <3>2
      <3> QED BY <3>1, <3>2
    <2> QED BY <2>2, <2>3 DEF ConfigInd, EditsKept
  <1>8. LegacyOK'
    <2>1. CASE path = "current"
      <3>1. <<e, path>> \in made' /\ <<e, path>>[2] = "current"
        BY <1>1, <2>1
      <3> QED BY <3>1 DEF LegacyOK
    <2>2. CASE path # "current"
      <3>1. config'["current"] = config["current"]
        BY <1>3, <2>2 DEF ConfigPaths
      <3> QED BY <1>1, <3>1 DEF ConfigInd, LegacyOK
    <2> QED BY <2>1, <2>2
  <1> QED BY <1>6, <1>7, <1>8 DEF ConfigInd, NoProject

LEMMA ConfigStep ==
    ASSUME ConfigInd, [IntegrateNext]_integrateVars
    PROVE  ConfigInd'
  <1>1. CASE \E t \in Targets : \E texts \in StartTexts(t) : Project(t, texts)
    BY <1>1, ProjectStep
  <1>2. ASSUME target # "none", target' = target, NEW p \in Writs,
               \/ Validate(p) \/ ReadConfig(p) \/ WriteStart(p) \/ WriteEnd(p)
               \/ Interrupted(p)
        PROVE  ConfigInd'
    BY <1>2, QuietSteps
  <1>3. ASSUME target # "none", target' = target, NEW p \in Writs, Rename(p)
        PROVE  ConfigInd'
    <2>1. CASE UNCHANGED config /\ Step(p, "failed")
      BY <1>3, <2>1, QuietSteps
    <2>2. CASE config' = [config EXCEPT ![job[p].path] = scratch[p]] /\ Step(p, "done")
      BY <1>3, <2>2, RenameStep DEF Rename
    <2> QED BY <1>3, <2>1, <2>2 DEF Rename
  <1>4. ASSUME target # "none", target' = target,
               NEW path \in ConfigPaths, NEW e \in Edits, NEW broken \in BOOLEAN,
               UserEdits(path, e, broken)
        PROVE  ConfigInd'
    BY <1>4, EditStep
  <1>5. CASE UNCHANGED integrateVars
    BY <1>5 DEF integrateVars, ConfigInd, ConfigShape, NoProject, EditsKept, LegacyOK
  <1> QED BY <1>1, <1>2, <1>3, <1>4, <1>5 DEF IntegrateNext

\* `writ integrate', for any number of runs beside each other, any agents and
\* configurations, and any edits by the user in between: a file is replaced as
\* a whole and never one that did not parse; an edit is lost only to a run that
\* had read the file before it; and Windsurf's hooks are in the file Windsurf
\* reads unless somebody else has made the other one since.
THEOREM ConfigStaysKept == IntegrateSpec => []ConfigKept
  <1>1. IntegrateInit => ConfigInd
    BY ConfigInit
  <1>2. ConfigInd /\ [IntegrateNext]_integrateVars => ConfigInd'
    BY ConfigStep
  <1>3. ConfigInd => ConfigKept
    <2>1. ConfigInd => IntegrateTypeOK
      BY DEF ConfigInd, ConfigShape, JobOK, IntegrateTypeOK
    <2>2. ConfigInd => InEffect
      <3> SUFFICES ASSUME ConfigInd, NEW p \in Writs, job[p].path = "legacy"
                   PROVE  \/ config["current"].kind = "absent"
                          \/ \E m \in made : m[2] = "current"
                          \/ \E q \in Writs : job[q].pc = "done" /\ job[q].path = "current"
        BY DEF InEffect
      <3> QED BY DEF ConfigInd, LegacyOK
    <2> QED BY <2>1, <2>2 DEF ConfigInd, ConfigKept
  <1> QED BY <1>1, <1>2, <1>3, PTL DEF IntegrateSpec
=============================================================================
