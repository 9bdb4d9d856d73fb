-------------------------- MODULE HookGatewayProofs --------------------------
(***************************************************************************)
(* Safety of the hook gateway for any number of processes, calls,          *)
(* approvers and timeouts: whatever the processes interleave, whoever      *)
(* aborts and whatever refs clients pass back, an execution on record and  *)
(* a dispatch told to a client are justified by what humans have said.     *)
(* The second part is about the hooks of the other coding agents, for any  *)
(* set of calls, agents and verdicts: what the hooks answer, record and    *)
(* mask stays right across the two processes of a call.                    *)
(***************************************************************************)
EXTENDS HookGateway, HookAgents, LedgerChainLemmas

IsDecision(i) == i \in Indexes /\ Rec(i).kind = "decision"

\* A decision that waits for a human: an ask nobody has answered on record.
Pending(i) == IsDecision(i) /\ Rec(i).verdict.kind = "ask" /\ Rec(i).approver = None

\* Somebody called a has approved decision i.
Approved(i, a) == [index |-> i, who |-> a, ok |-> TRUE] \in said

\* A ref of this ledger names a decision, and an approver who approved it.
RefOK(r) ==
    \/ r.hash = Foreign
    \/ /\ IsDecision(r.index) /\ r.approver \in Identities
       /\ r.approver # None => Pending(r.index) /\ Approved(r.index, r.approver)

\* What the records are, and when decisions were written.
DecisionsTyped ==
    \A i \in Indexes : Rec(i).kind = "decision" =>
        /\ Rec(i).verdict \in Verdicts
        /\ Rec(i).approver \in {None, "fail-closed"}
        /\ Rec(i).written \in 0..now

\* The console's approval files are answers of humans.
ConsoleSaid ==
    \A i \in 0..(MaxRecords - 1) : console[i] = "approved" => Approved(i, "web-console")

ProcShape(q) ==
    q = [op |-> q.op, pc |-> q.pc, mode |-> q.mode, call |-> q.call, ref |-> q.ref,
         who |-> q.who, approved |-> q.approved, index |-> q.index,
         executed |-> q.executed]

\* What a process holds between its scan of the ledger and its answer is
\* still true of the ledger then.
ProcOK(p) ==
    LET q == proc[p] IN
    /\ ProcShape(q)
    /\ q.index \in {-1} \cup Indexes
    /\ q.pc \in {"decide", "answer", "await"} => q.op \in {"decide", "pre"}
    /\ q.pc \in {"answer", "await", "located"} => IsDecision(q.index)
    /\ q.pc = "answer" /\ q.mode # "deny" => Rec(q.index).approver = None
    /\ q.pc = "await" => Pending(q.index)
    /\ q.op \in {"resolve", "complete"} => RefOK(q.ref)
    /\ q.op = "resolve" =>
          /\ q.who \in Approvers /\ q.approved \in BOOLEAN
          /\ \/ q.ref.hash = Foreign
             \/ [index |-> q.ref.index, who |-> q.who, ok |-> q.approved] \in said
    /\ q.pc = "located" /\ q.op \in {"resolve", "complete"} =>
          q.index = q.ref.index /\ q.ref.hash # Foreign

ProcsOK == proc = [p \in Procs |-> proc[p]] /\ \A p \in Procs : ProcOK(p)

\* What an answer told to a client says is true.
AnswerOK(t) ==
    /\ t.op \in {"decide", "resolve"} =>
          /\ IsDecision(t.index) /\ t.approver \in Identities
          /\ t.approver # None => Pending(t.index) /\ Approved(t.index, t.approver)
    /\ t.permit = "dispatch" =>
          /\ IsDecision(t.index)
          /\ \/ Rec(t.index).verdict.kind \in {"allow", "redact"}
             \/ Pending(t.index) /\ Approved(t.index, t.approver)
    /\ t.op = "resolve" /\ t.permit = "dispatch" => t.late = FALSE
    /\ t.permit = "plain" => t.index \in Indexes /\ Rec(t.index).verdict.kind # "redact"

AnswersOK == \A t \in told : AnswerOK(t)

\* The inductive invariant.
GatewayInd ==
    /\ IsSeq(ledger) /\ TypeOK /\ DecisionsTyped /\ ConsoleSaid
    /\ ProcsOK /\ AnswersOK /\ ExecutionJustified
-----------------------------------------------------------------------------
(***************************************************************************)
(* A ledger that grows, and what stays true of it.                         *)
(***************************************************************************)
Grows ==
    /\ IsSeq(ledger') /\ Len(ledger) <= Len(ledger')
    /\ \A i \in Indexes : ledger'[i + 1] = ledger[i + 1]
    /\ said \subseteq said'

\* No hash of a record of this ledger is that of another ledger's.
LEMMA ForeignHash ==
    ASSUME NEW i \in Nat
    PROVE  HashOf(i) # Foreign
  BY DEF HashOf, Foreign

\* Division rounds down, by less than the divisor.
LEMMA DivFacts ==
    ASSUME NEW w \in Nat, NEW S \in Nat \ {0}
    PROVE  /\ (w \div S) * S \in Int
           /\ (w \div S) * S <= w
           /\ w < (w \div S) * S + S
  OBVIOUS

\* Decisions, open asks and approvals stay what they are.
LEMMA FactsStay ==
    ASSUME IsSeq(ledger), Grows
    PROVE  /\ Indexes \subseteq Indexes'
           /\ \A i : IsDecision(i) => IsDecision(i)' /\ ledger'[i + 1] = ledger[i + 1]
           /\ \A i : Pending(i) => Pending(i)'
           /\ \A i, a : Approved(i, a) => Approved(i, a)'
  <1>1. Len(ledger) \in Nat /\ Len(ledger') \in Nat
    BY SeqFacts DEF Grows
  <1>2. Indexes \subseteq Indexes'
    BY <1>1 DEF Grows, Indexes
  <1>3. \A i : IsDecision(i) => IsDecision(i)' /\ ledger'[i + 1] = ledger[i + 1]
    BY <1>2 DEF IsDecision, Grows, Rec
  <1>4. \A i : Pending(i) => Pending(i)'
    BY <1>3 DEF Pending, IsDecision, Rec
  <1>5. \A i, a : Approved(i, a) => Approved(i, a)'
    BY DEF Approved, Grows
  <1> QED BY <1>2, <1>3, <1>4, <1>5

\* A process that does not move keeps what it knows.
LEMMA ProcStays ==
    ASSUME GatewayInd, Grows, NEW p \in Procs, ProcOK(p), proc'[p] = proc[p]
    PROVE  ProcOK(p)'
  <1>1. PICK q : q = proc[p] /\ q = proc'[p]
    OBVIOUS
  <1>2. /\ Indexes \subseteq Indexes'
        /\ \A i : IsDecision(i) => IsDecision(i)' /\ ledger'[i + 1] = ledger[i + 1]
        /\ \A i : Pending(i) => Pending(i)'
        /\ \A i, a : Approved(i, a) => Approved(i, a)'
        /\ said \subseteq said'
    BY FactsStay DEF GatewayInd, Grows
  <1>3. RefOK(q.ref) => RefOK(q.ref)'
    BY <1>2 DEF RefOK
  <1>4. q.pc = "answer" /\ q.mode # "deny" => ledger'[q.index + 1].approver = None
    BY <1>1, <1>2 DEF ProcOK, Rec
  <1> QED BY <1>1, <1>2, <1>3, <1>4 DEF ProcOK, Rec

\* What clients have been told stays true.
LEMMA AnswersStay ==
    ASSUME GatewayInd, Grows, NEW t \in told
    PROVE  AnswerOK(t)'
  <1>1. /\ Indexes \subseteq Indexes'
        /\ \A i : IsDecision(i) => IsDecision(i)' /\ ledger'[i + 1] = ledger[i + 1]
        /\ \A i : Pending(i) => Pending(i)'
        /\ \A i, a : Approved(i, a) => Approved(i, a)'
        /\ \A i \in Indexes : ledger'[i + 1] = ledger[i + 1]
    BY FactsStay DEF GatewayInd, Grows
  <1>2. AnswerOK(t)
    BY DEF GatewayInd, AnswersOK
  <1> QED BY <1>1, <1>2 DEF AnswerOK, Rec

\* A step of a process that leaves the ledger, the clock and the console
\* alone.
LEMMA ProcMoves ==
    ASSUME GatewayInd, NEW p \in Procs, UNCHANGED <<ledger, now, console>>,
           said \subseteq said', proc' = [proc EXCEPT ![p] = proc'[p]],
           ProcOK(p)', \A t \in told' \ told : AnswerOK(t)'
    PROVE  GatewayInd'
  <1>1. Grows
    BY SeqFacts DEF Grows, GatewayInd, Indexes
  <1>2. ASSUME NEW r \in Procs PROVE ProcOK(r)'
    <2>1. CASE r = p
      BY <2>1
    <2>2. CASE r # p
      BY <1>1, <2>2, ProcStays DEF GatewayInd, ProcsOK
    <2> QED BY <2>1, <2>2
  <1>3. ProcsOK'
    BY <1>2 DEF ProcsOK, GatewayInd
  <1>4. AnswersOK'
    BY <1>1, AnswersStay DEF AnswersOK
  <1>5. TypeOK'
    BY <1>2 DEF TypeOK, GatewayInd, ProcOK, Indexes, Rec
  <1>6. ConsoleSaid'
    BY DEF GatewayInd, ConsoleSaid, Approved
  <1>7. IsSeq(ledger)' /\ DecisionsTyped'
    BY DEF GatewayInd, DecisionsTyped, Indexes, Rec
  <1>8. ExecutionJustified'
    BY DEF GatewayInd, ExecutionJustified, Indexes, Rec
  <1> QED BY <1>3, <1>4, <1>5, <1>6, <1>7, <1>8 DEF GatewayInd

\* What a new record has to be.
RecordOK(r) ==
    /\ r.kind \in {"decision", "execution"} /\ r.approver \in Identities
    /\ r.kind = "decision" =>
          /\ r.verdict \in Verdicts /\ r.approver \in {None, "fail-closed"}
          /\ r.written = now
    /\ r.kind = "execution" =>
          LET i == r.decision_index IN
          /\ IsDecision(i)
          /\ \/ Rec(i).verdict.kind \in {"allow", "redact"} /\ r.approver = None
             \/ /\ Pending(i) /\ r.approver # None
                /\ r.approver = "claude-prompt" \/ Approved(i, r.approver)

\* A step of a process that appends a record.
LEMMA ProcAppends ==
    ASSUME GatewayInd, NEW p \in Procs, UNCHANGED <<now, console, said>>,
           NEW r, AppendRec(r), RecordOK(r), proc' = [proc EXCEPT ![p] = proc'[p]],
           Grows => ProcOK(p)', \A t \in told' \ told : Grows => AnswerOK(t)'
    PROVE  GatewayInd'
  <1>0. /\ Len(ledger) \in Nat /\ IsSeq(ledger') /\ Len(ledger') = Len(ledger) + 1
        /\ \A i \in Indexes : ledger'[i + 1] = ledger[i + 1]
        /\ ledger'[Len(ledger) + 1] = r
        /\ Len(ledger') \in 0..MaxRecords
    BY AppendFacts, SeqFacts, GatewayAssumption
    DEF GatewayInd, AppendRec, Indexes, GatewayAssumption
  <1>1. /\ Grows /\ Indexes \subseteq Indexes'
        /\ \A i \in Indexes' : i \in Int /\ (i \in Indexes \/ i = Len(ledger))
    <2>1. Grows
      BY <1>0 DEF Grows
    <2>2. Indexes \subseteq Indexes'
      BY <1>0 DEF Indexes
    <2>3. \A i \in Indexes' : i \in Int /\ (i \in Indexes \/ i = Len(ledger))
      BY <1>0 DEF Indexes
    <2> QED BY <2>1, <2>2, <2>3
  <1>2. ASSUME NEW v \in Procs PROVE ProcOK(v)'
    <2>1. CASE v = p
      BY <1>1, <2>1
    <2>2. CASE v # p
      BY <1>1, <2>2, ProcStays DEF GatewayInd, ProcsOK
    <2> QED BY <2>1, <2>2
  <1>3. ProcsOK'
    BY <1>2 DEF ProcsOK, GatewayInd
  <1>4. AnswersOK'
    BY <1>1, AnswersStay DEF AnswersOK
  <1>5. TypeOK'
    <2>1. \A i \in Indexes' :
             /\ ledger'[i + 1].kind \in {"decision", "execution"}
             /\ ledger'[i + 1].approver \in Identities
             /\ ledger'[i + 1].kind = "decision" => ledger'[i + 1].written \in 0..now
      BY <1>0, <1>1 DEF TypeOK, GatewayInd, RecordOK, Rec
    <2>2. \A v \in Procs : proc'[v].index \in {-1} \cup Indexes'
      BY <1>2 DEF ProcOK
    <2> QED BY <1>0, <2>1, <2>2 DEF TypeOK, GatewayInd, Rec
  <1>6. ConsoleSaid'
    BY DEF GatewayInd, ConsoleSaid, Approved
  <1>7. DecisionsTyped'
    BY <1>0, <1>1 DEF GatewayInd, DecisionsTyped, TypeOK, RecordOK, Rec
  <1>8. ExecutionJustified'
    <2> SUFFICES ASSUME NEW j \in Indexes', ledger'[j + 1].kind = "execution"
                 PROVE  LET i == ledger'[j + 1].decision_index IN
                        /\ i \in 0..(j - 1) /\ ledger'[i + 1].kind = "decision"
                        /\ \/ ledger'[i + 1].verdict.kind \in {"allow", "redact"} /\ ledger'[j + 1].approver = None
                           \/ /\ ledger'[i + 1].verdict.kind = "ask" /\ ledger'[i + 1].approver = None
                              /\ ledger'[j + 1].approver # None
                              /\ \/ ledger'[j + 1].approver = "claude-prompt"
                                 \/ [index |-> i, who |-> ledger'[j + 1].approver, ok |-> TRUE] \in said'
      BY DEF ExecutionJustified, Rec
    <2>1. CASE j \in Indexes
      <3>1. PICK i : i = ledger[j + 1].decision_index
        OBVIOUS
      <3>2. /\ ledger'[j + 1] = ledger[j + 1] /\ said' = said
            /\ i \in 0..(j - 1) => ledger'[i + 1] = ledger[i + 1]
        BY <1>0, <2>1 DEF Indexes
      <3> QED BY <2>1, <3>1, <3>2 DEF GatewayInd, ExecutionJustified, Rec
    <2>2. CASE j = Len(ledger)
      BY <1>0, <2>2 DEF RecordOK, IsDecision, Pending, Approved, Rec, Indexes
    <2> QED BY <1>1, <2>1, <2>2
  <1> QED BY <1>0, <1>3, <1>4, <1>5, <1>6, <1>7, <1>8 DEF GatewayInd

\* An idle process knows nothing.
LEMMA IdleOK ==
    ASSUME NEW p \in Procs, proc'[p] = Idle
    PROVE  ProcOK(p)'
  BY DEF ProcOK, Idle, ProcShape, NoRef, Ref
-----------------------------------------------------------------------------
(***************************************************************************)
(* Every step preserves the invariant.                                     *)
(***************************************************************************)
LEMMA StartDecideKeeps ==
    ASSUME GatewayInd, NEW p \in Procs, StartDecide(p) \/ StartPost(p)
    PROVE  GatewayInd'
  <1>1. UNCHANGED <<ledger, now, console, said, told>>
    BY DEF StartDecide, StartPost
  <1>2. PICK o, w, m, c :
           /\ proc' = [proc EXCEPT ![p] =
                          [Idle EXCEPT !.op = o, !.pc = w, !.mode = m, !.call = c]]
           /\ \/ o \in {"decide", "pre"} /\ w = "decide"
              \/ o \in PostEvents /\ w = "locate"
    <2>1. CASE StartDecide(p)
      <3>1. PICK c \in SdkCalls \cup ClaudeCalls, m \in Modes :
               proc' = [proc EXCEPT ![p] = [Idle EXCEPT
                          !.op = IF c \in SdkCalls THEN "decide" ELSE "pre",
                          !.pc = "decide", !.mode = m, !.call = c]]
        BY <2>1 DEF StartDecide
      <3>2. (IF c \in SdkCalls THEN "decide" ELSE "pre") \in {"decide", "pre"}
        OBVIOUS
      <3> QED BY <3>1, <3>2
    <2>2. CASE StartPost(p)
      BY <2>2 DEF StartPost
    <2> QED BY <2>1, <2>2
  <1>3. proc' = [proc EXCEPT ![p] = proc'[p]]
    BY <1>2 DEF GatewayInd, ProcsOK
  <1>4. /\ proc'[p].op = o /\ proc'[p].pc = w /\ proc'[p].index = -1
        /\ ProcShape(proc'[p])
    BY <1>2 DEF GatewayInd, ProcsOK, Idle, ProcShape
  <1>5. ProcOK(p)'
    BY <1>2, <1>4 DEF ProcOK, PostEvents
  <1> QED BY <1>1, <1>3, <1>5, ProcMoves

\* make_ref: clients hold refs of decisions on record.
LEMMA IssuedOK ==
    ASSUME GatewayInd, NEW r \in Issued
    PROVE  RefOK(r) /\ (r.hash # Foreign => IsDecision(r.index))
  <1>1. CASE r \in {Ref(i, Foreign, None) : i \in 0..(MaxRecords - 1)}
    BY <1>1 DEF RefOK, Ref
  <1>2. CASE r \in {Ref(t.index, HashOf(t.index), t.approver) :
                        t \in {u \in told : u.op \in {"decide", "resolve"}}}
    <2>1. PICK t \in told : /\ t.op \in {"decide", "resolve"}
                            /\ r = Ref(t.index, HashOf(t.index), t.approver)
      BY <1>2
    <2>2. r.index = t.index /\ r.approver = t.approver
      BY <2>1 DEF Ref
    <2>3. AnswerOK(t)
      BY DEF GatewayInd, AnswersOK
    <2> QED BY <2>1, <2>2, <2>3 DEF AnswerOK, RefOK
  <1> QED BY <1>1, <1>2 DEF Issued

LEMMA StartResolveKeeps ==
    ASSUME GatewayInd, NEW p \in Procs, StartResolve(p)
    PROVE  GatewayInd'
  <1>1. PICK r \in Issued, m \in Modes \ {"ui"}, ok \in BOOLEAN, a \in Approvers :
          /\ r.approver = None
          /\ proc' = [proc EXCEPT ![p] = [Idle EXCEPT
                        !.op = "resolve", !.pc = "locate", !.mode = m, !.ref = r,
                        !.approved = ok, !.who = a]]
          /\ said' = said \cup (IF r.hash = Foreign THEN {}
                                ELSE {[index |-> r.index, who |-> a, ok |-> ok]})
    BY DEF StartResolve
  <1>2. UNCHANGED <<ledger, now, console, told>>
    BY DEF StartResolve
  <1>3. proc' = [proc EXCEPT ![p] = proc'[p]]
    BY <1>1 DEF GatewayInd, ProcsOK
  <1>4. /\ proc'[p].op = "resolve" /\ proc'[p].pc = "locate" /\ proc'[p].ref = r
        /\ proc'[p].who = a /\ proc'[p].approved = ok /\ proc'[p].index = -1
        /\ ProcShape(proc'[p])
    BY <1>1 DEF GatewayInd, ProcsOK, Idle, ProcShape
  <1>5. RefOK(r)'
    BY <1>1, <1>2, IssuedOK DEF RefOK, IsDecision, Pending, Approved, Indexes, Rec
  <1>6. \/ r.hash = Foreign
        \/ [index |-> r.index, who |-> a, ok |-> ok] \in said'
    BY <1>1
  <1>7. ProcOK(p)'
    BY <1>1, <1>4, <1>5, <1>6 DEF ProcOK
  <1>8. said \subseteq said'
    BY <1>1
  <1> QED BY <1>2, <1>3, <1>7, <1>8, ProcMoves

LEMMA StartCompleteKeeps ==
    ASSUME GatewayInd, NEW p \in Procs, StartComplete(p)
    PROVE  GatewayInd'
  <1>1. PICK r \in Issued, m \in Modes :
          proc' = [proc EXCEPT ![p] = [Idle EXCEPT
                     !.op = "complete", !.pc = "locate", !.mode = m, !.ref = r]]
    BY DEF StartComplete
  <1>2. UNCHANGED <<ledger, now, console, said, told>>
    BY DEF StartComplete
  <1>3. proc' = [proc EXCEPT ![p] = proc'[p]]
    BY <1>1 DEF GatewayInd, ProcsOK
  <1>4. /\ proc'[p].op = "complete" /\ proc'[p].pc = "locate" /\ proc'[p].ref = r
        /\ proc'[p].index = -1 /\ ProcShape(proc'[p])
    BY <1>1 DEF GatewayInd, ProcsOK, Idle, ProcShape
  <1>5. RefOK(r)'
    BY <1>1, <1>2, IssuedOK DEF RefOK, IsDecision, Pending, Approved, Indexes, Rec
  <1>6. ProcOK(p)'
    BY <1>4, <1>5 DEF ProcOK
  <1> QED BY <1>2, <1>3, <1>6, ProcMoves

\* The decision is on record before anyone is answered.
LEMMA DecideKeeps ==
    ASSUME GatewayInd, NEW p \in Procs, Decide(p)
    PROVE  GatewayInd'
  <1>1. PICK v \in Verdicts :
          AppendRec([kind |-> "decision", call |-> proc[p].call, verdict |-> v,
                     approver |-> IF v.kind = "ask" /\ proc[p].mode = "deny"
                                  THEN "fail-closed" ELSE None,
                     decision_index |-> -1, written |-> now])
    BY DEF Decide
  <1>2. PICK r : r = [kind |-> "decision", call |-> proc[p].call, verdict |-> v,
                      approver |-> IF v.kind = "ask" /\ proc[p].mode = "deny"
                                   THEN "fail-closed" ELSE None,
                      decision_index |-> -1, written |-> now]
    OBVIOUS
  <1>3. /\ UNCHANGED <<now, console, said, told>> /\ proc[p].pc = "decide"
        /\ proc' = [proc EXCEPT ![p].pc = "answer", ![p].index = Len(ledger)]
    BY DEF Decide
  <1>4. RecordOK(r)
    BY <1>2 DEF RecordOK, Identities
  <1>5. proc' = [proc EXCEPT ![p] = proc'[p]]
    BY <1>3 DEF GatewayInd, ProcsOK
  <1>6. ProcShape(proc[p]) /\ proc[p].op \in {"decide", "pre"}
    BY <1>3 DEF GatewayInd, ProcsOK, ProcOK
  <1>7. /\ proc'[p].pc = "answer" /\ proc'[p].index = Len(ledger)
        /\ proc'[p].op = proc[p].op /\ proc'[p].mode = proc[p].mode
        /\ ProcShape(proc'[p])
    BY <1>3, <1>6 DEF GatewayInd, ProcsOK, ProcShape
  <1>8. /\ Len(ledger) \in Nat /\ Len(ledger') = Len(ledger) + 1
        /\ ledger'[Len(ledger) + 1] = r
    BY <1>1, <1>2, AppendFacts, SeqFacts DEF AppendRec, GatewayInd
  <1>9. PICK n : n = Len(ledger) /\ IsDecision(n)' /\ ledger'[n + 1] = r
    BY <1>2, <1>8 DEF IsDecision, Indexes, Rec
  <1>10. proc[p].mode # "deny" => r.approver = None
    BY <1>2
  <1>11. ProcOK(p)'
    BY <1>6, <1>7, <1>9, <1>10 DEF ProcOK, IsDecision, Rec
  <1> QED BY <1>1, <1>2, <1>3, <1>4, <1>5, <1>11, ProcAppends

\* A process that has answered is idle.
LEMMA TellFacts ==
    ASSUME GatewayInd, NEW p \in Procs, NEW i, NEW permit, NEW a, Tell(p, i, permit, a)
    PROVE  proc' = [proc EXCEPT ![p] = proc'[p]] /\ ProcOK(p)'
  <1>1. proc' = [proc EXCEPT ![p] = proc'[p]] /\ proc'[p] = Idle
    BY DEF Tell, GatewayInd, ProcsOK
  <1> QED BY <1>1, IdleOK

\* The verdict is answered as it is on record.
LEMMA AnswerKeeps ==
    ASSUME GatewayInd, NEW p \in Procs, Answer(p)
    PROVE  GatewayInd'
  <1>1. PICK q, i, v, m :
           q = proc[p] /\ i = q.index /\ v = Rec(i).verdict.kind /\ m = q.mode
    OBVIOUS
  <1>2. /\ UNCHANGED <<ledger, now, console, said>> /\ q.pc = "answer"
        /\ \/ v \in {"allow", "redact"} /\ Tell(p, i, "dispatch", None)
           \/ (v = "deny" \/ (v = "ask" /\ m = "deny")) /\ Tell(p, i, "deny", None)
           \/ v = "ask" /\ m = "defer" /\ Tell(p, i, "ask", None)
           \/ /\ v = "ask" /\ m = "ui" /\ UNCHANGED told
              /\ proc' = [proc EXCEPT ![p].pc = "await"]
    BY <1>1 DEF Answer
  <1>3. /\ IsDecision(i) /\ q.op \in {"decide", "pre"} /\ ProcShape(q)
        /\ m # "deny" => Rec(i).approver = None
    BY <1>1, <1>2 DEF GatewayInd, ProcsOK, ProcOK
  <1>4. IsDecision(i)' /\ Rec(i)' = Rec(i)
    BY <1>2, <1>3 DEF IsDecision, Indexes, Rec
  <1>5. CASE v = "ask" /\ m = "ui" /\ UNCHANGED told
                /\ proc' = [proc EXCEPT ![p].pc = "await"]
    <2>1. /\ proc' = [proc EXCEPT ![p] = proc'[p]]
          /\ proc'[p].pc = "await" /\ proc'[p].op = q.op /\ proc'[p].index = i
          /\ ProcShape(proc'[p])
      BY <1>1, <1>3, <1>5 DEF GatewayInd, ProcsOK, ProcShape
    <2>2. Pending(i)'
      BY <1>1, <1>2, <1>3, <1>5 DEF Pending, IsDecision, Indexes, Rec
    <2>3. ProcOK(p)'
      BY <1>3, <1>4, <2>1, <2>2 DEF ProcOK, IsDecision
    <2> QED BY <1>2, <1>5, <2>1, <2>3, ProcMoves
  <1>6. CASE \E permit \in {"dispatch", "deny", "ask"} :
                Tell(p, i, permit, None) /\ (permit = "dispatch" => v \in {"allow", "redact"})
    <2>1. PICK permit \in {"dispatch", "deny", "ask"} :
             Tell(p, i, permit, None) /\ (permit = "dispatch" => v \in {"allow", "redact"})
      BY <1>6
    <2>2. ASSUME NEW t \in told' \ told PROVE AnswerOK(t)'
      <3>1. /\ t.op = q.op /\ t.index = i /\ t.permit = permit /\ t.approver = None
        BY <1>1, <2>1 DEF Tell
      <3> QED BY <1>1, <1>3, <1>4, <2>1, <3>1 DEF AnswerOK, Identities, Rec
    <2> QED BY <1>2, <2>1, <2>2, TellFacts, ProcMoves
  <1> QED BY <1>2, <1>5, <1>6

\* await_decision: the console's approval, or a denial.
LEMMA AwaitKeeps ==
    ASSUME GatewayInd, NEW p \in Procs, AwaitConsole(p)
    PROVE  GatewayInd'
  <1>1. PICK q, i : q = proc[p] /\ i = q.index
    OBVIOUS
  <1>2. PICK permit \in {"dispatch", "deny"}, a \in {None, "web-console"} :
           /\ Tell(p, i, permit, a)
           /\ a # None \/ permit = "dispatch" =>
                 console[i] = "approved" /\ permit = "dispatch" /\ a = "web-console"
    BY <1>1 DEF AwaitConsole
  <1>3. UNCHANGED <<ledger, now, console, said>> /\ q.pc = "await"
    BY <1>1 DEF AwaitConsole
  <1>4. Pending(i) /\ q.op \in {"decide", "pre"}
    BY <1>1, <1>3 DEF GatewayInd, ProcsOK, ProcOK
  <1>5. i \in 0..(MaxRecords - 1)
    BY <1>4, GatewayAssumption
    DEF Pending, IsDecision, Indexes, GatewayInd, TypeOK, GatewayAssumption
  <1>6. console[i] = "approved" => Approved(i, "web-console")
    BY <1>5 DEF GatewayInd, ConsoleSaid
  <1>7. IsDecision(i)' /\ Pending(i)' /\ (Approved(i, a) => Approved(i, a)')
    BY <1>3, <1>4 DEF Pending, IsDecision, Indexes, Rec, Approved
  <1>8. ASSUME NEW t \in told' \ told PROVE AnswerOK(t)'
    <2>1. /\ t.op = q.op /\ t.index = i /\ t.permit = permit /\ t.approver = a
      BY <1>1, <1>2 DEF Tell
    <2> QED BY <1>2, <1>4, <1>6, <1>7, <2>1 DEF AnswerOK, Identities
  <1> QED BY <1>2, <1>3, <1>8, TellFacts, ProcMoves

\* locate_ref finds the decision the ref names.
LEMMA LocateRefKeeps ==
    ASSUME GatewayInd, NEW p \in Procs, LocateRef(p)
    PROVE  GatewayInd'
  <1>1. PICK q, i : q = proc[p] /\ i = q.ref.index
    OBVIOUS
  <1>2. /\ UNCHANGED <<ledger, now, console, said, told>>
        /\ q.op \in {"resolve", "complete"} /\ RefNames(q.ref)
        /\ proc' = [proc EXCEPT ![p].pc = "located", ![p].index = i,
                                ![p].executed = Executed(i)]
    BY <1>1 DEF LocateRef
  <1>3. IsDecision(i) /\ i \in Nat /\ q.ref.hash = HashOf(i)
    BY <1>1, <1>2, SeqFacts DEF RefNames, IsDecision, Indexes, GatewayInd
  <1>4. q.ref.hash # Foreign
    BY <1>3, ForeignHash
  <1>5. /\ ProcShape(q) /\ RefOK(q.ref)
        /\ q.op = "resolve" =>
              /\ q.who \in Approvers /\ q.approved \in BOOLEAN
              /\ [index |-> q.ref.index, who |-> q.who, ok |-> q.approved] \in said
    BY <1>1, <1>2, <1>4 DEF GatewayInd, ProcsOK, ProcOK
  <1>6. /\ proc' = [proc EXCEPT ![p] = proc'[p]]
        /\ proc'[p].pc = "located" /\ proc'[p].op = q.op /\ proc'[p].index = i
        /\ proc'[p].ref = q.ref /\ proc'[p].who = q.who
        /\ proc'[p].approved = q.approved
        /\ ProcShape(proc'[p])
    BY <1>1, <1>2, <1>5 DEF GatewayInd, ProcsOK, ProcShape
  <1>7. RefOK(q.ref)' /\ IsDecision(i)'
    BY <1>2, <1>3, <1>5 DEF RefOK, IsDecision, Pending, Approved, Indexes, Rec
  <1>8. ProcOK(p)'
    <2>1. proc'[p].index \in {-1} \cup Indexes'
      BY <1>6, <1>7 DEF IsDecision
    <2>2. q.op = "resolve" => [index |-> q.ref.index, who |-> q.who, ok |-> q.approved] \in said'
      BY <1>2, <1>5
    <2> QED BY <1>1, <1>2, <1>4, <1>5, <1>6, <1>7, <2>1, <2>2 DEF ProcOK
  <1> QED BY <1>2, <1>6, <1>8, ProcMoves

\* The answer of a post hook: the process is idle, and only an output that
\* needs no mask is shown as it is.
LEMMA TellPostFacts ==
    ASSUME GatewayInd, NEW p \in Procs, NEW i, i = -1 \/ i \in Indexes, Grows,
           TellPost(p, i)
    PROVE  /\ proc' = [proc EXCEPT ![p] = proc'[p]] /\ ProcOK(p)'
           /\ \A t \in told' \ told : AnswerOK(t)'
  <1>1. CASE proc[p].op = "postfailure" /\ proc' = [proc EXCEPT ![p] = Idle] /\ UNCHANGED told
    <2>1. proc' = [proc EXCEPT ![p] = proc'[p]] /\ proc'[p] = Idle
      BY <1>1 DEF GatewayInd, ProcsOK
    <2> QED BY <1>1, <2>1, IdleOK
  <1>2. CASE proc[p].op = "post" /\ Tell(p, i, PostFailure(i), None)
    <2>1. proc' = [proc EXCEPT ![p] = proc'[p]] /\ ProcOK(p)'
      BY <1>2, TellFacts
    <2>2. ASSUME NEW t \in told' \ told PROVE AnswerOK(t)'
      <3>1. t.op = "post" /\ t.index = i /\ t.permit = PostFailure(i)
        BY <1>2 DEF Tell
      <3>2. /\ t.permit \in {"masked", "plain"}
            /\ t.permit = "plain" => i \in Indexes /\ Rec(i).verdict.kind # "redact"
        BY <3>1 DEF PostFailure
      <3>3. i \in Indexes => i \in Indexes' /\ ledger'[i + 1] = ledger[i + 1]
        BY FactsStay DEF GatewayInd, Grows
      <3> QED BY <3>1, <3>2, <3>3 DEF AnswerOK, Rec
    <2> QED BY <2>1, <2>2
  <1> QED BY <1>1, <1>2 DEF TellPost

LEMMA SameLedgerGrows ==
    ASSUME GatewayInd, UNCHANGED <<ledger, said>>
    PROVE  Grows
  BY SeqFacts DEF Grows, GatewayInd, Indexes

\* The scan of cc_post.
LEMMA LocateCallKeeps ==
    ASSUME GatewayInd, NEW p \in Procs, LocateCall(p)
    PROVE  GatewayInd'
  <1>1. UNCHANGED <<ledger, now, console, said>> /\ proc[p].op \in PostEvents
    BY DEF LocateCall
  <1>2. CASE TellPost(p, -1)
    <2>1. /\ proc' = [proc EXCEPT ![p] = proc'[p]] /\ ProcOK(p)'
          /\ \A t \in told' \ told : AnswerOK(t)'
      BY <1>1, <1>2, SameLedgerGrows, TellPostFacts
    <2> QED BY <1>1, <2>1, ProcMoves
  <1>3. CASE \E i \in DecisionsOf(proc[p].call) :
                /\ proc' = [proc EXCEPT ![p].pc = "located", ![p].index = i,
                                        ![p].executed = Executed(i)]
                /\ UNCHANGED told
    <2>1. PICK i \in DecisionsOf(proc[p].call) :
                /\ proc' = [proc EXCEPT ![p].pc = "located", ![p].index = i,
                                        ![p].executed = Executed(i)]
                /\ UNCHANGED told
      BY <1>3
    <2>2. IsDecision(i)'
      BY <1>1 DEF DecisionsOf, IsDecision, Indexes, Rec
    <2>3. ProcShape(proc[p])
      BY DEF GatewayInd, ProcsOK, ProcOK
    <2>4. /\ proc' = [proc EXCEPT ![p] = proc'[p]]
          /\ proc'[p].pc = "located" /\ proc'[p].op = proc[p].op /\ proc'[p].index = i
          /\ ProcShape(proc'[p])
      BY <2>1, <2>3 DEF GatewayInd, ProcsOK, ProcShape
    <2>5. ProcOK(p)'
      BY <1>1, <2>2, <2>4 DEF ProcOK, IsDecision, PostEvents
    <2> QED BY <1>1, <2>1, <2>4, <2>5, ProcMoves
  <1> QED BY <1>2, <1>3 DEF LocateCall

\* An expired ask is past its timeout, by less than the second that
\* recorded_at has lost, and an ask that is not expired is not overdue.
LEMMA TimeoutFacts ==
    ASSUME GatewayInd, NEW i, IsDecision(i)
    PROVE  /\ TimedOut(i) => now - Rec(i).written > Rec(i).verdict.timeout - Second
           /\ ~TimedOut(i) => ~Overdue(i)
  <1>1. PICK v, w : v = Rec(i).verdict /\ w = Rec(i).written
    OBVIOUS
  <1>2. v \in Verdicts /\ w \in 0..now /\ now \in Nat
    BY <1>1 DEF GatewayInd, DecisionsTyped, IsDecision, TypeOK
  <1>3. v.timeout # None => v.timeout \in Nat
    BY <1>2, GatewayAssumption DEF Verdicts, GatewayAssumption
  <1>4. PICK d : d = (w \div Second) * Second
    OBVIOUS
  <1>5. w \in Nat /\ d \in Int /\ d <= w /\ w < d + Second /\ Second \in Nat
    BY <1>2, <1>4, DivFacts, GatewayAssumption DEF GatewayAssumption
  <1>6. TimedOut(i) <=> v.timeout # None /\ now - d > v.timeout
    BY <1>1, <1>4 DEF TimedOut, recorded_at
  <1>7. Overdue(i) <=> v.timeout # None /\ now - w > v.timeout
    BY <1>1 DEF Overdue
  <1> QED BY <1>1, <1>2, <1>3, <1>5, <1>6, <1>7

\* op_resolve.
LEMMA ResolveKeeps ==
    ASSUME GatewayInd, NEW p \in Procs, Resolve(p)
    PROVE  GatewayInd'
  <1>1. PICK q, i : q = proc[p] /\ i = q.index
    OBVIOUS
  <1>2. /\ UNCHANGED <<ledger, now, console, said>>
        /\ q.pc = "located" /\ q.op = "resolve"
        /\ Rec(i).verdict.kind = "ask" /\ Rec(i).approver = None
    BY <1>1 DEF Resolve
  <1>3. /\ IsDecision(i) /\ q.who \in Approvers /\ q.approved \in BOOLEAN
        /\ [index |-> i, who |-> q.who, ok |-> q.approved] \in said
    BY <1>1, <1>2 DEF GatewayInd, ProcsOK, ProcOK
  <1>4. IsDecision(i)' /\ Pending(i)'
    BY <1>2, <1>3 DEF Pending, IsDecision, Indexes, Rec
  <1>5. CASE ~TimedOut(i) /\ q.approved /\ Tell(p, i, "dispatch", q.who)
    <2>1. q.approved = TRUE
      BY <1>3, <1>5
    <2>2. PICK a : a = q.who /\ a \in Approvers /\ Approved(i, a)'
      BY <1>2, <1>3, <2>1 DEF Approved
    <2>3. ASSUME NEW t \in told' \ told PROVE AnswerOK(t)'
      <3>1. t = [op |-> "resolve", index |-> i, permit |-> "dispatch", approver |-> a,
                 late |-> q.op = "resolve" /\ Overdue(i)]
        BY <1>1, <1>2, <1>5, <2>2 DEF Tell
      <3>2. ~Overdue(i)
        BY <1>3, <1>5, TimeoutFacts
      <3>3. t.late = FALSE
        BY <3>1, <3>2
      <3>4. t.op = "resolve" /\ t.index = i /\ t.permit = "dispatch" /\ t.approver = a
        BY <3>1
      <3> QED BY <1>4, <2>2, <3>3, <3>4 DEF AnswerOK, Identities
    <2>4. proc' = [proc EXCEPT ![p] = proc'[p]] /\ ProcOK(p)'
      BY <1>5, TellFacts
    <2> QED BY <1>2, <2>3, <2>4, ProcMoves
  <1>6. CASE Tell(p, i, "deny", None)
    <2>1. ASSUME NEW t \in told' \ told PROVE AnswerOK(t)'
      <3>1. t.op = "resolve" /\ t.index = i /\ t.permit = "deny" /\ t.approver = None
        BY <1>1, <1>2, <1>6 DEF Tell
      <3> QED BY <1>4, <3>1 DEF AnswerOK, Identities
    <2> QED BY <1>2, <1>6, <2>1, TellFacts, ProcMoves
  <1> QED BY <1>1, <1>5, <1>6 DEF Resolve

\* op_complete records the run of what its ref authorises.
LEMMA CompleteKeeps ==
    ASSUME GatewayInd, NEW p \in Procs, Complete(p)
    PROVE  GatewayInd'
  <1>1. PICK q, i, a, r : q = proc[p] /\ i = q.index /\ a = q.ref.approver
                          /\ r = Execution(i, a)
    OBVIOUS
  <1>2. /\ UNCHANGED <<now, console, said, told>>
        /\ q.pc = "located" /\ q.op = "complete" /\ MayComplete(i, a)
        /\ AppendRec(r) /\ proc' = [proc EXCEPT ![p] = Idle]
    BY <1>1 DEF Complete
  <1>3. /\ IsDecision(i) /\ a \in Identities
        /\ a # None => Pending(i) /\ Approved(i, a)
    BY <1>1, <1>2 DEF GatewayInd, ProcsOK, ProcOK, RefOK
  <1>4. r.kind = "execution" /\ r.approver = a /\ r.decision_index = i
    BY <1>1 DEF Execution
  <1>5. RecordOK(r)
    BY <1>2, <1>3, <1>4 DEF RecordOK, MayComplete, Pending
  <1>6. proc' = [proc EXCEPT ![p] = proc'[p]] /\ proc'[p] = Idle
    BY <1>2 DEF GatewayInd, ProcsOK
  <1>7. ProcOK(p)'
    BY <1>6, IdleOK
  <1> QED BY <1>2, <1>5, <1>6, <1>7, ProcAppends

\* cc_post without a record.
LEMMA PostRefusedKeeps ==
    ASSUME GatewayInd, NEW p \in Procs, PostRefused(p)
    PROVE  GatewayInd'
  <1>1. PICK i : i = proc[p].index
    OBVIOUS
  <1>2. /\ UNCHANGED <<ledger, now, console, said>>
        /\ proc[p].pc = "located" /\ TellPost(p, i)
    BY <1>1 DEF PostRefused
  <1>3. i \in Indexes
    BY <1>1, <1>2 DEF GatewayInd, ProcsOK, ProcOK, IsDecision
  <1>4. /\ proc' = [proc EXCEPT ![p] = proc'[p]] /\ ProcOK(p)'
        /\ \A t \in told' \ told : AnswerOK(t)'
    BY <1>2, <1>3, SameLedgerGrows, TellPostFacts
  <1> QED BY <1>2, <1>4, ProcMoves

\* The approver that cc_post puts on record.
LEMMA PostApproverFacts ==
    ASSUME GatewayInd, NEW i, IsDecision(i), NEW m, NEW a \in PostApprover(i, m)
    PROVE  /\ a \in Identities
           /\ \/ Rec(i).verdict.kind \in {"allow", "redact"} /\ a = None
              \/ /\ Pending(i) /\ a # None
                 /\ a = "claude-prompt" \/ Approved(i, a)
  <1>1. \/ Rec(i).verdict.kind \in {"allow", "redact"} /\ a = None
        \/ /\ Rec(i).verdict.kind = "ask" /\ Rec(i).approver = None
           /\ a = "claude-prompt" \/ (a = "web-console" /\ console[i] = "approved")
    BY DEF PostApprover
  <1>2. i \in 0..(MaxRecords - 1)
    BY GatewayAssumption
    DEF IsDecision, Indexes, GatewayInd, TypeOK, GatewayAssumption
  <1>3. console[i] = "approved" => Approved(i, "web-console")
    BY <1>2 DEF GatewayInd, ConsoleSaid
  <1> QED BY <1>1, <1>3, GatewayAssumption DEF Identities, Pending, GatewayAssumption

\* cc_post with its record.
LEMMA PostRecordedKeeps ==
    ASSUME GatewayInd, NEW p \in Procs, PostRecorded(p)
    PROVE  GatewayInd'
  <1>1. PICK i, m : i = proc[p].index /\ m = proc[p].mode
    OBVIOUS
  <1>2. PICK a, r : a \in PostApprover(i, m) /\ r = Execution(i, a) /\ AppendRec(r)
    BY <1>1 DEF PostRecorded
  <1>3. /\ UNCHANGED <<now, console, said>>
        /\ proc[p].pc = "located" /\ TellPost(p, i)
    BY <1>1 DEF PostRecorded
  <1>4. IsDecision(i)
    BY <1>1, <1>3 DEF GatewayInd, ProcsOK, ProcOK
  <1>5. r.kind = "execution" /\ r.approver = a /\ r.decision_index = i
    BY <1>2 DEF Execution
  <1>6. RecordOK(r)
    BY <1>2, <1>4, <1>5, PostApproverFacts DEF RecordOK
  <1>7. Grows
    BY <1>2, <1>3, AppendFacts, SeqFacts DEF Grows, AppendRec, GatewayInd, Indexes
  <1>8. /\ proc' = [proc EXCEPT ![p] = proc'[p]] /\ ProcOK(p)'
        /\ \A t \in told' \ told : AnswerOK(t)'
    BY <1>3, <1>4, <1>7, TellPostFacts DEF IsDecision
  <1> QED BY <1>2, <1>3, <1>6, <1>8, ProcAppends

\* An error answer, or a killed process.
LEMMA AbortKeeps ==
    ASSUME GatewayInd, NEW p \in Procs, Abort(p)
    PROVE  GatewayInd'
  <1>1. /\ UNCHANGED <<ledger, now, console, said, told>>
        /\ proc' = [proc EXCEPT ![p] = proc'[p]] /\ proc'[p] = Idle
    BY DEF Abort, GatewayInd, ProcsOK
  <1> QED BY <1>1, IdleOK, ProcMoves

\* The console and the clock: the ledger and the processes stay as they are.
LEMMA WorldKeeps ==
    ASSUME GatewayInd, UNCHANGED <<ledger, proc, told>>, said \subseteq said',
           now' \in now..MaxTime, ConsoleSaid',
           console' \in [0..(MaxRecords - 1) -> {"none", "approved", "denied"}]
    PROVE  GatewayInd'
  <1>0. now \in 0..MaxTime /\ MaxTime \in Nat /\ now' \in 0..MaxTime
        /\ \A w \in 0..now : w \in 0..now'
    BY GatewayAssumption DEF GatewayInd, TypeOK, GatewayAssumption
  <1>1. Grows
    BY SeqFacts DEF Grows, GatewayInd, Indexes
  <1>2. ProcsOK'
    BY <1>1, ProcStays DEF ProcsOK, GatewayInd
  <1>3. AnswersOK'
    BY <1>1, AnswersStay DEF AnswersOK
  <1>4. TypeOK'
    BY <1>0 DEF TypeOK, GatewayInd, Indexes, Rec
  <1>5. IsSeq(ledger)' /\ DecisionsTyped'
    BY <1>0 DEF GatewayInd, DecisionsTyped, Indexes, Rec
  <1>6. ExecutionJustified'
    BY DEF GatewayInd, ExecutionJustified, Indexes, Rec
  <1> QED BY <1>2, <1>3, <1>4, <1>5, <1>6 DEF GatewayInd

LEMMA ConsoleKeeps ==
    ASSUME GatewayInd, NEW i \in Indexes, ConsoleDecides(i) \/ ConsoleForgets(i)
    PROVE  GatewayInd'
  <1>0. now' = now /\ now \in 0..MaxTime /\ UNCHANGED <<ledger, proc, told>>
    BY DEF GatewayInd, TypeOK, ConsoleDecides, ConsoleForgets
  <1>1. now' \in now..MaxTime
    BY <1>0, GatewayAssumption DEF GatewayAssumption
  <1>2. CASE ConsoleForgets(i)
    BY <1>0, <1>1, <1>2, WorldKeeps
    DEF ConsoleForgets, GatewayInd, TypeOK, ConsoleSaid, Approved
  <1>3. CASE ConsoleDecides(i)
    <2>1. PICK ok \in BOOLEAN :
             /\ console' = [console EXCEPT ![i] = IF ok THEN "approved" ELSE "denied"]
             /\ said' = said \cup {[index |-> i, who |-> "web-console", ok |-> ok]}
      BY <1>3 DEF ConsoleDecides
    <2>2. said \subseteq said'
      BY <2>1
    <2>3. console' \in [0..(MaxRecords - 1) -> {"none", "approved", "denied"}]
      BY <2>1 DEF GatewayInd, TypeOK
    <2>4. ASSUME NEW j \in 0..(MaxRecords - 1), console'[j] = "approved"
          PROVE  [index |-> j, who |-> "web-console", ok |-> TRUE] \in said'
      <3>1. CASE j = i /\ ok = TRUE
        BY <2>1, <3>1
      <3>2. CASE j = i /\ ok = FALSE
        BY <2>1, <2>4, <3>2 DEF GatewayInd, TypeOK
      <3>3. CASE j # i
        BY <2>1, <2>2, <2>4, <3>3 DEF GatewayInd, TypeOK, ConsoleSaid, Approved
      <3> QED BY <3>1, <3>2, <3>3
    <2>5. ConsoleSaid'
      BY <2>4 DEF ConsoleSaid, Approved
    <2> QED BY <1>0, <1>1, <2>2, <2>3, <2>5, WorldKeeps
  <1> QED BY <1>2, <1>3

LEMMA TickKeeps ==
    ASSUME GatewayInd, Tick
    PROVE  GatewayInd'
  <1>1. now' \in now..MaxTime
    BY GatewayAssumption DEF Tick, GatewayInd, TypeOK, GatewayAssumption
  <1> QED BY <1>1, WorldKeeps DEF Tick, GatewayInd, TypeOK, ConsoleSaid, Approved
-----------------------------------------------------------------------------
LEMMA GatewayInit == Init => GatewayInd
  <1> SUFFICES ASSUME Init PROVE GatewayInd
    OBVIOUS
  <1>1. ledger = <<>> /\ Len(ledger) = 0 /\ IsSeq(ledger)
    BY DEF Init, IsSeq
  <1>2. Indexes = {}
    BY <1>1 DEF Indexes
  <1>3. TypeOK
    BY <1>1, <1>2, GatewayAssumption DEF Init, TypeOK, Idle, GatewayAssumption
  <1>4. DecisionsTyped /\ ExecutionJustified
    BY <1>2 DEF DecisionsTyped, ExecutionJustified
  <1>5. ConsoleSaid
    BY DEF Init, ConsoleSaid
  <1>6. ProcsOK
    BY DEF Init, ProcsOK, ProcOK, Idle, ProcShape, NoRef, Ref
  <1>7. AnswersOK
    BY DEF Init, AnswersOK
  <1> QED BY <1>1, <1>3, <1>4, <1>5, <1>6, <1>7 DEF GatewayInd

LEMMA GatewayStep == GatewayInd /\ [Next]_vars => GatewayInd'
  <1> SUFFICES ASSUME GatewayInd, [Next]_vars PROVE GatewayInd'
    OBVIOUS
  <1>1. ASSUME NEW p \in Procs, Step(p) PROVE GatewayInd'
    BY <1>1, StartDecideKeeps, StartResolveKeeps, StartCompleteKeeps, DecideKeeps,
       AnswerKeeps, AwaitKeeps, LocateRefKeeps, LocateCallKeeps, ResolveKeeps,
       CompleteKeeps, PostRefusedKeeps, PostRecordedKeeps, AbortKeeps
    DEF Step
  <1>2. CASE UNCHANGED vars
    <2>1. now' \in now..MaxTime
      BY <1>2, GatewayAssumption DEF vars, GatewayInd, TypeOK, GatewayAssumption
    <2> QED BY <1>2, <2>1, WorldKeeps DEF vars, GatewayInd, TypeOK, ConsoleSaid, Approved
  <1> QED BY <1>1, <1>2, ConsoleKeeps, TickKeeps DEF Next

\* Every decision is what the records say, indexes name records, and the
\* clock, the console files and the processes are of their types.
THEOREM GatewayTypeCorrect == Spec => []TypeOK
  <1>1. GatewayInd => TypeOK
    BY DEF GatewayInd
  <1> QED BY GatewayInit, GatewayStep, <1>1, PTL DEF Spec

\* However many `writ check' processes interleave their scans, appends and
\* aborts: every Execution record op_complete or cc_post writes links a
\* decision that authorises it, and an ask's names who approved it.
THEOREM ExecutionsJustified == Spec => []ExecutionJustified
  <1>1. GatewayInd => ExecutionJustified
    BY DEF GatewayInd
  <1> QED BY GatewayInit, GatewayStep, <1>1, PTL DEF Spec

\* The gateway tells a client to dispatch only what is on record as allowed,
\* or as an ask that a human approved.
THEOREM DispatchesJustified == Spec => []DispatchJustified
  <1>1. GatewayInd => DispatchJustified
    BY DEF GatewayInd, AnswersOK, AnswerOK, DispatchJustified, IsDecision, Pending, Approved
  <1> QED BY GatewayInit, GatewayStep, <1>1, PTL DEF Spec

\* The timeout of op_resolve, counted from whole seconds, is never late and
\* less than a second early.
THEOREM TimeoutsNeverLate == Spec => []NeverLate
  <1>1. ASSUME GatewayInd PROVE NeverLate
    <2>1. \A t \in told : ~(t.op = "resolve" /\ t.permit = "dispatch" /\ t.late)
      BY <1>1 DEF GatewayInd, AnswersOK, AnswerOK
    <2>2. \A i \in Indexes : Rec(i).kind = "decision" /\ TimedOut(i) =>
             now - Rec(i).written > Rec(i).verdict.timeout - Second
      BY <1>1, TimeoutFacts DEF IsDecision
    <2> QED BY <2>1, <2>2 DEF NeverLate
  <1> QED BY GatewayInit, GatewayStep, <1>1, PTL DEF Spec

\* Whichever check of cc_post fails, the output of a redact decision is
\* masked.
THEOREM RedactedStaysMasked == Spec => []RedactedNeverShown
  <1>1. GatewayInd => RedactedNeverShown
    BY DEF GatewayInd, AnswersOK, AnswerOK, RedactedNeverShown
  <1> QED BY GatewayInit, GatewayStep, <1>1, PTL DEF Spec
-----------------------------------------------------------------------------
\* What a hook may answer its agent, and what a call under way may hold.
AnswerType == [json : {"none", "deny", "allow", "ask"}, stderr : BOOLEAN, code : {0, 2}]

TurnType ==
    [pc : {"new", "decided", "console", "answered", "blocked", "ran", "located", "over"},
     own : Nat, answer : AnswerType, said : {"nothing", "prompt", "console"},
     lost : BOOLEAN, ran : BOOLEAN, now : UNION {Altered(c) : c \in HookCalls},
     failure : BOOLEAN, found : Nat,
     shown : {"nothing", "plain", "masked", "withheld", "unhooked"}]

DecisionAt(i) == i \in 1..Len(trail) /\ trail[i].kind = "Decision"

\* writ decided the call so that it may run, given what people said.
LetThrough(c) ==
    /\ DecisionAt(turn[c].own)
    /\ \/ Verdict(turn[c].own) = "allow"
       \/ Verdict(turn[c].own) \in {"redact", "ask"} /\ Maskable(c)
    /\ Verdict(turn[c].own) = "ask" => turn[c].said \in {"prompt", "console"}

\* A record is a decision of its call, or the execution its post hook wrote.
TrailOK(i) ==
    LET r == trail[i] IN
    /\ r.call \in HookCalls /\ r.kind \in {"Decision", "Execution"}
    /\ r.kind = "Decision" =>
          /\ r.of = i /\ turn[r.call].own = i
          /\ r.verdicts \in [Candidates(r.call) -> Kinds] /\ r.verdict = Strictest(r.verdicts)
    /\ r.kind = "Execution" =>
          /\ r.of < i /\ DecisionAt(r.of)
          /\ turn[r.call].pc = "over" /\ turn[r.call].found = r.of

\* The answer of a pre hook, and what it rests on.
ReplyOK(c) ==
    \/ turn[c].answer = DenyAnswer(Fmt(c)) /\ turn[c].said = "nothing"
    \/ /\ turn[c].answer = AskAnswer /\ turn[c].said = "nothing"
       /\ DecisionAt(turn[c].own) /\ Verdict(turn[c].own) = "ask"
       /\ Prompts(c) /\ agent.mode = "defer"
    \/ turn[c].answer = AllowAnswer(Fmt(c)) /\ LetThrough(c)

TurnOK(c) ==
    LET q == turn[c] IN
    /\ q.own # 0 => DecisionAt(q.own) /\ trail[q.own].call = c
    /\ q.found # 0 => DecisionAt(q.found)
    /\ q.pc # "new" => agent # NoAgent /\ Fmt(c) = agent.format
    /\ q.pc = "new" => q.own = 0
    /\ q.own = 0 => q.pc \in {"new", "answered", "blocked"}
    /\ q.pc \in {"new", "decided", "console"} => q.said = "nothing"
    /\ q.pc \in {"new", "decided", "console", "answered", "blocked"} =>
          ~q.ran /\ ~q.lost /\ q.found = 0 /\ q.shown = "nothing"
    /\ q.pc = "console" => Verdict(q.own) = "ask" /\ Prompts(c) /\ agent.mode = "ui"
    /\ q.pc = "answered" => ReplyOK(c)
    /\ q.ran /\ ~q.lost => LetThrough(c)
    /\ q.pc \in {"ran", "located", "over"} => q.ran
    /\ q.pc = "ran" => q.found = 0 /\ q.shown = "nothing"
    /\ q.pc = "located" => q.found # 0 /\ q.shown = "nothing"
    /\ q.said = "console" => agent.mode = "ui" /\ DecisionAt(q.own) /\ Verdict(q.own) = "ask"
    /\ q.said = "prompt" => agent.mode = "defer"

FoundOK(c) ==
    turn[c].found \notin {0, turn[c].own} =>
       /\ ~HasId(c)
       /\ LooksLike(trail[turn[c].found].call, c)
       /\ \/ turn[c].found > turn[c].own \/ HasRun(turn[c].own)
          \/ ~LooksLike(c, c)

MaskedOK(c) ==
    /\ turn[c].shown = "plain" /\ ~turn[c].lost
    /\ turn[c].own # 0 /\ Verdict(turn[c].own) = "redact"
    => \/ turn[c].found \notin {0, turn[c].own}
       \/ Fmt(c) = "cursor" /\ turn[c].failure

NamedOK(i) ==
    trail[i].kind = "Execution" =>
       LET c == trail[i].call IN
       \/ trail[i].approver = "none" /\ Verdict(trail[i].of) \in {"allow", "redact"}
       \/ trail[i].approver = turn[c].said /\ Verdict(trail[i].of) = "ask"
       \/ turn[c].found # turn[c].own \/ turn[c].lost

HookInd ==
    /\ agent \in {NoAgent} \cup [format : HookFormats, mode : AskModes]
    /\ IsSeq(trail) /\ turn \in [HookCalls -> TurnType]
    /\ \A i \in 1..Len(trail) : TrailOK(i) /\ NamedOK(i)
    /\ \A c \in HookCalls : TurnOK(c) /\ FoundOK(c) /\ MaskedOK(c)
    /\ \A i \in consoleOk : DecisionAt(i) /\ turn[trail[i].call].said = "console"
-----------------------------------------------------------------------------
\* The strictest verdict of a call is one of its verdicts, and no other is
\* stricter.
LEMMA StrictestFacts ==
    ASSUME NEW S, S # {}, NEW vs \in [S -> Kinds]
    PROVE  /\ Strictest(vs) \in Kinds
           /\ \A p \in S : Severity(vs[p]) <= Severity(Strictest(vs))
  <1> DEFINE Top(k) == k \in {vs[p] : p \in DOMAIN vs}
                       /\ \A p \in DOMAIN vs : Severity(vs[p]) <= Severity(k)
  <1>1. DOMAIN vs = S /\ \A p \in S : vs[p] \in Kinds
    OBVIOUS
  <1>2. \E k : Top(k)
    <2>1. CASE \E p \in S : vs[p] = "deny"
      BY <1>1, <2>1 DEF Kinds, Severity
    <2>2. CASE (\A p \in S : vs[p] # "deny") /\ \E p \in S : vs[p] = "ask"
      BY <1>1, <2>2 DEF Kinds, Severity
    <2>3. CASE (\A p \in S : vs[p] \notin {"deny", "ask"}) /\ \E p \in S : vs[p] = "redact"
      BY <1>1, <2>3 DEF Kinds, Severity
    <2>4. CASE \A p \in S : vs[p] = "allow"
      BY <1>1, <2>4 DEF Kinds, Severity
    <2> QED BY <1>1, <2>1, <2>2, <2>3, <2>4 DEF Kinds
  <1>3. Top(Strictest(vs))
    BY <1>2 DEF Strictest
  <1> QED BY <1>1, <1>3

\* A denial stops the call in every agent and through every shell; an allow
\* is never taken for a question.
LEMMA AgentsHear ==
    ASSUME NEW format \in HookFormats
    PROVE  /\ \A a \in ThroughShell(format, DenyAnswer(format)) :
                  ~Runs2(format, a) /\ a.json # "ask"
           /\ \A a \in ThroughShell(format, AllowAnswer(format)) : a.json # "ask"
           /\ DenyAnswer(format) \in AnswerType /\ AllowAnswer(format) \in AnswerType
           /\ AskAnswer \in AnswerType
  BY DEF ThroughShell, DenyAnswer, AllowAnswer, AskAnswer, Runs2, HookFormats, AnswerType

\* A call has something to decide on.
LEMMA SomeCandidate ==
    ASSUME NEW c
    PROVE  Candidates(c) # {}
  BY DEF Candidates

\* The trail grows, and the agent stays the one that was first seen.
Grown ==
    /\ IsSeq(trail') /\ Len(trail) <= Len(trail')
    /\ \A i \in 1..Len(trail) : trail'[i] = trail[i]
    /\ agent' \in {NoAgent} \cup [format : HookFormats, mode : AskModes]
    /\ agent # NoAgent => agent' = agent

\* Decisions stay decisions, and what has run has run.
LEMMA DecisionsStay ==
    ASSUME HookInd, Grown
    PROVE  /\ \A i : DecisionAt(i) => DecisionAt(i)' /\ trail'[i] = trail[i]
           /\ \A i : HasRun(i) => HasRun(i)'
  <1>1. /\ Len(trail) \in Nat /\ Len(trail') \in Nat
        /\ DOMAIN trail = 1..Len(trail) /\ DOMAIN trail' = 1..Len(trail')
    BY SeqFacts DEF HookInd, Grown
  <1> QED BY <1>1 DEF DecisionAt, HasRun, Grown

\* What a call looks like depends on the input that ran alone.
LEMMA LooksSame ==
    ASSUME NEW c \in HookCalls, turn'[c].now = turn[c].now
    PROVE  \A d : LooksLike(d, c)' <=> LooksLike(d, c)
  BY DEF LooksLike, SameCall, SameMcpCall, Fmt

\* A call that does not move keeps what is known of it.
LEMMA TurnStays ==
    ASSUME HookInd, Grown, NEW d \in HookCalls, turn'[d] = turn[d]
    PROVE  TurnOK(d)' /\ FoundOK(d)' /\ MaskedOK(d)'
  <1>1. PICK q : q = turn[d] /\ q = turn'[d]
    OBVIOUS
  <1>2. /\ \A i : DecisionAt(i) => DecisionAt(i)' /\ trail'[i] = trail[i]
        /\ \A i : HasRun(i) => HasRun(i)'
    BY DecisionsStay
  <1>3. TurnOK(d) /\ FoundOK(d) /\ MaskedOK(d) /\ q \in TurnType
    BY <1>1 DEF HookInd
  <1>4. q.pc = "new" \/ agent' = agent
    BY <1>1, <1>3 DEF TurnOK, Grown
  <1>5. LetThrough(d) => LetThrough(d)'
    BY <1>1, <1>2 DEF LetThrough, Verdict
  <1>6. q.own # 0 => DecisionAt(q.own) /\ DecisionAt(q.own)' /\ trail'[q.own] = trail[q.own]
                     /\ trail[q.own].call = d
    BY <1>1, <1>2, <1>3 DEF TurnOK
  <1>7. q.found # 0 => DecisionAt(q.found) /\ DecisionAt(q.found)' /\ trail'[q.found] = trail[q.found]
    BY <1>1, <1>2, <1>3 DEF TurnOK
  <1>8. q.pc = "answered" /\ ReplyOK(d) => ReplyOK(d)'
    BY <1>1, <1>2, <1>4, <1>5 DEF ReplyOK, Verdict
  <1>9. TurnOK(d)'
    <2>1. q.pc = "console" => Verdict(q.own)' = Verdict(q.own)
      BY <1>1, <1>3, <1>6 DEF TurnOK, Verdict
    <2>2. q.said = "console" => DecisionAt(q.own)' /\ Verdict(q.own)' = Verdict(q.own)
      BY <1>1, <1>2, <1>3 DEF TurnOK, Verdict
    <2>3. q.pc = "new" => q.said = "nothing"
      BY <1>1, <1>3 DEF TurnOK
    <2> QED BY <1>1, <1>3, <1>4, <1>5, <1>6, <1>7, <1>8, <2>1, <2>2, <2>3 DEF TurnOK
  <1>10. FoundOK(d)'
    BY <1>1, <1>2, <1>3, <1>7, LooksSame DEF FoundOK, HasId, Fmt
  <1>11. MaskedOK(d)'
    BY <1>1, <1>3, <1>6 DEF MaskedOK, Verdict
  <1> QED BY <1>9, <1>10, <1>11

\* One call moves: what has to be known of it, and of the records it adds.
LEMMA OneMoves ==
    ASSUME HookInd, Grown, NEW c \in HookCalls,
           turn' \in [HookCalls -> TurnType], \A d \in HookCalls \ {c} : turn'[d] = turn[d],
           turn[c].pc # "over", turn[c].own \in {0, turn'[c].own},
           turn[c].said = "console" => turn'[c].said = "console",
           \A i \in 1..Len(trail') : i \notin 1..Len(trail) => TrailOK(i)' /\ NamedOK(i)',
           TurnOK(c)', FoundOK(c)', MaskedOK(c)',
           \A i \in consoleOk' : i \in consoleOk \/ (DecisionAt(i)' /\ turn'[trail'[i].call].said = "console")
    PROVE  HookInd'
  <1>1. \A i : DecisionAt(i) => DecisionAt(i)' /\ trail'[i] = trail[i]
    BY DecisionsStay
  <1>2. ASSUME NEW i \in 1..Len(trail) PROVE TrailOK(i)' /\ NamedOK(i)'
    <2>1. TrailOK(i) /\ NamedOK(i) /\ trail'[i] = trail[i]
      BY DEF HookInd, Grown
    <2>2. PICK r : r = trail[i] /\ r = trail'[i]
      BY <2>1
    <2>3. r.call \in HookCalls /\ r.kind \in {"Decision", "Execution"}
      BY <2>1, <2>2 DEF TrailOK
    <2>4. CASE r.kind = "Decision"
      <3>1. i = turn[r.call].own /\ i # 0
        BY <2>1, <2>2, <2>4 DEF TrailOK
      <3>2. turn'[r.call].own = i
        BY <2>3, <3>1
      <3> QED BY <2>1, <2>2, <2>4, <3>2 DEF TrailOK, NamedOK
    <2>5. CASE r.kind = "Execution"
      <3>1. r.call # c /\ turn'[r.call] = turn[r.call]
        BY <2>1, <2>2, <2>3, <2>5 DEF TrailOK
      <3>2. r.of < i /\ DecisionAt(r.of)' /\ trail'[r.of] = trail[r.of]
        BY <1>1, <2>1, <2>2, <2>5 DEF TrailOK
      <3>3. TrailOK(i)'
        BY <2>1, <2>2, <2>5, <3>1, <3>2 DEF TrailOK
      <3>4. NamedOK(i)'
        BY <2>1, <2>2, <2>5, <3>1, <3>2 DEF NamedOK, Verdict
      <3> QED BY <3>3, <3>4
    <2> QED BY <2>3, <2>4, <2>5
  <1>3. ASSUME NEW d \in HookCalls PROVE TurnOK(d)' /\ FoundOK(d)' /\ MaskedOK(d)'
    BY TurnStays
  <1>4. ASSUME NEW i \in consoleOk PROVE DecisionAt(i)' /\ turn'[trail'[i].call].said = "console"
    <2>1. DecisionAt(i) /\ DecisionAt(i)' /\ trail'[i] = trail[i] /\ turn[trail[i].call].said = "console"
      BY <1>1 DEF HookInd
    <2>2. trail[i].call \in HookCalls
      BY <2>1 DEF HookInd, TrailOK, DecisionAt
    <2> QED BY <2>1, <2>2
  <1> QED BY <1>2, <1>3, <1>4 DEF HookInd, Grown
-----------------------------------------------------------------------------
(***************************************************************************)
(* The steps of the pre hooks.                                             *)
(***************************************************************************)
LEMMA HookIndInit == HookInit => HookInd
  <1> SUFFICES ASSUME HookInit PROVE HookInd
    OBVIOUS
  <1>1. trail \in Seq({}) /\ Len(trail) = 0
    BY DEF HookInit
  <1>2. IsSeq(trail)
    BY <1>1, IsSeqIntro
  <1>3. \A c \in HookCalls : NewTurn(c) \in TurnType
    BY DEF NewTurn, TurnType, Unanswered, AnswerType, Altered
  <1>4. turn = [c \in HookCalls |-> NewTurn(c)] /\ consoleOk = {} /\ agent = NoAgent
    BY DEF HookInit
  <1>5. ASSUME NEW c \in HookCalls PROVE TurnOK(c) /\ FoundOK(c) /\ MaskedOK(c)
    BY <1>4 DEF NewTurn, TurnOK, FoundOK, MaskedOK
  <1> QED BY <1>1, <1>2, <1>3, <1>4, <1>5 DEF HookInd

\* While nothing is recorded, the trail and the agent stay.
LEMMA TrailSame ==
    ASSUME HookInd, UNCHANGED <<agent, trail>>
    PROVE  /\ Grown
           /\ \A i \in 1..Len(trail') : i \notin 1..Len(trail) => TrailOK(i)' /\ NamedOK(i)'
           /\ \A i : DecisionAt(i)' <=> DecisionAt(i)
  <1>1. Len(trail) \in Nat
    BY SeqFacts DEF HookInd
  <1> QED BY <1>1 DEF HookInd, Grown, DecisionAt

\* A record of this kind at the end of the trail makes it grow by one.
LEMMA TrailLonger ==
    ASSUME HookInd, NEW r, trail' = Append(trail, r),
           agent' \in [format : HookFormats, mode : AskModes],
           agent # NoAgent => agent' = agent
    PROVE  /\ Grown
           /\ Len(trail) \in Nat /\ Len(trail') = Len(trail) + 1 /\ trail'[Len(trail) + 1] = r
           /\ \A i \in 1..Len(trail') : i \notin 1..Len(trail) => i = Len(trail) + 1
  <1>1. /\ Len(trail) \in Nat /\ IsSeq(trail') /\ Len(trail') = Len(trail) + 1
        /\ trail'[Len(trail) + 1] = r /\ \A i \in 1..Len(trail) : trail'[i] = trail[i]
    BY SeqFacts, AppendFacts DEF HookInd
  <1> QED BY <1>1 DEF Grown

\* A pre hook decides: the decision is the next record.
LEMMA PreDecideStep ==
    ASSUME HookInd, HookAgentsAssumption, NEW c \in HookCalls, NEW mode \in AskModes,
           PreDecide(c, mode)
    PROVE  HookInd'
  <1>1. PICK vs \in [Candidates(c) -> Kinds] :
           trail' = Append(trail, [kind |-> "Decision", call |-> c, verdict |-> Strictest(vs),
                                  verdicts |-> vs, approver |->
                                     IF Strictest(vs) = "ask" /\ mode = "deny" THEN "fail-closed" ELSE "none",
                                  of |-> Len(trail) + 1])
    BY DEF PreDecide
  <1>2. PICK r : /\ trail' = Append(trail, r) /\ r.kind = "Decision" /\ r.call = c
                 /\ r.verdict = Strictest(vs) /\ r.verdicts = vs /\ r.of = Len(trail) + 1
    BY <1>1
  <1>3. Fmt(c) \in HookFormats
    BY DEF HookAgentsAssumption, Fmt
  <1>4. /\ agent' = [format |-> Fmt(c), mode |-> mode] /\ consoleOk' = consoleOk
        /\ turn' = [turn EXCEPT ![c].pc = "decided", ![c].own = Len(trail) + 1]
        /\ turn[c].pc = "new"
        /\ agent # NoAgent => agent.format = Fmt(c) /\ agent.mode = mode
    BY DEF PreDecide, MayBegin, Stage
  <1>5. agent' \in [format : HookFormats, mode : AskModes] /\ (agent # NoAgent => agent' = agent)
    BY <1>3, <1>4 DEF HookInd
  <1>6. agent' # NoAgent /\ agent'.format = Fmt(c)
    BY <1>4, <1>5 DEF HookAgentsAssumption
  <1>7. PICK n : /\ n = Len(trail) + 1 /\ n \in Nat \ {0} /\ n = Len(trail')
               /\ Grown /\ trail'[n] = r
               /\ \A i \in 1..Len(trail') : i \notin 1..Len(trail) => i = n
    BY <1>2, <1>5, TrailLonger
  <1>8. /\ turn \in [HookCalls -> TurnType] /\ TurnOK(c) /\ turn[c] \in TurnType
    BY DEF HookInd
  <1>9. /\ turn' \in [HookCalls -> TurnType] /\ \A d \in HookCalls \ {c} : turn'[d] = turn[d]
        /\ turn'[c] = [turn[c] EXCEPT !.pc = "decided", !.own = n]
    BY <1>4, <1>7, <1>8 DEF TurnType
  <1>10. PICK q : q = turn'[c] /\ q = [turn[c] EXCEPT !.pc = "decided", !.own = n]
    BY <1>9
  <1>11. /\ q.pc = "decided" /\ q.own = n /\ q.said = "nothing" /\ q.ran = FALSE
         /\ q.lost = FALSE /\ q.found = 0 /\ q.shown = "nothing" /\ turn[c].own = 0
         /\ turn[c].said = "nothing"
    BY <1>4, <1>8, <1>10 DEF TurnType, TurnOK
  <1>12. DecisionAt(n)'
    BY <1>2, <1>7 DEF DecisionAt
  <1>13. TurnOK(c)' /\ FoundOK(c)' /\ MaskedOK(c)'
    BY <1>2, <1>6, <1>7, <1>10, <1>11, <1>12 DEF TurnOK, FoundOK, MaskedOK
  <1>14. TrailOK(n)' /\ NamedOK(n)'
    <2>1. /\ trail'[n].kind = "Decision" /\ trail'[n].call = c /\ trail'[n].of = n
          /\ trail'[n].verdicts = vs /\ trail'[n].verdict = Strictest(vs)
          /\ turn'[c].own = n
      BY <1>2, <1>7, <1>10, <1>11
    <2>2. Candidates(c)' = Candidates(c)
      BY DEF Candidates
    <2> QED BY <2>1, <2>2 DEF TrailOK, NamedOK
  <1> QED BY <1>4, <1>7, <1>9, <1>10, <1>11, <1>13, <1>14, OneMoves

\* An answer that denies, before or after the decision.
LEMMA DenialSent ==
    ASSUME HookInd, HookAgentsAssumption, NEW c \in HookCalls,
           Answers(c, DenyAnswer(Fmt(c))), UNCHANGED <<agent, trail, consoleOk>>,
           agent # NoAgent, Fmt(c) = agent.format, turn[c].pc \in {"new", "decided", "console"}
    PROVE  HookInd'
  <1>1. turn \in [HookCalls -> TurnType] /\ TurnOK(c) /\ turn[c] \in TurnType
    BY DEF HookInd
  <1>2. DenyAnswer(Fmt(c)) \in AnswerType
    BY AgentsHear DEF HookAgentsAssumption, Fmt
  <1>3. PICK q : q = [turn[c] EXCEPT !.pc = "answered", !.answer = DenyAnswer(Fmt(c))]
    OBVIOUS
  <1>4. turn' \in [HookCalls -> TurnType] /\ q = turn'[c] /\ \A d \in HookCalls \ {c} : turn'[d] = turn[d]
    BY <1>1, <1>2, <1>3 DEF Answers, TurnType
  <1>5. /\ q.pc = "answered" /\ q.answer = DenyAnswer(Fmt(c)) /\ q.own = turn[c].own
        /\ q.said = "nothing" /\ q.ran = FALSE /\ q.lost = FALSE /\ q.found = 0
        /\ q.shown = "nothing" /\ turn[c].said = "nothing"
    BY <1>1, <1>3 DEF TurnType, TurnOK
  <1>6. /\ Grown
        /\ \A i \in 1..Len(trail') : i \notin 1..Len(trail) => TrailOK(i)' /\ NamedOK(i)'
        /\ \A i : DecisionAt(i)' <=> DecisionAt(i)
    BY TrailSame
  <1>7. TurnOK(c)' /\ FoundOK(c)' /\ MaskedOK(c)'
    BY <1>1, <1>4, <1>5, <1>6 DEF TurnOK, FoundOK, MaskedOK, ReplyOK
  <1> QED BY <1>4, <1>5, <1>6, <1>7, OneMoves

LEMMA PreErrorStep ==
    ASSUME HookInd, HookAgentsAssumption, NEW c \in HookCalls, PreError(c)
    PROVE  HookInd'
  BY DenialSent DEF PreError, MayBegin, Stage

\* What is decided has one of the four verdicts.
LEMMA VerdictFacts ==
    ASSUME HookInd, NEW i, DecisionAt(i)
    PROVE  /\ Verdict(i) \in Kinds /\ trail[i].call \in HookCalls /\ turn[trail[i].call].own = i
           /\ \A p \in Candidates(trail[i].call) : Severity(trail[i].verdicts[p]) <= Severity(Verdict(i))
           /\ trail[i].verdicts \in [Candidates(trail[i].call) -> Kinds]
  <1>1. /\ trail[i].call \in HookCalls /\ turn[trail[i].call].own = i
        /\ trail[i].verdicts \in [Candidates(trail[i].call) -> Kinds]
        /\ trail[i].verdict = Strictest(trail[i].verdicts)
    BY DEF HookInd, DecisionAt, TrailOK
  <1> QED BY <1>1, StrictestFacts, SomeCandidate DEF Verdict

\* The answer a pre hook gives a verdict, in every format.
PreReply(c, v) ==
    CASE Fmt(c) = "codex" -> CodexPre(v)
      [] Fmt(c) = "gemini" -> GeminiPre(v)
      [] Fmt(c) = "cursor" -> IF HookCallOf[c].mcp THEN CursorMcpPre(v)
                              ELSE CursorPre(v, HookCallOf[c].server)
      [] OTHER -> WindsurfPre(v)

\* Where an agent prompts, its hooks can replace outputs.
LEMMA PromptsMask ==
    ASSUME HookAgentsAssumption, NEW c \in HookCalls, Prompts(c)
    PROVE  Maskable(c)
  BY DEF HookAgentsAssumption, Prompts, Maskable, Fmt

\* Every pre hook denies, unless the verdict lets the call run or may be
\* asked about; a question is put to who can answer it.
LEMMA PreReplyFacts ==
    ASSUME HookAgentsAssumption, NEW c \in HookCalls, NEW v \in Kinds
    PROVE  \/ PreReply(c, v) = DenyAnswer(Fmt(c))
           \/ PreReply(c, v) = Wait /\ v = "ask" /\ Prompts(c) /\ agent.mode = "ui"
           \/ PreReply(c, v) = AskAnswer /\ v = "ask" /\ Prompts(c) /\ agent.mode = "defer"
           \/ PreReply(c, v) = AllowAnswer(Fmt(c)) /\ (v = "allow" \/ (v = "redact" /\ Maskable(c)))
  <1>0. Fmt(c) \in HookFormats
    BY DEF HookAgentsAssumption, Fmt
  <1>1. CASE Fmt(c) = "codex"
    BY <1>1 DEF PreReply, CodexPre, Kinds, Maskable
  <1>2. CASE Fmt(c) = "gemini"
    <2>1. PreReply(c, v) = GeminiPre(v)
      BY <1>2 DEF PreReply
    <2>2. Prompts(c) /\ Maskable(c)
      BY <1>2 DEF Prompts, Maskable
    <2> QED BY <1>2, <2>1, <2>2 DEF GeminiPre, ByMode, Kinds
  <1>3. CASE Fmt(c) = "cursor"
    <2>1. CASE HookCallOf[c].mcp
      <3>1. PreReply(c, v) = CursorMcpPre(v)
        BY <1>3, <2>1 DEF PreReply
      <3>2. Prompts(c) /\ Maskable(c)
        BY <1>3, <2>1, PromptsMask DEF Prompts
      <3> QED BY <1>3, <3>1, <3>2 DEF CursorMcpPre, ByMode, Kinds
    <2>2. CASE ~HookCallOf[c].mcp
      <3>1. PreReply(c, v) = CursorPre(v, HookCallOf[c].server)
        BY <1>3, <2>2 DEF PreReply
      <3> QED BY <1>3, <3>1 DEF CursorPre, Maskable
    <2> QED BY <2>1, <2>2
  <1>4. CASE Fmt(c) = "windsurf"
    BY <1>4 DEF PreReply, WindsurfPre
  <1> QED BY <1>0, <1>1, <1>2, <1>3, <1>4 DEF HookFormats

\* A pre hook answers by its verdict, or turns to the console.
LEMMA PreAnswerStep ==
    ASSUME HookInd, HookAgentsAssumption, NEW c \in HookCalls, PreAnswer(c)
    PROVE  HookInd'
  <1>1. turn \in [HookCalls -> TurnType] /\ TurnOK(c) /\ turn[c] \in TurnType
    BY DEF HookInd
  <1>2. PICK a : /\ a = PreReply(c, Verdict(turn[c].own))
                 /\ turn[c].pc = "decided" /\ UNCHANGED <<agent, trail, consoleOk>>
                 /\ IF a = Wait THEN turn' = [turn EXCEPT ![c].pc = "console"] ELSE Answers(c, a)
    BY DEF PreAnswer, PreReply, Stage
  <1>3. agent # NoAgent /\ Fmt(c) = agent.format /\ DecisionAt(turn[c].own) /\ turn[c].own # 0
    BY <1>1, <1>2 DEF TurnOK
  <1>4. Verdict(turn[c].own) \in Kinds
    BY <1>3, VerdictFacts
  <1>5. CASE a = DenyAnswer(Fmt(c))
    <2>1. a # Wait
      BY <1>5 DEF DenyAnswer, Wait
    <2> QED BY <1>2, <1>3, <1>5, <2>1, DenialSent
  <1>6. CASE a # DenyAnswer(Fmt(c))
    <2> DEFINE v == Verdict(turn[c].own)
    <2>1. \/ a = Wait /\ v = "ask" /\ Prompts(c) /\ agent.mode = "ui"
          \/ a = AskAnswer /\ v = "ask" /\ Prompts(c) /\ agent.mode = "defer"
          \/ a = AllowAnswer(Fmt(c)) /\ (v = "allow" \/ (v = "redact" /\ Maskable(c)))
      BY <1>2, <1>4, <1>6, PreReplyFacts
    <2>2. AskAnswer # Wait /\ AllowAnswer(Fmt(c)) # Wait
      BY DEF AskAnswer, AllowAnswer, Wait
    <2>3. Fmt(c) \in HookFormats
      BY DEF HookAgentsAssumption, Fmt
    <2>4. a = Wait \/ a \in AnswerType
      BY <2>1, <2>3, AgentsHear
    <2>5. PICK q : q = IF a = Wait THEN [turn[c] EXCEPT !.pc = "console"]
                       ELSE [turn[c] EXCEPT !.pc = "answered", !.answer = a]
      OBVIOUS
    <2>6. turn' \in [HookCalls -> TurnType] /\ q = turn'[c] /\ \A d \in HookCalls \ {c} : turn'[d] = turn[d]
      <3>1. CASE a = Wait
        <4>1. turn' = [turn EXCEPT ![c].pc = "console"] /\ q = [turn[c] EXCEPT !.pc = "console"]
          BY <1>2, <2>5, <3>1
        <4> QED BY <1>1, <4>1 DEF TurnType
      <3>2. CASE a # Wait
        <4>1. /\ turn' = [turn EXCEPT ![c].pc = "answered", ![c].answer = a] /\ a \in AnswerType
              /\ q = [turn[c] EXCEPT !.pc = "answered", !.answer = a]
          BY <1>2, <2>4, <2>5, <3>2 DEF Answers
        <4> QED BY <1>1, <4>1 DEF TurnType
      <3> QED BY <3>1, <3>2
    <2>7. /\ q.own = turn[c].own /\ q.said = "nothing" /\ q.ran = FALSE /\ q.lost = FALSE
          /\ q.found = 0 /\ q.shown = "nothing" /\ turn[c].said = "nothing"
          /\ (q.pc = "console" /\ a = Wait) \/ (q.pc = "answered" /\ q.answer = a /\ a # Wait)
      BY <1>1, <1>2, <2>5 DEF TurnType, TurnOK
    <2>8. /\ Grown
          /\ \A i \in 1..Len(trail') : i \notin 1..Len(trail) => TrailOK(i)' /\ NamedOK(i)'
          /\ \A i : DecisionAt(i)' <=> DecisionAt(i)
      BY <1>2, TrailSame
    <2>9. q.pc = "answered" => ReplyOK(c)'
      BY <1>2, <1>3, <2>1, <2>2, <2>6, <2>7, <2>8 DEF ReplyOK, LetThrough, Verdict
    <2>10. TurnOK(c)' /\ FoundOK(c)' /\ MaskedOK(c)'
      BY <1>1, <1>2, <1>3, <2>1, <2>2, <2>6, <2>7, <2>8, <2>9 DEF TurnOK, FoundOK, MaskedOK, Verdict
    <2> QED BY <1>2, <2>6, <2>7, <2>8, <2>10, OneMoves
  <1> QED BY <1>5, <1>6

\* The console approves, or the hook denies.
LEMMA PreConsoleStep ==
    ASSUME HookInd, HookAgentsAssumption, NEW c \in HookCalls, PreConsole(c)
    PROVE  HookInd'
  <1>1. turn \in [HookCalls -> TurnType] /\ TurnOK(c) /\ turn[c] \in TurnType
    BY DEF HookInd
  <1>2. turn[c].pc = "console" /\ UNCHANGED <<agent, trail>>
    BY DEF PreConsole, Stage
  <1>3. /\ agent # NoAgent /\ Fmt(c) = agent.format /\ DecisionAt(turn[c].own) /\ turn[c].own # 0
        /\ trail[turn[c].own].call = c
        /\ Verdict(turn[c].own) = "ask" /\ Prompts(c) /\ agent.mode = "ui"
    BY <1>1, <1>2 DEF TurnOK
  <1>4. CASE Answers(c, DenyAnswer(Fmt(c))) /\ UNCHANGED consoleOk
    BY <1>2, <1>3, <1>4, DenialSent
  <1>5. CASE /\ consoleOk' = consoleOk \cup {turn[c].own}
             /\ turn' = [turn EXCEPT ![c].pc = "answered", ![c].answer = AllowAnswer(Fmt(c)),
                                     ![c].said = "console"]
    <2>1. AllowAnswer(Fmt(c)) \in AnswerType
      BY AgentsHear DEF HookAgentsAssumption, Fmt
    <2>2. PICK q : q = [turn[c] EXCEPT !.pc = "answered", !.answer = AllowAnswer(Fmt(c)), !.said = "console"]
      OBVIOUS
    <2>3. turn' \in [HookCalls -> TurnType] /\ q = turn'[c] /\ \A d \in HookCalls \ {c} : turn'[d] = turn[d]
      BY <1>1, <1>5, <2>1, <2>2 DEF TurnType
    <2>4. /\ q.own = turn[c].own /\ q.said = "console" /\ q.ran = FALSE /\ q.lost = FALSE
          /\ q.found = 0 /\ q.shown = "nothing" /\ turn[c].said = "nothing"
          /\ q.pc = "answered" /\ q.answer = AllowAnswer(Fmt(c))
      BY <1>1, <1>2, <2>2 DEF TurnType, TurnOK
    <2>5. /\ Grown
          /\ \A i \in 1..Len(trail') : i \notin 1..Len(trail) => TrailOK(i)' /\ NamedOK(i)'
          /\ \A i : DecisionAt(i)' <=> DecisionAt(i)
      BY <1>2, TrailSame
    <2>6. Maskable(c)
      BY <1>3, PromptsMask
    <2>7. LetThrough(c)'
      BY <1>2, <1>3, <2>3, <2>4, <2>5, <2>6 DEF LetThrough, Verdict, Maskable, Fmt
    <2>8. TurnOK(c)' /\ FoundOK(c)' /\ MaskedOK(c)'
      BY <1>1, <1>2, <1>3, <2>3, <2>4, <2>5, <2>7 DEF TurnOK, FoundOK, MaskedOK, ReplyOK, Verdict
    <2>9. ASSUME NEW i \in consoleOk'
          PROVE  i \in consoleOk \/ (DecisionAt(i)' /\ turn'[trail'[i].call].said = "console")
      BY <1>2, <1>3, <1>5, <2>3, <2>4, <2>5
    <2> QED BY <1>2, <2>3, <2>4, <2>5, <2>8, <2>9, OneMoves
  <1> QED BY <1>4, <1>5 DEF PreConsole

\* A decision file that is removed takes nothing else with it.
LEMMA OnlyFilesGo ==
    ASSUME HookInd, UNCHANGED <<agent, trail, turn>>, consoleOk' \subseteq consoleOk
    PROVE  HookInd'
  <1>1. \A i \in 1..Len(trail)' : TrailOK(i)' /\ NamedOK(i)'
    BY DEF HookInd, TrailOK, NamedOK, DecisionAt, Verdict
  <1>2. \A c \in HookCalls : TurnOK(c)' /\ FoundOK(c)' /\ MaskedOK(c)'
    BY TrailSame, TurnStays DEF HookInd
  <1>3. \A i \in consoleOk' : DecisionAt(i)' /\ turn'[trail'[i].call].said = "console"
    BY DEF HookInd, DecisionAt
  <1> QED BY <1>1, <1>2, <1>3 DEF HookInd
-----------------------------------------------------------------------------
(***************************************************************************)
(* The agent, and the post hooks.                                          *)
(***************************************************************************)
\* A tool runs, with leave or because the hook was lost.
LEMMA ToolRuns ==
    ASSUME HookInd, HookAgentsAssumption, NEW c \in HookCalls, UNCHANGED <<agent, trail, consoleOk>>,
           turn[c].pc \in {"decided", "console", "answered"},
           NEW leave \in {"nothing", "prompt", "console"}, NEW lost \in BOOLEAN,
           RunTool(c, leave, lost), DecisionAt(turn[c].own), turn[c].own # 0,
           turn[c].said = "console" => leave = "console",
           lost \/ Verdict(turn[c].own) = "allow"
                \/ (Verdict(turn[c].own) \in {"redact", "ask"} /\ Maskable(c)),
           lost \/ (Verdict(turn[c].own) = "ask" => leave # "nothing"),
           leave = "console" => agent.mode = "ui" /\ Verdict(turn[c].own) = "ask",
           leave = "prompt" => agent.mode = "defer"
    PROVE  HookInd'
  <1>1. turn \in [HookCalls -> TurnType] /\ TurnOK(c) /\ turn[c] \in TurnType
    BY DEF HookInd
  <1>2. PICK input \in Altered(c), failure \in {f \in BOOLEAN : f => Fmt(c) = "cursor"} :
       turn' = [turn EXCEPT ![c] = [@ EXCEPT !.pc = "ran", !.ran = TRUE, !.said = leave,
                                      !.lost = lost, !.now = input, !.failure = failure]]
    BY DEF RunTool
  <1>3. PICK q : q = [turn[c] EXCEPT !.pc = "ran", !.ran = TRUE, !.said = leave,
                                      !.lost = lost, !.now = input, !.failure = failure]
    OBVIOUS
  <1>4. turn' \in [HookCalls -> TurnType] /\ q = turn'[c] /\ \A d \in HookCalls \ {c} : turn'[d] = turn[d]
    <2>1. input \in UNION {Altered(d) : d \in HookCalls}
      OBVIOUS
    <2>2. q \in TurnType
      BY <1>1, <1>3, <2>1 DEF TurnType
    <2> QED BY <1>1, <1>2, <1>3, <2>2
  <1>5. /\ q.pc = "ran" /\ q.ran = TRUE /\ q.said = leave /\ q.lost = lost /\ q.own = turn[c].own
        /\ q.found = 0 /\ q.shown = "nothing"
    BY <1>1, <1>3 DEF TurnType, TurnOK
  <1>6. /\ Grown
        /\ \A i \in 1..Len(trail') : i \notin 1..Len(trail) => TrailOK(i)' /\ NamedOK(i)'
        /\ \A i : DecisionAt(i)' <=> DecisionAt(i)
    BY TrailSame
  <1>7. lost \/ LetThrough(c)'
    BY <1>4, <1>5, <1>6 DEF LetThrough, Verdict, Maskable, Fmt
  <1>8. agent # NoAgent /\ Fmt(c) = agent.format /\ trail[q.own].call = c
    BY <1>1, <1>5 DEF TurnOK
  <1>9. TurnOK(c)' /\ FoundOK(c)' /\ MaskedOK(c)'
    BY <1>4, <1>5, <1>6, <1>7, <1>8 DEF TurnOK, FoundOK, MaskedOK, Verdict
  <1> QED BY <1>4, <1>5, <1>6, <1>9, OneMoves

\* The agent does not run the tool.
LEMMA ToolBlocked ==
    ASSUME HookInd, HookAgentsAssumption, NEW c \in HookCalls, UNCHANGED <<agent, trail, consoleOk>>,
           turn[c].pc \in {"decided", "console", "answered"},
           turn' = [turn EXCEPT ![c].pc = "blocked"]
    PROVE  HookInd'
  <1>1. turn \in [HookCalls -> TurnType] /\ TurnOK(c) /\ turn[c] \in TurnType
    BY DEF HookInd
  <1>2. PICK q : q = [turn[c] EXCEPT !.pc = "blocked"]
    OBVIOUS
  <1>3. turn' \in [HookCalls -> TurnType] /\ q = turn'[c] /\ \A d \in HookCalls \ {c} : turn'[d] = turn[d]
    BY <1>1, <1>2 DEF TurnType
  <1>4. /\ q.pc = "blocked" /\ q.said = turn[c].said /\ q.own = turn[c].own
        /\ q.ran = FALSE /\ q.lost = FALSE /\ q.found = 0 /\ q.shown = "nothing"
    BY <1>1, <1>2 DEF TurnType, TurnOK
  <1>5. /\ Grown
        /\ \A i \in 1..Len(trail') : i \notin 1..Len(trail) => TrailOK(i)' /\ NamedOK(i)'
        /\ \A i : DecisionAt(i)' <=> DecisionAt(i)
    BY TrailSame
  <1>6. TurnOK(c)' /\ FoundOK(c)' /\ MaskedOK(c)'
    BY <1>1, <1>3, <1>4, <1>5 DEF TurnOK, FoundOK, MaskedOK, Verdict
  <1> QED BY <1>3, <1>4, <1>5, <1>6, OneMoves

\* The agent does what it takes the answer for.
LEMMA AgentActsStep ==
    ASSUME HookInd, HookAgentsAssumption, NEW c \in HookCalls, AgentActs(c)
    PROVE  HookInd'
  <1>1. turn \in [HookCalls -> TurnType] /\ TurnOK(c) /\ turn[c] \in TurnType
    BY DEF HookInd
  <1>2. turn[c].pc = "answered" /\ UNCHANGED <<agent, trail, consoleOk>> /\ ReplyOK(c)
    BY <1>1 DEF AgentActs, Stage, TurnOK
  <1>3. PICK a \in ThroughShell(Fmt(c), turn[c].answer) :
          IF a.json = "ask" /\ Prompts(c)
          THEN RunTool(c, "prompt", FALSE) \/ turn' = [turn EXCEPT ![c].pc = "blocked"]
          ELSE IF Runs2(Fmt(c), a) THEN RunTool(c, turn[c].said, FALSE)
               ELSE turn' = [turn EXCEPT ![c].pc = "blocked"]
    BY DEF AgentActs
  <1>4. Fmt(c) \in HookFormats
    BY DEF HookAgentsAssumption, Fmt
  <1>5. CASE turn' = [turn EXCEPT ![c].pc = "blocked"]
    BY <1>2, <1>5, ToolBlocked
  <1>6. CASE turn[c].answer = DenyAnswer(Fmt(c))
    <2>1. ~Runs2(Fmt(c), a) /\ a.json # "ask"
      BY <1>3, <1>4, <1>6, AgentsHear
    <2> QED BY <1>3, <1>5, <2>1
  <1>7. CASE /\ turn[c].answer = AskAnswer /\ turn[c].said = "nothing"
             /\ DecisionAt(turn[c].own) /\ Verdict(turn[c].own) = "ask"
             /\ Prompts(c) /\ agent.mode = "defer"
    <2>1. a.json = "ask"
      BY <1>3, <1>7 DEF ThroughShell, AskAnswer
    <2>2. turn[c].own # 0
      BY <1>7 DEF DecisionAt
    <2>3. Maskable(c)
      BY <1>7, PromptsMask
    <2>4. CASE RunTool(c, "prompt", FALSE)
      BY <1>2, <1>7, <2>2, <2>3, <2>4, ToolRuns
    <2> QED BY <1>3, <1>5, <1>7, <2>1, <2>4
  <1>8. CASE turn[c].answer = AllowAnswer(Fmt(c)) /\ LetThrough(c)
    <2>1. a.json # "ask"
      BY <1>3, <1>4, <1>8, AgentsHear
    <2>2. DecisionAt(turn[c].own) /\ turn[c].own # 0
      BY <1>8 DEF LetThrough, DecisionAt
    <2>3. CASE RunTool(c, turn[c].said, FALSE)
      <3>1. PICK leave \in {"nothing", "prompt", "console"} : leave = turn[c].said
        BY <1>1 DEF TurnType
      <3>2. /\ leave = "console" => agent.mode = "ui" /\ Verdict(turn[c].own) = "ask"
            /\ leave = "prompt" => agent.mode = "defer"
        BY <1>1, <3>1 DEF TurnOK
      <3>3. /\ \/ Verdict(turn[c].own) = "allow"
               \/ Verdict(turn[c].own) \in {"redact", "ask"} /\ Maskable(c)
            /\ Verdict(turn[c].own) = "ask" => leave # "nothing"
        BY <1>8, <3>1 DEF LetThrough
      <3> QED BY <1>2, <2>2, <2>3, <3>1, <3>2, <3>3, ToolRuns
    <2> QED BY <1>3, <1>5, <2>1, <2>3
  <1> QED BY <1>2, <1>6, <1>7, <1>8 DEF ReplyOK

LEMMA PreLostStep ==
    ASSUME HookInd, HookAgentsAssumption, NEW c \in HookCalls, PreLost(c)
    PROVE  HookInd'
  <1>1. TurnOK(c) /\ turn[c].pc \in {"decided", "console"} /\ UNCHANGED <<agent, trail, consoleOk>>
    BY DEF HookInd, PreLost
  <1>2. turn[c].own # 0 /\ DecisionAt(turn[c].own) /\ turn[c].said = "nothing"
    BY <1>1 DEF TurnOK
  <1>3. CASE turn' = [turn EXCEPT ![c].pc = "blocked"]
    BY <1>1, <1>3, ToolBlocked
  <1>4. CASE RunTool(c, "nothing", TRUE)
    BY <1>1, <1>2, <1>4, ToolRuns
  <1> QED BY <1>3, <1>4 DEF PreLost

\* What every post hook finds, and what it leaves plain.
LEMMA PostFacts ==
    ASSUME HookAgentsAssumption, NEW c \in HookCalls
    PROVE  /\ Post(c).finds = IF HasId(c) THEN LocateById(c) ELSE LocateOpen(c)
           /\ {Post(c).fails, Post(c).done} \subseteq {"plain", "masked", "withheld"}
           /\ Maskable(c) /\ Post(c).fails = "plain" =>
                 (turn[c].found # 0 /\ ~Redacts(c)) \/ (Fmt(c) = "cursor" /\ turn[c].failure # FALSE)
           /\ Maskable(c) /\ Post(c).done = "plain" =>
                 ~Redacts(c) \/ (Fmt(c) = "cursor" /\ turn[c].failure # FALSE)
  <1>0. Fmt(c) \in HookFormats
    BY DEF HookAgentsAssumption, Fmt
  <1>1. CASE Fmt(c) = "codex"
    <2>1. Post(c) = CodexPost(c) /\ HasId(c)
      BY <1>1 DEF Post, HasId
    <2> QED BY <1>1, <2>1 DEF CodexPost
  <1>2. CASE Fmt(c) = "gemini"
    <2>1. Post(c) = GeminiPost(c) /\ ~HasId(c)
      BY <1>2 DEF Post, HasId
    <2> QED BY <1>2, <2>1 DEF GeminiPost
  <1>3. CASE Fmt(c) = "cursor"
    <2>1. Post(c) = CursorPost(c) /\ (HasId(c) <=> ~HookCallOf[c].mcp)
      BY <1>3 DEF Post, HasId
    <2>2. Maskable(c) => HookCallOf[c].mcp
      BY <1>3 DEF Maskable, HookAgentsAssumption, Fmt
    <2>3. CursorPost(c).finds = IF HookCallOf[c].mcp THEN LocateOpen(c) ELSE LocateById(c)
      BY DEF CursorPost
    <2>4. /\ CursorPost(c).fails \in {"plain", "masked"} /\ CursorPost(c).done \in {"plain", "masked"}
          /\ CursorPost(c).fails = "plain" =>
                ~(HookCallOf[c].mcp /\ ~turn[c].failure) \/ (turn[c].found # 0 /\ ~Redacts(c))
          /\ CursorPost(c).done = "plain" => ~(HookCallOf[c].mcp /\ ~turn[c].failure) \/ ~Redacts(c)
      BY DEF CursorPost
    <2>5. Post(c).finds = IF HasId(c) THEN LocateById(c) ELSE LocateOpen(c)
      BY <2>1, <2>3
    <2>6. {Post(c).fails, Post(c).done} \subseteq {"plain", "masked", "withheld"}
      BY <2>1, <2>4
    <2>7. /\ Maskable(c) /\ Post(c).fails = "plain" =>
                (turn[c].found # 0 /\ ~Redacts(c)) \/ turn[c].failure # FALSE
          /\ Maskable(c) /\ Post(c).done = "plain" => ~Redacts(c) \/ turn[c].failure # FALSE
      BY <2>1, <2>2, <2>4
    <2> QED BY <1>3, <2>5, <2>6, <2>7
  <1>4. CASE Fmt(c) = "windsurf"
    <2>1. Post(c) = WindsurfPost(c) /\ ~HasId(c) /\ ~Maskable(c)
      BY <1>4 DEF Post, HasId, Maskable
    <2>2. Post(c).finds = LocateOpen(c) /\ Post(c).fails = "plain" /\ Post(c).done = "plain"
      BY <2>1 DEF WindsurfPost
    <2> QED BY <2>1, <2>2
  <1> QED BY <1>0, <1>1, <1>2, <1>3, <1>4 DEF HookFormats

\* A redacted call whose output a post hook shows as it is has another
\* call's decision, or is a failure Cursor reports.
LEMMA PlainFacts ==
    ASSUME HookInd, HookAgentsAssumption, NEW c \in HookCalls, turn[c].ran, ~turn[c].lost,
           turn[c].own # 0, Verdict(turn[c].own) = "redact", turn[c].found \in {0, turn[c].own},
           \/ Post(c).fails = "plain"
           \/ Post(c).done = "plain" /\ turn[c].found # 0
    PROVE  Fmt(c) = "cursor" /\ turn[c].failure
  <1>1. TurnOK(c) /\ turn[c] \in TurnType
    BY DEF HookInd
  <1>2. Maskable(c)
    BY <1>1 DEF TurnOK, LetThrough
  <1>3. turn[c].found # 0 => Redacts(c)
    BY DEF Redacts
  <1>4. turn[c].failure \in BOOLEAN
    BY <1>1 DEF TurnType
  <1> QED BY <1>2, <1>3, <1>4, PostFacts

\* A post hook ends: it shows the output, and may have recorded the call.
LEMMA HookEnds ==
    ASSUME HookInd, HookAgentsAssumption, NEW c \in HookCalls, Grown, UNCHANGED <<agent, consoleOk>>,
           turn[c].pc \in {"ran", "located"}, turn' = Shows(c, turn'[c].shown),
           turn'[c].shown \in {"plain", "masked", "withheld", "unhooked"},
           turn'[c].shown = "plain" =>
              \/ Post(c).fails = "plain"
              \/ Post(c).done = "plain" /\ turn[c].found # 0,
           \A i \in 1..Len(trail') : i \notin 1..Len(trail) => TrailOK(i)' /\ NamedOK(i)'
    PROVE  HookInd'
  <1>1. turn \in [HookCalls -> TurnType] /\ TurnOK(c) /\ FoundOK(c) /\ turn[c] \in TurnType
    BY DEF HookInd
  <1>2. PICK what \in {"plain", "masked", "withheld", "unhooked"} : turn' = Shows(c, what) /\ what = turn'[c].shown
    OBVIOUS
  <1>3. PICK q : q = [turn[c] EXCEPT !.pc = "over", !.shown = what]
    OBVIOUS
  <1>4. turn' \in [HookCalls -> TurnType] /\ q = turn'[c] /\ \A d \in HookCalls \ {c} : turn'[d] = turn[d]
    BY <1>1, <1>2, <1>3 DEF TurnType, Shows
  <1>5. /\ q.pc = "over" /\ q.shown = what /\ q.own = turn[c].own /\ q.said = turn[c].said
        /\ q.ran = turn[c].ran /\ q.lost = turn[c].lost /\ q.found = turn[c].found
        /\ q.now = turn[c].now /\ q.failure = turn[c].failure
    BY <1>1, <1>3 DEF TurnType
  <1>6. /\ turn[c].ran /\ turn[c].own # 0 /\ DecisionAt(q.own) /\ trail[q.own].call = c
        /\ agent # NoAgent /\ Fmt(c) = agent.format
    BY <1>1, <1>5 DEF TurnOK
  <1>7. /\ \A i : DecisionAt(i) => DecisionAt(i)' /\ trail'[i] = trail[i]
        /\ \A i : HasRun(i) => HasRun(i)'
    BY DecisionsStay
  <1>8. LetThrough(c) => LetThrough(c)'
    BY <1>4, <1>5, <1>7 DEF LetThrough, Verdict, Maskable, Fmt
  <1>9. TurnOK(c)'
    BY <1>1, <1>4, <1>5, <1>6, <1>7, <1>8 DEF TurnOK, Verdict
  <1>10. FoundOK(c)'
    <2>1. q.found # 0 => trail'[q.found] = trail[q.found]
      BY <1>1, <1>5, <1>7 DEF TurnOK
    <2> QED BY <1>1, <1>4, <1>5, <1>7, <2>1, LooksSame DEF FoundOK, HasId, Fmt
  <1>11. MaskedOK(c)'
    <2>1. Verdict(q.own)' = Verdict(q.own)
      BY <1>6, <1>7 DEF Verdict
    <2>2. ASSUME what = "plain", ~q.lost, q.own # 0, Verdict(q.own) = "redact", q.found \in {0, q.own}
          PROVE  Fmt(c) = "cursor" /\ q.failure
      BY <1>2, <1>5, <1>6, <2>2, PlainFacts
    <2> QED BY <1>4, <1>5, <2>1, <2>2 DEF MaskedOK, Fmt
  <1> QED BY <1>4, <1>5, <1>9, <1>10, <1>11, OneMoves

LEMMA PostLostStep ==
    ASSUME HookInd, HookAgentsAssumption, NEW c \in HookCalls, PostLost(c)
    PROVE  HookInd'
  <1>1. turn \in [HookCalls -> TurnType]
    BY DEF HookInd
  <1>2. turn[c].pc \in {"ran", "located"} /\ UNCHANGED <<agent, trail, consoleOk>> /\ turn' = Shows(c, "unhooked")
    BY DEF PostLost, Shows
  <1>3. turn'[c].shown = "unhooked"
    BY <1>1, <1>2 DEF Shows, TurnType
  <1> QED BY <1>2, <1>3, TrailSame, HookEnds

\* A post hook finds its call's decision, or what looks like it.
LEMMA PostLocateStep ==
    ASSUME HookInd, HookAgentsAssumption, NEW c \in HookCalls, PostLocate(c)
    PROVE  HookInd'
  <1>1. turn \in [HookCalls -> TurnType] /\ TurnOK(c) /\ turn[c] \in TurnType
    BY DEF HookInd
  <1>2. turn[c].pc = "ran" /\ UNCHANGED <<agent, trail, consoleOk>>
    BY DEF PostLocate, Stage
  <1>3. turn[c].own # 0 /\ DecisionAt(turn[c].own) /\ trail[turn[c].own].call = c /\ turn[c].found = 0
    BY <1>1, <1>2 DEF TurnOK
  <1>4. CASE turn' = Shows(c, Post(c).fails)
    <2>1. turn'[c].shown = Post(c).fails
      BY <1>1, <1>4 DEF Shows, TurnType
    <2>2. Post(c).fails \in {"plain", "masked", "withheld"}
      BY PostFacts
    <2> QED BY <1>2, <1>4, <2>1, <2>2, TrailSame, HookEnds
  <1>5. ASSUME NEW i \in Post(c).finds, turn' = [turn EXCEPT ![c].pc = "located", ![c].found = i]
        PROVE  HookInd'
    <2>0. Len(trail) \in Nat /\ DOMAIN trail = 1..Len(trail)
      BY SeqFacts DEF HookInd
    <2>1. i \in IF HasId(c) THEN LocateById(c) ELSE LocateOpen(c)
      BY <1>5, PostFacts
    <2>2. DecisionAt(i) /\ i # 0 /\ i \in Nat
      BY <2>0, <2>1 DEF LocateById, LocateOpen, DecisionsIn, DecisionAt
    <2>3. ASSUME HasId(c) PROVE i = turn[c].own
      <3>1. trail[i].call = c
        BY <2>1, <2>3 DEF LocateById
      <3> QED BY <2>2, <3>1, VerdictFacts
    <2>4. ASSUME ~HasId(c)
          PROVE  /\ LooksLike(trail[i].call, c)
                 /\ HasRun(turn[c].own) \/ turn[c].own <= i \/ ~LooksLike(c, c)
      <3>1. /\ LooksLike(trail[i].call, c)
            /\ \A j \in DecisionsIn : LooksLike(trail[j].call, c) /\ ~HasRun(j) => j <= i
        BY <2>1, <2>4 DEF LocateOpen
      <3>2. turn[c].own \in DecisionsIn
        BY <1>3, <2>0 DEF DecisionsIn, DecisionAt
      <3> QED BY <1>3, <3>1, <3>2
    <2>5. i # turn[c].own => /\ ~HasId(c) /\ LooksLike(trail[i].call, c)
                             /\ \/ i > turn[c].own \/ HasRun(turn[c].own)
                                \/ ~LooksLike(c, c)
      <3>1. turn[c].own \in Nat
        BY <1>1 DEF TurnType
      <3> QED BY <2>2, <2>3, <2>4, <3>1
    <2>6. PICK q : q = [turn[c] EXCEPT !.pc = "located", !.found = i]
      OBVIOUS
    <2>7. turn' \in [HookCalls -> TurnType] /\ q = turn'[c] /\ \A d \in HookCalls \ {c} : turn'[d] = turn[d]
      BY <1>1, <1>5, <2>2, <2>6 DEF TurnType
    <2>8. /\ q.pc = "located" /\ q.found = i /\ q.own = turn[c].own /\ q.said = turn[c].said
          /\ q.ran = turn[c].ran /\ q.lost = turn[c].lost /\ q.now = turn[c].now
          /\ q.shown = "nothing"
      BY <1>1, <1>2, <2>6 DEF TurnType, TurnOK
    <2>9. /\ Grown
          /\ \A j \in 1..Len(trail') : j \notin 1..Len(trail) => TrailOK(j)' /\ NamedOK(j)'
          /\ \A j : DecisionAt(j)' <=> DecisionAt(j)
          /\ HasRun(q.own)' <=> HasRun(q.own)
      BY <1>2, TrailSame DEF HasRun
    <2>10. LetThrough(c) => LetThrough(c)'
      BY <1>2, <2>7, <2>8, <2>9 DEF LetThrough, Verdict, Maskable, Fmt
    <2>11. TurnOK(c)'
      BY <1>1, <1>2, <1>3, <2>2, <2>7, <2>8, <2>9, <2>10 DEF TurnOK, Verdict
    <2>12. FoundOK(c)' /\ MaskedOK(c)'
      BY <1>2, <2>5, <2>7, <2>8, <2>9, LooksSame DEF FoundOK, MaskedOK, HasId, Fmt
    <2> QED BY <1>2, <2>7, <2>8, <2>9, <2>11, <2>12, OneMoves
  <1> QED BY <1>4, <1>5 DEF PostLocate

\* A post hook records the execution of what it has found.
LEMMA PostRecordStep ==
    ASSUME HookInd, HookAgentsAssumption, NEW c \in HookCalls, PostRecord(c)
    PROVE  HookInd'
  <1>1. turn \in [HookCalls -> TurnType] /\ TurnOK(c) /\ turn[c] \in TurnType
    BY DEF HookInd
  <1>2. turn[c].pc = "located" /\ UNCHANGED <<agent, consoleOk>>
    BY DEF PostRecord, Stage
  <1>3. /\ turn[c].own # 0 /\ DecisionAt(turn[c].own) /\ turn[c].found # 0 /\ DecisionAt(turn[c].found)
        /\ turn[c].ran /\ agent # NoAgent /\ Fmt(c) = agent.format
    BY <1>1, <1>2 DEF TurnOK
  <1>4. \A what : turn' = Shows(c, what) => turn'[c].shown = what
    BY <1>1 DEF Shows, TurnType
  <1>5. {Post(c).fails, Post(c).done} \subseteq {"plain", "masked", "withheld"}
    BY PostFacts
  <1>6. CASE turn' = Shows(c, Post(c).fails) /\ UNCHANGED trail
    BY <1>2, <1>4, <1>5, <1>6, TrailSame, HookEnds
  <1>7. ASSUME NEW who \in DispatchApprover(c, turn[c].found),
               trail' = Append(trail, [kind |-> "Execution", call |-> c, verdict |-> "none",
                                       verdicts |-> <<>>, approver |-> who, of |-> turn[c].found]),
               turn' = Shows(c, Post(c).done) \/ turn' = Shows(c, Post(c).fails)
        PROVE  HookInd'
    <2>1. PICK r : /\ trail' = Append(trail, r) /\ r.kind = "Execution" /\ r.call = c
                   /\ r.approver = who /\ r.of = turn[c].found
      BY <1>7
    <2>2. agent' \in [format : HookFormats, mode : AskModes] /\ agent' = agent
      BY <1>2, <1>3 DEF HookInd
    <2>3. PICK n : /\ n = Len(trail) + 1 /\ n \in Nat \ {0} /\ n = Len(trail')
                   /\ Grown /\ trail'[n] = r
                   /\ \A i \in 1..Len(trail') : i \notin 1..Len(trail) => i = n
      BY <2>1, <2>2, TrailLonger
    <2>4. turn'[c].shown \in {"plain", "masked", "withheld"} /\ turn' = Shows(c, turn'[c].shown)
          /\ (turn'[c].shown = Post(c).done \/ turn'[c].shown = Post(c).fails)
      BY <1>4, <1>5, <1>7
    <2>5. /\ turn'[c].pc = "over" /\ turn'[c].found = turn[c].found /\ turn'[c].own = turn[c].own
          /\ turn'[c].said = turn[c].said /\ turn'[c].lost = turn[c].lost
      BY <1>1, <2>4 DEF Shows, TurnType
    <2>6. PICK f : /\ f = turn[c].found /\ f = turn'[c].found
                   /\ DecisionAt(f)' /\ trail'[f] = trail[f]
      BY <1>3, <2>3, <2>5, DecisionsStay
    <2>7. TrailOK(n)'
      <3>1. turn[c].found < n
        BY <1>3, <2>3, SeqFacts DEF DecisionAt, HookInd
      <3> QED BY <2>1, <2>3, <2>5, <2>6, <3>1 DEF TrailOK
    <2>8. \/ who = "none" /\ Verdict(turn[c].found) \in {"allow", "redact"}
          \/ who = turn[c].said /\ Verdict(turn[c].found) = "ask"
          \/ turn[c].found # turn[c].own \/ turn[c].lost
      <3>1. Verdict(turn[c].found) \in {"allow", "redact", "ask", "deny"}
        BY <1>3, VerdictFacts DEF Kinds
      <3>2. CASE Verdict(turn[c].found) \in {"allow", "redact"}
        BY <1>7, <3>2 DEF DispatchApprover
      <3>3. CASE Verdict(turn[c].found) = "ask"
        <4>1. \/ agent.mode = "ui" /\ who = "console" /\ turn[c].found \in consoleOk
              \/ agent.mode = "defer" /\ who = "prompt"
          BY <1>7, <3>3 DEF DispatchApprover
        <4>2. SUFFICES ASSUME turn[c].found = turn[c].own, ~turn[c].lost PROVE who = turn[c].said
          BY <3>3
        <4>3. trail[turn[c].found].call = c
          BY <1>1, <1>3, <4>2 DEF TurnOK
        <4>4. CASE agent.mode = "ui" /\ who = "console" /\ turn[c].found \in consoleOk
          BY <4>3, <4>4 DEF HookInd
        <4>5. CASE agent.mode = "defer" /\ who = "prompt"
          <5>1. turn[c].said \in {"prompt", "console"}
            BY <1>1, <1>3, <3>3, <4>2 DEF TurnOK, LetThrough
          <5>2. turn[c].said # "console"
            BY <1>1, <4>5 DEF TurnOK
          <5> QED BY <4>5, <5>1, <5>2
        <4> QED BY <4>1, <4>4, <4>5
      <3>4. CASE Verdict(turn[c].found) = "deny"
        BY <1>7, <3>4 DEF DispatchApprover
      <3> QED BY <3>1, <3>2, <3>3, <3>4
    <2>9. NamedOK(n)'
      <3>1. Verdict(trail[n].of)' = Verdict(turn[c].found) /\ trail'[n].call = c /\ trail'[n].approver = who
        BY <2>1, <2>3, <2>6 DEF Verdict
      <3> QED BY <2>1, <2>3, <2>5, <2>8, <3>1 DEF NamedOK
    <2> QED BY <1>2, <1>3, <2>3, <2>4, <2>7, <2>9, HookEnds
  <1> QED BY <1>6, <1>7 DEF PostRecord

\* Every step of an agent and its hooks preserves the invariant.
LEMMA HookIndNext == HookInd /\ HookAgentsAssumption /\ [HookNext]_hookVars => HookInd'
  <1> SUFFICES ASSUME HookInd, HookAgentsAssumption, [HookNext]_hookVars PROVE HookInd'
    OBVIOUS
  <1>1. ASSUME NEW c \in HookCalls, NEW mode \in AskModes, PreDecide(c, mode) PROVE HookInd'
    BY <1>1, PreDecideStep
  <1>2. ASSUME NEW c \in HookCalls, PreError(c) PROVE HookInd'
    BY <1>2, PreErrorStep
  <1>3. ASSUME NEW c \in HookCalls, PreAnswer(c) PROVE HookInd'
    BY <1>3, PreAnswerStep
  <1>4. ASSUME NEW c \in HookCalls, PreConsole(c) PROVE HookInd'
    BY <1>4, PreConsoleStep
  <1>5. ASSUME NEW c \in HookCalls, PreLost(c) PROVE HookInd'
    BY <1>5, PreLostStep
  <1>6. ASSUME NEW c \in HookCalls, AgentActs(c) PROVE HookInd'
    BY <1>6, AgentActsStep
  <1>7. ASSUME NEW c \in HookCalls, PostLocate(c) PROVE HookInd'
    BY <1>7, PostLocateStep
  <1>8. ASSUME NEW c \in HookCalls, PostRecord(c) PROVE HookInd'
    BY <1>8, PostRecordStep
  <1>9. ASSUME NEW c \in HookCalls, PostLost(c) PROVE HookInd'
    BY <1>9, PostLostStep
  <1>10. ASSUME NEW i \in consoleOk, ConsoleFileGone(i) PROVE HookInd'
    BY <1>10, OnlyFilesGo DEF ConsoleFileGone
  <1>11. CASE UNCHANGED hookVars
    BY <1>11, OnlyFilesGo DEF hookVars
  <1> QED BY <1>1, <1>2, <1>3, <1>4, <1>5, <1>6, <1>7, <1>8, <1>9, <1>10, <1>11 DEF HookNext

\* Whatever the hooks' errors, lost answers and shells do, a call that ran
\* although its hook could answer was decided so that it may.
THEOREM BlockedCallsStayBlocked == HookSpec => []BlockedNeverRuns
  <1>1. HookAgentsAssumption /\ HookInd => BlockedNeverRuns
    <2> SUFFICES ASSUME HookInd, HookAgentsAssumption, NEW c \in HookCalls, turn[c].ran, ~turn[c].lost
                 PROVE  LET i == turn[c].own IN
                        /\ i # 0
                        /\ \A p \in Candidates(c) :
                              /\ trail[i].verdicts[p] # "deny"
                              /\ trail[i].verdicts[p] = "ask" => turn[c].said \in {"prompt", "console"}
                              /\ trail[i].verdicts[p] = "redact" => Maskable(c)
      BY DEF BlockedNeverRuns
    <2> DEFINE i == turn[c].own
    <2>1. LetThrough(c) /\ TurnOK(c)
      BY DEF HookInd, TurnOK
    <2>2. DecisionAt(i) /\ i # 0 /\ trail[i].call = c
      BY <2>1 DEF LetThrough, DecisionAt, TurnOK
    <2>3. /\ trail[i].verdicts \in [Candidates(c) -> Kinds]
          /\ \A p \in Candidates(c) : Severity(trail[i].verdicts[p]) <= Severity(Verdict(i))
      BY <2>2, VerdictFacts
    <2>4. /\ Verdict(i) \in {"allow", "redact", "ask"}
          /\ Verdict(i) # "allow" => Maskable(c)
          /\ Verdict(i) = "ask" => turn[c].said \in {"prompt", "console"}
      BY <2>1 DEF LetThrough
    <2> HIDE DEF i
    <2>5. ASSUME NEW p \in Candidates(c)
          PROVE  /\ trail[i].verdicts[p] # "deny"
                 /\ trail[i].verdicts[p] = "ask" => turn[c].said \in {"prompt", "console"}
                 /\ trail[i].verdicts[p] = "redact" => Maskable(c)
      <3>1. PICK k \in Kinds : k = trail[i].verdicts[p] /\ Severity(k) <= Severity(Verdict(i))
        BY <2>3
      <3>2. /\ Severity("allow") = 0 /\ Severity("redact") = 1 /\ Severity("ask") = 2
            /\ Severity("deny") = 3
        BY DEF Severity
      <3>3. k \in {"allow", "redact", "ask", "deny"}
        BY DEF Kinds
      <3> QED BY <2>4, <3>1, <3>2, <3>3
    <2> QED BY <2>2, <2>5 DEF i
  <1> QED BY <1>1, HookIndInit, HookIndNext, HookAgentsAssumption, PTL DEF HookSpec

\* A post hook finds its own call's decision wherever that can be told,
\* masks what is to be masked and names who approved, in every agent.
THEOREM PostHooksStayRight == HookSpec => []PostHooksRight
  <1>1. HookAgentsAssumption /\ HookInd => PostHooksRight
    <2> SUFFICES ASSUME HookInd, HookAgentsAssumption PROVE PostHooksRight
      OBVIOUS
    <2>1. OwnDecisionFound
      BY DEF HookInd, FoundOK, OwnDecisionFound
    <2>2. RedactedMasked
      BY DEF HookInd, MaskedOK, RedactedMasked
    <2>3. DOMAIN trail = 1..Len(trail) /\ Len(trail) \in Nat
      BY SeqFacts DEF HookInd
    <2>4. ApproverNamed
      BY <2>3 DEF HookInd, NamedOK, ApproverNamed
    <2>5. HookAgentsTypeOK
      <3>1. agent = NoAgent \/ (agent.format \in HookFormats /\ agent.mode \in AskModes)
        BY DEF HookInd
      <3>2. \A i \in DOMAIN trail : trail[i].kind = "Decision" => Verdict(i) \in Kinds
        BY <2>3, VerdictFacts DEF DecisionAt
      <3>3. \A i \in DOMAIN trail : trail[i].of \in 1..i /\ trail[trail[i].of].kind = "Decision"
        BY <2>3 DEF HookInd, TrailOK, DecisionAt
      <3>4. \A i : DecisionAt(i) => i \in DecisionsIn
        BY <2>3 DEF DecisionAt, DecisionsIn
      <3>5. consoleOk \subseteq DecisionsIn
        BY <3>4 DEF HookInd
      <3>6. ASSUME NEW c \in HookCalls
            PROVE  /\ {turn[c].own, turn[c].found} \subseteq DecisionsIn \cup {0}
                   /\ turn[c].answer.code \in {0, 2}
        <4>1. TurnOK(c) /\ turn[c] \in TurnType
          BY DEF HookInd
        <4> QED BY <3>4, <4>1 DEF TurnOK, TurnType, AnswerType
      <3> QED BY <3>1, <3>2, <3>3, <3>5, <3>6 DEF HookAgentsTypeOK
    <2> QED BY <2>1, <2>2, <2>4, <2>5 DEF PostHooksRight
  <1> QED BY <1>1, HookIndInit, HookIndNext, HookAgentsAssumption, PTL DEF HookSpec
==============================================================================
