----------------------- MODULE AppendOnlyLedgerProofs -----------------------
(***************************************************************************)
(* The promises of the append-only ledger follow from its three steps, for *)
(* every set of bodies and any number of records.                          *)
(***************************************************************************)
EXTENDS AppendOnlyLedger, LedgerChainLemmas

\* The inductive invariant: the log is a sequence, the durable part is a
\* prefix of it, the chain is intact.
Ind == IsSeq(log) /\ durable \in 0..Len(log) /\ ChainIntact

\* The empty ledger satisfies it.
LEMMA IndInit == Init => Ind
  <1> SUFFICES ASSUME Init PROVE Ind
    OBVIOUS
  <1>1. log \in Seq({}) /\ Len(log) = 0
    BY DEF Init
  <1>2. IsSeq(log)
    BY <1>1, IsSeqIntro
  <1> QED BY <1>1, <1>2 DEF Init, Ind, ChainIntact, VerifyIntact

\* An append at the tip, a sync and a lost tail preserve it.
LEMMA IndNext == Ind /\ [Next]_vars => Ind'
  <1> SUFFICES ASSUME Ind, [Next]_vars PROVE Ind'
    OBVIOUS
  <1>0. Len(log) \in Nat /\ durable \in Nat
    BY SeqFacts DEF Ind
  <1>1. ASSUME NEW b \in Body, AppendRecord(b) PROVE Ind'
    <2>1. IsSeq(log') /\ Len(log') = Len(log) + 1
      BY <1>1, AppendFacts DEF AppendRecord, Ind
    <2>2. VerifyIntact(log')
      BY <1>1, AppendIntact DEF AppendRecord, Ind, ChainIntact
    <2> QED BY <1>0, <1>1, <2>1, <2>2 DEF AppendRecord, Ind, ChainIntact
  <1>2. CASE MakeDurable
    BY <1>0, <1>2 DEF MakeDurable, Ind, ChainIntact
  <1>3. CASE LoseTail
    <2>1. PICK k \in durable..Len(log) : log' = SubSeq(log, 1, k)
      BY <1>3 DEF LoseTail
    <2>2. k \in 0..Len(log)
      BY <1>0
    <2>3. IsSeq(log') /\ Len(log') = k /\ VerifyIntact(log')
      BY <2>1, <2>2, PrefixFacts, PrefixIntact DEF Ind, ChainIntact
    <2> QED BY <1>0, <1>3, <2>3 DEF LoseTail, Ind, ChainIntact
  <1>4. CASE UNCHANGED vars
    BY <1>4 DEF vars, Ind, ChainIntact
  <1> QED BY <1>1, <1>2, <1>3, <1>4 DEF Next

\* Whatever is appended and whatever power losses take away, the stream a
\* reader of the store sees passes verify_chain.
THEOREM LedgerIntact == Spec => []ChainIntact
  <1>1. Ind => ChainIntact
    BY DEF Ind
  <1> QED BY <1>1, IndInit, IndNext, PTL DEF Spec

\* What append has made durable before it returned Ok keeps its place and
\* its content for ever, and the durable part only grows.
THEOREM DurablePrefixKept == Spec => DurableKept
  <1> DEFINE A == /\ durable' >= durable
                  /\ \A i \in 1..durable : i <= Len(log') /\ log'[i] = log[i]
  <1>1. Ind /\ [Next]_vars => [A]_vars
    <2> SUFFICES ASSUME Ind, Next PROVE A
      OBVIOUS
    <2>0. Len(log) \in Nat /\ durable \in 0..Len(log)
      BY SeqFacts DEF Ind
    <2>1. ASSUME NEW b \in Body, AppendRecord(b) PROVE A
      BY <2>0, <2>1, AppendFacts DEF AppendRecord, Ind
    <2>2. CASE MakeDurable
      BY <2>0, <2>2 DEF MakeDurable
    <2>3. CASE LoseTail
      <3>1. PICK k \in durable..Len(log) : log' = SubSeq(log, 1, k)
        BY <2>3 DEF LoseTail
      <3>2. k \in 0..Len(log)
        BY <2>0
      <3>3. Len(log') = k /\ \A i \in 1..k : log'[i] = log[i]
        BY <3>1, <3>2, PrefixFacts DEF Ind
      <3> QED BY <2>0, <2>3, <3>2, <3>3 DEF LoseTail
    <2> QED BY <2>1, <2>2, <2>3 DEF Next
  <1> QED BY <1>1, IndInit, IndNext, PTL DEF Spec, DurableKept
=============================================================================
