-------------------------- MODULE AppendOnlyLedger --------------------------
(***************************************************************************)
(* What every LedgerStore promises (Contract 3: the LedgerStore trait of   *)
(* crates/writ-core/src/ledger.rs and the contract its backends document): *)
(* one chain, to which a record is only ever added at the tip, each        *)
(* recording operation adding at most one; what has been made durable is   *)
(* never lost, a power loss may take records that were not.                *)
(***************************************************************************)
EXTENDS LedgerChain

CONSTANT Body        \* what may be recorded, one element per record_* call

VARIABLES
    log,             \* the records a reader sees, oldest first
    durable          \* how many of them survive a power loss

vars == <<log, durable>>

Init == log = <<>> /\ durable = 0

\* LedgerStore::append: index = len(), prev_hash = the tip's hash.
AppendRecord(b) ==
    /\ \A i \in 1..Len(log) : log[i].body # b
    /\ log' = Append(log, Finalize(Len(log), b, TipHash(log)))
    /\ UNCHANGED durable

\* "Durability before Ok".
MakeDurable ==
    /\ durable' \in (durable + 1)..Len(log)
    /\ UNCHANGED log

\* Power loss: a suffix that was not yet durable may be gone.
LoseTail ==
    /\ \E k \in durable..Len(log) : log' = SubSeq(log, 1, k)
    /\ UNCHANGED durable

Next == (\E b \in Body : AppendRecord(b)) \/ MakeDurable \/ LoseTail

Spec == Init /\ [][Next]_vars
-----------------------------------------------------------------------------
\* The stream a reader sees always passes verify_chain.
ChainIntact == VerifyIntact(log)

\* Durable records keep their place and their content for ever.
DurableKept ==
    [][/\ durable' >= durable
       /\ \A i \in 1..durable : i <= Len(log') /\ log'[i] = log[i]]_vars
=============================================================================
