---------------------------- MODULE LedgerChain ----------------------------
(***************************************************************************)
(* The hash chain of writ-core (crates/writ-core/src/ledger.rs): what a    *)
(* LedgerRecord commits to, what extends a tip, and what verify_chain says *)
(* of a record stream.                                                     *)
(*                                                                         *)
(* SHA-256 is modelled as an ideal commitment: the hash of a payload is    *)
(* the tuple of what it is computed over, so two payloads have the same    *)
(* hash exactly when they are equal.  The fields of a record that no check *)
(* of the chain looks at one by one (call, verdict, approver, exit status, *)
(* timestamps, ...) are the one opaque field `body'.                       *)
(***************************************************************************)
EXTENDS Integers, Sequences

\* The 64 zeros a chain starts from.
GENESIS_HASH == <<>>

\* Everything but record_hash itself is hashed, prev_hash included.
compute_hash(r) == <<r.index, r.body, r.prev_hash>>

\* A record with its record_hash filled in, as LedgerWriter::finalize does.
Finalize(index, body, prev) ==
    [index |-> index, body |-> body, prev_hash |-> prev,
     record_hash |-> <<index, body, prev>>]

\* s is a sequence, of whatever its elements are.
IsSeq(s) == s \in Seq({s[i] : i \in DOMAIN s})

\* The hash the next record must name.
TipHash(s) == IF s = <<>> THEN GENESIS_HASH ELSE s[Len(s)].record_hash

\* What one turn of the loop of verify_chain accepts: the record at
\* (0-based) position i - 1 of the stream, after the records before it.
LinkOK(s, i) ==
    /\ s[i].index = i - 1
    /\ s[i].prev_hash = (IF i = 1 THEN GENESIS_HASH ELSE s[i - 1].record_hash)
    /\ s[i].record_hash = compute_hash(s[i])

\* verify_chain: intact, or the index of the first record that fails.
VerifyIntact(s) == \A i \in 1..Len(s) : LinkOK(s, i)

verify_chain(s) ==
    IF VerifyIntact(s)
    THEN [records |-> Len(s), intact |-> TRUE, broken_at |-> -1]
    ELSE LET bad == {i \in 1..Len(s) : ~LinkOK(s, i)}
             first == CHOOSE i \in bad : \A j \in bad : i <= j
         IN  [records |-> first - 1, intact |-> FALSE, broken_at |-> s[first].index]
=============================================================================
