------------------------------ MODULE Receipts ------------------------------
(***************************************************************************)
(* Signed receipts over the ledger (crates/writ-receipts and crates/       *)
(* writ-cli/src/receipt.rs): Merkle trees, checkpoints, inclusion proofs   *)
(* and anchors, and the `writ receipt' commands that run beside a writer   *)
(* of the ledger, beside each other and beside someone who alters the      *)
(* ledger or the receipt.                                                  *)
(*                                                                         *)
(* Modelled is a JSONL ledger; SQL stores are read in one transaction.     *)
(* Hashes and signatures are ideal: a value is what it was computed from.  *)
(* created_at and anchored_at are left out (all within one second).  The   *)
(* writer's own protocol is FileLedger's; of it a reader sees the lines    *)
(* and at most one line without its newline.                               *)
(***************************************************************************)
EXTENDS LedgerChain, FiniteSets

CONSTANTS
    RecordBodies,     \* what a record says: [call |-> ..., session |-> ...]
    WrittenBodies,    \* those written while receipts are made
    StartBodies,      \* the ledgers found at the start: sequences of bodies
    CreateArgs,       \* arguments of create: [key |-> ..., session |-> ...],
                      \* the session NoScope if none is given
    Pins,             \* arguments of --pubkey; NoPin: not given
    ReceiptCmds,      \* processes running `writ receipt ...'
    MaxWrites,        \* bound: records written while receipts are made
    MaxAlterations,   \* bound: alterations of the ledger or the receipt
    MaxReceiptCmds,   \* bound: commands begun
    NoScope, NoPin, NoReceipt

VARIABLES
    book,        \* the complete lines of the ledger
    bookTail,    \* what follows them: "none", a "torn" line, or a "whole"
                 \* record without its newline
    tailRec,     \* the record the tail is a part of
    writing,     \* a live process is writing the tail
    receiptFile, \* r.json: a receipt, or NoReceipt
    anchorLog,   \* lines of the anchor log
    logTorn,     \* the anchor log ends in a part of a line
    rekor,       \* entries of the transparency log
    rcmd,        \* the commands
    begun,       \* how many commands have begun
    writes,      \* how many records were begun
    altered,     \* how many alterations there were
    signed,      \* history: what was signed, over which records
    proofs       \* history: inclusion proofs written

receiptVars == <<book, bookTail, tailRec, writing, receiptFile, anchorLog, logTorn,
                 rekor, rcmd, begun, writes, altered, signed, proofs>>
bookVars == <<book, bookTail, tailRec, writing, writes>>
witnessVars == <<anchorLog, logTorn, rekor>>
historyVars == <<altered, signed, proofs>>
---------------------------------------------------------------------------
(***************************************************************************)
(* merkle.rs: RFC 6962 trees                                               *)
(***************************************************************************)
leaf_hash(data) == <<"leaf", data>>
node_hash(left, right) == <<"node", left, right>>

\* Mutant: the middle instead of a power of two.
splitMiddle(n) == n \div 2

\* The largest power of two below n.
split(n) == CHOOSE k \in {2 ^ j : j \in 0..n} : k < n /\ n <= 2 * k

LeftPart(s) == SubSeq(s, 1, split(Len(s)))
RightPart(s) == SubSeq(s, split(Len(s)) + 1, Len(s))

RECURSIVE merkle_root(_)
merkle_root(leaves) ==
    IF leaves = <<>> THEN <<"empty">>
    ELSE IF Len(leaves) = 1 THEN leaves[1]
    ELSE node_hash(merkle_root(LeftPart(leaves)), merkle_root(RightPart(leaves)))

\* The audit path of leaf m (from 0), leaf to root.
RECURSIVE build_path(_, _)
build_path(leaves, m) ==
    IF Len(leaves) <= 1 THEN <<>>
    ELSE IF m < split(Len(leaves))
    THEN Append(build_path(LeftPart(leaves), m), merkle_root(RightPart(leaves)))
    ELSE Append(build_path(RightPart(leaves), m - split(Len(leaves))), merkle_root(LeftPart(leaves)))

\* The inner loop of verify_inclusion: up to where the node is a right child.
RECURSIVE SkipUp(_, _)
SkipUp(fnode, snode) ==
    IF fnode % 2 = 0 /\ fnode # 0 THEN SkipUp(fnode \div 2, snode \div 2)
    ELSE <<fnode, snode>>

\* Its outer loop: the hashes of path are folded into r, each on its side.
RECURSIVE Walk(_, _, _, _)
Walk(fnode, snode, r, path) ==
    IF path = <<>> THEN [ends |-> snode = 0, root |-> r]
    ELSE IF snode = 0 THEN [ends |-> FALSE, root |-> r]
    ELSE LET p == Head(path)
             right == fnode % 2 = 1 \/ fnode = snode
             at == IF right THEN SkipUp(fnode, snode) ELSE <<fnode, snode>>
         IN  Walk(at[1] \div 2, at[2] \div 2,
                  IF right THEN node_hash(p, r) ELSE node_hash(r, p), Tail(path))

verify_inclusion(leaf, index, size, path, root) ==
    /\ index < size
    /\ LET walk == Walk(index, size - 1, leaf, path) IN walk.ends /\ walk.root = root
---------------------------------------------------------------------------
(***************************************************************************)
(* ledger.rs: checkpoints.  A scan is the records read and whether an      *)
(* unreadable item follows them.                                           *)
(***************************************************************************)
Leaves(recs) == [i \in DOMAIN recs |-> leaf_hash(recs[i].record_hash)]
SessionLeaves(recs, id) == Leaves(SelectSeq(recs, LAMBDA r : r.body.session = id))

Scoped(recs, id) ==
    IF id = NoScope THEN NoScope
    ELSE [id |-> id, records |-> Len(SessionLeaves(recs, id)),
          merkle_root |-> merkle_root(SessionLeaves(recs, id))]

\* A broken or empty ledger, or a session without records, is not signed.
Signable(scan, id) ==
    /\ ~scan.err /\ scan.recs # <<>> /\ VerifyIntact(scan.recs)
    /\ id # NoScope => SessionLeaves(scan.recs, id) # <<>>

build_checkpoint(recs, id) ==
    [ledger_id |-> recs[1].record_hash, records |-> Len(recs), tip_index |-> Len(recs) - 1,
     tip_hash |-> TipHash(recs), merkle_root |-> merkle_root(Leaves(recs)),
     session |-> Scoped(recs, id)]

\* The covered records are the ones signed.
Covered(cp, recs) ==
    /\ Len(recs) >= cp.records
    /\ LET part == SubSeq(recs, 1, cp.records)
       IN  /\ VerifyIntact(part)
           /\ part[1].record_hash = cp.ledger_id
           /\ TipHash(part) = cp.tip_hash
           /\ merkle_root(Leaves(part)) = cp.merkle_root
           /\ cp.session # NoScope => Scoped(part, cp.session.id) = cp.session

\* Records may have been appended since; those must continue the chain.
check_checkpoint(cp, scan) ==
    IF ~Covered(cp, scan.recs) THEN "failed"
    ELSE IF scan.err \/ ~VerifyIntact(scan.recs) THEN "broken_after"
    ELSE "holds"

\* Checkpoint::validate, as far as its fields can be wrong here.
validate_checkpoint(cp) ==
    /\ cp.records >= 1 /\ cp.tip_index + 1 = cp.records
    /\ cp.tip_index = 0 => cp.tip_hash = cp.ledger_id
    /\ cp.session # NoScope => cp.session.records \in 1..cp.records
---------------------------------------------------------------------------
(***************************************************************************)
(* receipt.rs, proof.rs, file_anchor.rs, rekor.rs                          *)
(***************************************************************************)
SignReceipt(cp, key) ==
    [checkpoint |-> cp, public_key |-> key, signer |-> key, value |-> <<key, key, cp>>,
     anchors |-> <<>>]

\* The signature covers the checkpoint and the signer's id in it.
verify_signature(r, pin) ==
    /\ pin = NoPin \/ pin = r.public_key
    /\ validate_checkpoint(r.checkpoint) /\ r.signer = r.public_key
    /\ r.value = <<r.public_key, r.signer, r.checkpoint>>

prove(r, recs, call) ==
    {[record |-> recs[i], leaf_index |-> i - 1, tree_size |-> r.checkpoint.records,
      audit_path |-> build_path(Leaves(SubSeq(recs, 1, r.checkpoint.records)), i - 1)] :
        i \in {j \in 1..r.checkpoint.records : recs[j].body.call = call}}

verify_entries(proof) ==
    LET cp == proof.receipt.checkpoint
    IN  /\ proof.entries # {}
        /\ \A e \in proof.entries :
              /\ e.record.body.call = proof.call
              /\ e.record.index = e.leaf_index /\ e.tree_size = cp.records
              /\ compute_hash(e.record) = e.record.record_hash
              /\ verify_inclusion(leaf_hash(e.record.record_hash), e.leaf_index, e.tree_size,
                                  e.audit_path, cp.merkle_root)

\* The line of a receipt in the anchor log.
line_for(r) == [checkpoint |-> r.checkpoint, signature |-> r.value]

\* file_anchor::verify.  A line joined to a torn one is not found again.
FileAnchorHolds(a, r) == [line |-> a.entry, joined |-> FALSE] \in anchorLog /\ a.entry = line_for(r)

\* A hashedrekord entry, and rekor::verify_anchor.
proposed_entry(r) == [digest |-> r.checkpoint, signature |-> r.value, key |-> r.public_key]
RekorAnchorHolds(a, r) == a.entry \in rekor /\ a.entry = proposed_entry(r)

AnchorHolds(a, r) == IF a.to = "file" THEN FileAnchorHolds(a, r) ELSE RekorAnchorHolds(a, r)
check_anchors(r) == \A i \in DOMAIN r.anchors : AnchorHolds(r.anchors[i], r)
---------------------------------------------------------------------------
Honest(bodies) ==
    LET RECURSIVE grow(_)
        grow(n) == IF n = 0 THEN <<>>
                   ELSE Append(grow(n - 1), Finalize(n - 1, bodies[n], TipHash(grow(n - 1))))
    IN  grow(Len(bodies))

NoCmd == [pc |-> "idle", receipt |-> NoReceipt, pin |-> NoPin, told |-> "none"]

\* A ledger, perhaps with what a killed writer left at its end.
ReceiptsInit ==
    /\ book \in {Honest(b) : b \in StartBodies} /\ writing = FALSE
    /\ bookTail \in {"none", "torn", "whole"}
    /\ \E b \in WrittenBodies :
          tailRec = IF bookTail = "none" THEN <<>> ELSE Finalize(Len(book), b, TipHash(book))
    /\ receiptFile = NoReceipt /\ anchorLog = {} /\ logTorn = FALSE /\ rekor = {}
    /\ rcmd = [p \in ReceiptCmds |-> NoCmd]
    /\ begun = 0 /\ writes = 0 /\ altered = 0 /\ signed = {} /\ proofs = {}
---------------------------------------------------------------------------
(***************************************************************************)
(* The ledger beside the commands                                          *)
(***************************************************************************)
\* The file as append finds it: a torn tail dropped, a whole one completed.
RepairedBook == IF bookTail = "whole" THEN Append(book, tailRec) ELSE book

\* A ledger whose indices or links are broken is not appended to.
Refreshes(s) ==
    \A i \in DOMAIN s : s[i].index = i - 1 /\ s[i].prev_hash = TipHash(SubSeq(s, 1, i - 1))

WriteBegins(body) ==
    /\ Refreshes(RepairedBook)
    /\ ~writing /\ writes < MaxWrites /\ writes' = writes + 1
    /\ writing' = TRUE /\ book' = RepairedBook /\ bookTail' = "torn"
    /\ tailRec' = Finalize(Len(RepairedBook), body, TipHash(RepairedBook))
    /\ UNCHANGED <<receiptFile, witnessVars, rcmd, begun, historyVars>>

\* All of the record, without its newline, and then with it.  A writer that
\* is killed takes no further step.
WriteGoesOn ==
    /\ writing
    /\ \/ bookTail = "torn" /\ bookTail' = "whole" /\ UNCHANGED <<book, tailRec, writing>>
       \/ /\ bookTail = "whole" /\ bookTail' = "none" /\ book' = Append(book, tailRec)
          /\ writing' = FALSE /\ tailRec' = <<>>
    /\ UNCHANGED <<writes, receiptFile, witnessVars, rcmd, begun, historyVars>>

\* The tail was not synced; every process is gone.
TailLost ==
    /\ bookTail # "none"
    /\ bookTail' = "none" /\ tailRec' = <<>> /\ writing' = FALSE
    /\ rcmd' = [p \in ReceiptCmds |-> NoCmd]
    /\ UNCHANGED <<book, writes, receiptFile, witnessVars, begun, historyVars>>

\* A record edited with or without its hash and those after it, two records
\* exchanged, the end cut off.
OtherBody(i) == CHOOSE b \in RecordBodies : b # book[i].body
Alterations ==
    {[book EXCEPT ![i].body = OtherBody(i)] : i \in DOMAIN book}
    \cup {Honest([j \in DOMAIN book |-> IF j = i THEN OtherBody(i) ELSE book[j].body]) :
             i \in DOMAIN book}
    \cup {[book EXCEPT ![i] = book[i + 1], ![i + 1] = book[i]] : i \in 1..(Len(book) - 1)}
    \cup {SubSeq(book, 1, n) : n \in 0..(Len(book) - 1)}

LedgerAltered ==
    /\ altered < MaxAlterations /\ bookTail = "none" /\ receiptFile # NoReceipt
    /\ \E b \in Alterations : book' = b
    /\ altered' = altered + 1
    /\ UNCHANGED <<bookTail, tailRec, writing, writes, receiptFile, witnessVars, rcmd, begun, signed,
                   proofs>>

\* The checkpoint in the file is replaced by the present ledger's.
ReceiptAltered ==
    /\ altered < MaxAlterations /\ receiptFile # NoReceipt /\ book # <<>>
    /\ receiptFile' = [receiptFile EXCEPT !.checkpoint = build_checkpoint(book, NoScope)]
    /\ altered' = altered + 1
    /\ UNCHANGED <<bookVars, witnessVars, rcmd, begun, signed, proofs>>
---------------------------------------------------------------------------
(***************************************************************************)
(* Reading the ledger: read_records and jsonl_iter                         *)
(***************************************************************************)
Finished == {"idle", "done", "ok", "failed"}
Begins(p) == rcmd[p].pc \in Finished /\ begun < MaxReceiptCmds /\ begun' = begun + 1
CmdOver == [NoCmd EXCEPT !.pc = "done"]

\* One pass over the file: its lines and a whole tail, which is a record.  A
\* torn tail ends the stream if nothing follows it when the reader looks on,
\* but is an unreadable item if its writer has gone on meanwhile.
Scans ==
    [recs : {IF bookTail = "whole" THEN Append(book, tailRec) ELSE book},
     err : {FALSE} \cup {e \in {TRUE} : bookTail = "torn" /\ writing}]
---------------------------------------------------------------------------
(***************************************************************************)
(* create: the ledger is read and signed, then the receipt is written      *)
(***************************************************************************)
Create(p) ==
    /\ Begins(p)
    /\ \E a \in CreateArgs, scan \in Scans :
          LET cp == build_checkpoint(scan.recs, a.session)
          IN  \/ /\ Signable(scan, a.session)
                 /\ rcmd' = [rcmd EXCEPT ![p] = [NoCmd EXCEPT !.pc = "emit",
                                                              !.receipt = SignReceipt(cp, a.key)]]
                 /\ signed' = signed \cup {[key |-> a.key, cp |-> cp, recs |-> scan.recs]}
              \/ /\ ~Signable(scan, a.session)
                 /\ rcmd' = [rcmd EXCEPT ![p] = CmdOver] /\ UNCHANGED signed
    /\ UNCHANGED <<bookVars, receiptFile, witnessVars, altered, proofs>>

\* write_atomic replaces the file, for create and for anchor.
Emit(p) ==
    /\ rcmd[p].pc = "emit"
    /\ receiptFile' = rcmd[p].receipt
    /\ rcmd' = [rcmd EXCEPT ![p] = CmdOver]
    /\ UNCHANGED <<bookVars, witnessVars, begun, historyVars>>
---------------------------------------------------------------------------
(***************************************************************************)
(* anchor                                                                  *)
(***************************************************************************)
\* The receipt is read; one that its own key did not sign is refused.
Anchor(p) ==
    /\ Begins(p) /\ receiptFile # NoReceipt
    /\ rcmd' = [rcmd EXCEPT ![p] = IF verify_signature(receiptFile, NoPin)
                                   THEN [NoCmd EXCEPT !.pc = "anchor", !.receipt = receiptFile]
                                   ELSE CmdOver]
    /\ UNCHANGED <<bookVars, receiptFile, witnessVars, historyVars>>

AnchorFile(p) ==
    LET r == rcmd[p].receipt
    IN  /\ rcmd[p].pc = "anchor"
        /\ anchorLog' = anchorLog \cup {[line |-> line_for(r), joined |-> logTorn]}
        /\ logTorn' = FALSE
        /\ rcmd' = [rcmd EXCEPT ![p].pc = "emit",
                       ![p].receipt.anchors = Append(@, [to |-> "file", entry |-> line_for(r)])]
        /\ UNCHANGED <<bookVars, receiptFile, rekor, begun, historyVars>>

\* The entry's anchor replaces an earlier one of the same entry.
WithRekor(r) ==
    [r EXCEPT !.anchors =
        Append(SelectSeq(@, LAMBDA a : a # [to |-> "rekor", entry |-> proposed_entry(r)]),
               [to |-> "rekor", entry |-> proposed_entry(r)])]

\* submit: the log adds the entry, or says that it has it (409).  The answer
\* verifies, or is lost: then the command fails and may be repeated.
AnchorRekor(p) ==
    /\ rcmd[p].pc = "anchor"
    /\ rekor' = rekor \cup {proposed_entry(rcmd[p].receipt)}
    /\ \/ rcmd' = [rcmd EXCEPT ![p].pc = "emit", ![p].receipt = WithRekor(rcmd[p].receipt)]
       \/ rcmd' = [rcmd EXCEPT ![p] = CmdOver]
    /\ UNCHANGED <<bookVars, receiptFile, anchorLog, logTorn, begun, historyVars>>
---------------------------------------------------------------------------
(***************************************************************************)
(* prove and verify                                                        *)
(***************************************************************************)
Prove(p) ==
    /\ Begins(p) /\ receiptFile # NoReceipt
    /\ \E b \in RecordBodies, scan \in Scans :
          LET entries == prove(receiptFile, scan.recs, b.call)
          IN  proofs' = IF /\ verify_signature(receiptFile, NoPin)
                           /\ check_checkpoint(receiptFile.checkpoint, scan) # "failed"
                           /\ entries # {}
                        THEN proofs \cup {[receipt |-> receiptFile, call |-> b.call,
                                           entries |-> entries]}
                        ELSE proofs
    /\ rcmd' = [rcmd EXCEPT ![p] = CmdOver]
    /\ UNCHANGED <<bookVars, receiptFile, witnessVars, altered, signed>>

\* History: the receipt is as it was signed, and the ledger, as read, goes on
\* from the one it was signed over.
Unchanged(r, recs) ==
    \E s \in signed :
        /\ [r EXCEPT !.anchors = <<>>] = SignReceipt(s.cp, s.key)
        /\ Len(s.recs) <= Len(recs) /\ SubSeq(recs, 1, Len(s.recs)) = s.recs

\* History: what there was to find.
Truth(r, pin, scan) ==
    IF ~Unchanged(r, scan.recs) \/ ~(pin \in {NoPin, r.public_key}) THEN "changed"
    ELSE IF scan.err \/ ~VerifyIntact(scan.recs) \/ ~check_anchors(r) THEN "troubled"
    ELSE "unchanged"

\* Without a good signature the checkpoint is not looked at; the anchors are
\* checked in any case.
Verify(p) ==
    /\ Begins(p) /\ receiptFile # NoReceipt
    /\ \E pin \in Pins, scan \in Scans :
          LET passes == /\ verify_signature(receiptFile, pin)
                        /\ check_checkpoint(receiptFile.checkpoint, scan) = "holds"
                        /\ check_anchors(receiptFile)
          IN  rcmd' = [rcmd EXCEPT ![p] = [NoCmd EXCEPT !.pc = IF passes THEN "ok" ELSE "failed",
                                                       !.pin = pin,
                                                       !.told = Truth(receiptFile, pin, scan)]]
    /\ UNCHANGED <<bookVars, receiptFile, witnessVars, historyVars>>

\* A command is killed while it writes its anchor line, and may leave a part
\* of it.  One killed elsewhere is one that takes no further step.
AnchorKilled(p) ==
    /\ rcmd[p].pc = "anchor"
    /\ rcmd' = [rcmd EXCEPT ![p] = CmdOver]
    /\ logTorn' \in {logTorn, TRUE}
    /\ UNCHANGED <<bookVars, receiptFile, anchorLog, rekor, begun, historyVars>>

ReceiptsNext ==
    \/ \E b \in WrittenBodies : WriteBegins(b)
    \/ WriteGoesOn \/ TailLost
    \/ LedgerAltered \/ ReceiptAltered
    \/ \E p \in ReceiptCmds :
          \/ Create(p) \/ Emit(p) \/ Prove(p) \/ Verify(p) \/ AnchorKilled(p)
          \/ Anchor(p) \/ AnchorFile(p) \/ AnchorRekor(p)
---------------------------------------------------------------------------
(***************************************************************************)
(* Properties                                                              *)
(***************************************************************************)
\* Types of the state, and a tail where there is a record for it.
ReceiptsTypeOK ==
    /\ writes <= MaxWrites /\ begun <= MaxReceiptCmds /\ altered <= MaxAlterations
    /\ bookTail \in {"none", "torn", "whole"} /\ writing \in BOOLEAN /\ logTorn \in BOOLEAN
    /\ (bookTail = "none") <=> (tailRec = <<>>)
    /\ writing => bookTail # "none"
    /\ \A p \in ReceiptCmds :
          /\ DOMAIN rcmd[p] = DOMAIN NoCmd
          /\ rcmd[p].pc \in Finished \cup {"emit", "anchor"}
          /\ rcmd[p].told \in {"none", "changed", "unchanged", "troubled"}

\* A receipt that verifies under a pinned key was signed with that key, and
\* the records it covers are those it was signed over, whatever was altered
\* and however both were timed (docs/receipts.md: "any later edit, rewrite,
\* reordering or truncation of a record at or before the checkpoint is
\* detected").
PinnedMeansUnchanged ==
    \A p \in ReceiptCmds : rcmd[p].pc = "ok" /\ rcmd[p].pin # NoPin => rcmd[p].told # "changed"

\* Records appended since, by a writer still at work too, do not make a
\* receipt fail ("Records appended after the checkpoint are allowed"),
\* except that a line completed while the reader looked at its torn part is
\* taken for an unreadable record, and an anchor line joined to a torn one
\* is not found.
AppendsAllowed ==
    \A p \in ReceiptCmds : rcmd[p].pc = "failed" => rcmd[p].told # "unchanged"

\* An inclusion proof holds without the ledger, for the records of the call
\* that were signed, all of them, and for no other place in the tree.
ProofsExact ==
    \A proof \in proofs :
        /\ verify_entries(proof)
        /\ \E s \in signed :
              /\ s.cp = proof.receipt.checkpoint
              /\ {e.record : e \in proof.entries} =
                    {s.recs[i] : i \in {j \in DOMAIN s.recs : s.recs[j].body.call = proof.call}}
        /\ \A e \in proof.entries : \A j \in 0..e.tree_size :
              verify_inclusion(leaf_hash(e.record.record_hash), j, e.tree_size, e.audit_path,
                               proof.receipt.checkpoint.merkle_root)
              => j = e.leaf_index

\* The anchors in a receipt witness that receipt: two commands that replace
\* the file at the same time may lose each other's anchors, but never put one
\* under another checkpoint.
AnchorsOwn ==
    receiptFile # NoReceipt /\ verify_signature(receiptFile, NoPin) =>
        \A i \in DOMAIN receiptFile.anchors :
            LET a == receiptFile.anchors[i]
            IN  \/ AnchorHolds(a, receiptFile)
                \/ /\ a.to = "file" /\ a.entry = line_for(receiptFile)
                   /\ [line |-> a.entry, joined |-> TRUE] \in anchorLog

\* Anchoring again after a lost answer leaves one anchor per log entry.
RekorOnce ==
    receiptFile # NoReceipt =>
        \A i, j \in DOMAIN receiptFile.anchors :
            receiptFile.anchors[i] = receiptFile.anchors[j] /\ receiptFile.anchors[i].to = "rekor"
            => i = j

\* Whoever checks a receipt or an anchor later accepts the ledger that was there
\* when it was made, with what was appended since, and no other, beside a writer
\* and after an alteration of the ledger or the receipt; a proof, as it was
\* written, is about records of that ledger; an anchor witnesses one checkpoint,
\* once (receipt.rs verify, prove, file_anchor.rs, rekor.rs).
ReceiptsExact ==
    /\ ReceiptsTypeOK
    /\ PinnedMeansUnchanged
    /\ AppendsAllowed
    /\ ProofsExact
    /\ AnchorsOwn
    /\ RekorOnce
=============================================================================
