----------------------------- MODULE FileLedger -----------------------------
(***************************************************************************)
(* FileLedgerStore (crates/writ-ledger/src/file_store.rs): the JSONL       *)
(* ledger shared by any number of processes.                               *)
(*                                                                         *)
(* A process of Writers opens the file, then records one thing at a time   *)
(* through LedgerWriter and retry_append: tip() without the lock, build    *)
(* the record, lock, refresh, check, repair the tail, write, sync, unlock. *)
(* Readers take no lock.  Processes die between any two system calls, a    *)
(* write or a sync can fail, a lock wait can time out, the power can fail. *)
(*                                                                         *)
(* The file is its complete lines plus at most one unterminated chunk: a   *)
(* prefix of a record (torn) or a record whose newline has not landed      *)
(* (whole).  A handle's byte offset is the number of records consumed:     *)
(* that an offset may lie before or after the newline of the last one only *)
(* makes the next refresh skip a blank chunk.                              *)
(***************************************************************************)
EXTENDS LedgerChain, FiniteSets

CONSTANTS
    Writers,         \* processes appending to the ledger
    Readers,         \* `writ verify' processes
    MaxOps,          \* bound: record_* calls per process
    MaxRetries,      \* APPEND_RETRIES
    MaxCrashes,      \* bound: processes killed
    MaxPowerLosses,  \* bound: machine power losses
    MaxIoErrors,     \* bound: failing writes and syncs
    MaxTimeouts      \* bound: lock waits that run into LOCK_TIMEOUT

ASSUME BoundsAssumption ==
    /\ MaxOps \in Nat /\ MaxRetries \in Nat /\ MaxCrashes \in Nat
    /\ MaxPowerLosses \in Nat /\ MaxIoErrors \in Nat /\ MaxTimeouts \in Nat

VARIABLES
    lines,      \* the '\n'-terminated records of the file
    tail,       \* the unterminated chunk after them
    synced,     \* how many lines a completed sync_data covers
    lock,       \* who holds the OS lock on <ledger>.lock
    orphans,    \* lock() helper threads whose caller has timed out
    pc,         \* where each process is
    st,         \* each handle's ChainState: len and tip_hash
    chunk,      \* the torn chunk an unlocked refresh has read so far
    rec,        \* the record being appended; NoRec while opening
    op,         \* record_* calls each process has started
    attempt,    \* races lost by the current call (retry_append)
    outcome,    \* how each process's last open or record_* call ended
    acked,      \* records whose append returned Ok
    faults,     \* faults so far, by kind (the bounds above)
    verifier    \* how far each reader is, and its last report

fileVars == <<lines, tail, synced>>
lockVars == <<lock, orphans>>
procVars == <<pc, st, chunk, rec, op, attempt, outcome>>
vars == <<lines, tail, synced, lock, orphans, pc, st, chunk, rec, op, attempt,
          outcome, acked, faults, verifier>>

NoRec  == [index |-> -1]
NoTail == [kind |-> "none", rec |-> NoRec]
Torn(r)  == [kind |-> "torn", rec |-> r]
Whole(r) == [kind |-> "whole", rec |-> r]

Free == <<"free", "nobody">>
HeldBy(w) == <<"caller", w>>
OrphanOf(w) == <<"orphan", w>>

EmptyHandle == [len |-> 0, tip |-> GENESIS_HASH]

\* The records a reader parses: an unterminated chunk counts when it parses.
Visible == IF tail.kind = "whole" THEN Append(lines, tail.rec) ELSE lines

\* A reader that is done, with what it reported.
Report(r) == [pc |-> "idle", n |-> 0, chunk |-> NoRec, report |-> r]

Bodies == Writers \X (1..MaxOps)

Init ==
    /\ lines = <<>> /\ tail = NoTail /\ synced = 0
    /\ lock = Free /\ orphans = {}
    /\ pc = [w \in Writers |-> "closed"]
    /\ st = [w \in Writers |-> EmptyHandle]
    /\ chunk = [w \in Writers |-> NoRec]
    /\ rec = [w \in Writers |-> NoRec]
    /\ op = [w \in Writers |-> 0]
    /\ attempt = [w \in Writers |-> 0]
    /\ outcome = [w \in Writers |-> "none"]
    /\ acked = {}
    /\ faults = [crash |-> 0, power |-> 0, io |-> 0, timeout |-> 0]
    /\ verifier = [v \in Readers |-> Report(verify_chain(<<>>))]
-----------------------------------------------------------------------------
(***************************************************************************)
(* refresh: consume what was appended since the handle last looked.        *)
(***************************************************************************)

\* The checks refresh makes of what it reads, from the handle's own state:
\* the file has not shrunk, indexes are in sequence, each link holds.
LinksBroken(h) ==
    \/ Len(Visible) < h.len
    \/ \E i \in (h.len + 1)..Len(Visible) :
          \/ Visible[i].index # i - 1
          \/ Visible[i].prev_hash #
                (IF i = h.len + 1 THEN h.tip ELSE Visible[i - 1].record_hash)

Refreshed == [len |-> Len(Visible), tip |-> TipHash(Visible)]

\* read_until has read a torn chunk of r after n records and reads again
\* before it sees end of file.  By then the chunk may have been completed,
\* or truncated by repair_tail and overwritten by another record's line:
\* the bytes read are then that line if its beginning is the same ("more"),
\* and a mixture of the two that does not parse otherwise.
Reread(n, r) ==
    IF n = Len(Visible) THEN {"torn"}
    ELSE IF Visible[n + 1] = r THEN {"more"}
    ELSE {"more", IF n < Len(lines) THEN "mixed" ELSE "torn"}

\* What the next read by a reader that has consumed n records may meet, c
\* being the torn chunk it has read so far (NoRec at first).
Reads(n, c) == IF c = NoRec THEN {"more"} ELSE Reread(n, c)

\* A terminated line that does not parse is corruption unless only
\* whitespace follows it.
CorruptAfter(n) == Len(lines) > n + 1 \/ tail # NoTail

\* Mutant: an unterminated chunk is taken for corruption.
ReadStepStrict(h, how) ==
    CASE how # "more" -> [res |-> "corrupt", h |-> h]
      [] OTHER -> [res |-> IF tail.kind = "torn" THEN "again" ELSE "ok",
                   h |-> Refreshed]

\* One read of an unlocked refresh by a handle h: "again" while end of file
\* has not been seen, then Ok(false), Ok(true) or an error.
ReadStep(h, how) ==
    CASE how = "torn" -> [res |-> "torn", h |-> h]
      [] how = "mixed" ->
            [res |-> IF CorruptAfter(h.len) THEN "corrupt" ELSE "torn", h |-> h]
      [] how = "more" /\ LinksBroken(h) -> [res |-> "link", h |-> h]
      [] OTHER -> [res |-> IF tail.kind = "torn" THEN "again" ELSE "ok",
                   h |-> Refreshed]

NextChunk(s) == IF s.res = "again" THEN tail.rec ELSE NoRec

\* Mutant: everything after the last newline is dropped.
RepairedToNewline == [lines |-> lines, tail |-> NoTail]

\* repair_tail, under the lock: drop a torn chunk, end a whole record.
Repaired == [lines |-> Visible, tail |-> NoTail]
-----------------------------------------------------------------------------
(***************************************************************************)
(* FileLedgerStore::open                                                   *)
(***************************************************************************)
OpenRead(w) ==
    /\ pc[w] \in {"closed", "open"}
    /\ \E how \in Reads(st[w].len, chunk[w]) :
       LET s == ReadStep(st[w], how)
       IN  /\ chunk' = [chunk EXCEPT ![w] = NextChunk(s)]
           /\ st' = [st EXCEPT ![w] =
                        IF s.res \in {"corrupt", "link"} THEN EmptyHandle ELSE s.h]
           /\ pc' = [pc EXCEPT ![w] =
                        CASE s.res = "again" -> "open"
                          [] s.res = "torn" -> "try"
                          [] s.res = "ok" -> "idle"
                          [] OTHER -> "closed"]
           /\ outcome' = [outcome EXCEPT ![w] =
                             IF s.res = "ok" THEN "opened"
                             ELSE IF s.res \in {"corrupt", "link"} THEN s.res ELSE @]
    /\ UNCHANGED <<fileVars, lockVars, rec, op, attempt, acked, faults, verifier>>

\* With the lock: refresh again, repair, unlock.
OpenRepair(w) ==
    /\ pc[w] = "locked" /\ rec[w] = NoRec
    /\ lock' = Free
    /\ IF LinksBroken(st[w])
       THEN /\ st' = [st EXCEPT ![w] = EmptyHandle]
            /\ pc' = [pc EXCEPT ![w] = "closed"]
            /\ outcome' = [outcome EXCEPT ![w] = "link"]
            /\ UNCHANGED fileVars
       ELSE /\ st' = [st EXCEPT ![w] = Refreshed]
            /\ pc' = [pc EXCEPT ![w] = "idle"]
            /\ outcome' = [outcome EXCEPT ![w] = "opened"]
            /\ lines' = Repaired.lines /\ tail' = Repaired.tail
            /\ synced' = Len(Repaired.lines)
    /\ UNCHANGED <<orphans, chunk, rec, op, attempt, acked, faults, verifier>>
-----------------------------------------------------------------------------
(***************************************************************************)
(* lock(): try once, then wait on a helper thread for LOCK_TIMEOUT.        *)
(***************************************************************************)
TryLock(w) ==
    /\ pc[w] = "try"
    /\ IF lock = Free
       THEN lock' = HeldBy(w) /\ pc' = [pc EXCEPT ![w] = "locked"]
       ELSE UNCHANGED lock /\ pc' = [pc EXCEPT ![w] = "queued"]
    /\ UNCHANGED <<fileVars, orphans, st, chunk, rec, op, attempt, outcome, acked,
                   faults, verifier>>

Granted(w) ==
    /\ pc[w] = "queued" /\ lock = Free
    /\ lock' = HeldBy(w)
    /\ pc' = [pc EXCEPT ![w] = "locked"]
    /\ UNCHANGED <<fileVars, orphans, st, chunk, rec, op, attempt, outcome, acked,
                   faults, verifier>>

\* Where a call that fails leaves the process: no store, or an open one.
AfterFailure(w) == IF rec[w] = NoRec THEN "closed" ELSE "idle"

\* Mutant: the timeout fails open, the call goes on without the lock.
LockTimeoutFailsOpen(w) ==
    /\ pc[w] = "queued"
    /\ faults.timeout < MaxTimeouts
    /\ faults' = [faults EXCEPT !.timeout = @ + 1]
    /\ pc' = [pc EXCEPT ![w] = "locked"]
    /\ UNCHANGED <<fileVars, lockVars, st, chunk, rec, op, attempt, outcome, acked,
                   verifier>>

\* The caller gives up; its thread is still in the OS queue.
LockTimeout(w) ==
    /\ pc[w] = "queued"
    /\ faults.timeout < MaxTimeouts
    /\ faults' = [faults EXCEPT !.timeout = @ + 1]
    /\ orphans' = orphans \cup {w}
    /\ pc' = [pc EXCEPT ![w] = AfterFailure(w)]
    /\ st' = [st EXCEPT ![w] = IF rec[w] = NoRec THEN EmptyHandle ELSE @]
    /\ rec' = [rec EXCEPT ![w] = NoRec]
    /\ outcome' = [outcome EXCEPT ![w] = "timeout"]
    /\ UNCHANGED <<fileVars, lock, chunk, op, attempt, acked, verifier>>

\* The thread gets the lock nobody waits for any more ...
OrphanGranted(w) ==
    /\ w \in orphans /\ lock = Free
    /\ lock' = OrphanOf(w)
    /\ UNCHANGED <<fileVars, orphans, procVars, acked, faults, verifier>>

\* Mutant: the thread ends and its lock stays.
OrphanLeaks(w) ==
    /\ lock = OrphanOf(w)
    /\ UNCHANGED vars

\* ... and releases it: by unlock() when the receiver is gone, by dropping
\* the File in the channel when the receiver goes after the send.
OrphanReleases(w) ==
    /\ lock = OrphanOf(w)
    /\ lock' = Free
    /\ orphans' = orphans \ {w}
    /\ UNCHANGED <<fileVars, procVars, acked, faults, verifier>>
-----------------------------------------------------------------------------
(***************************************************************************)
(* LedgerWriter::record_* under retry_append, and FileLedgerStore::append. *)
(***************************************************************************)
Begin(w) ==
    /\ pc[w] = "idle" /\ op[w] < MaxOps
    /\ pc' = [pc EXCEPT ![w] = "tip"]
    /\ op' = [op EXCEPT ![w] = @ + 1]
    /\ attempt' = [attempt EXCEPT ![w] = 0]
    /\ outcome' = [outcome EXCEPT ![w] = "none"]
    /\ UNCHANGED <<fileVars, lockVars, st, chunk, rec, acked, faults, verifier>>

\* tip() without the lock, then the record is built on what it saw.
\* tip() does not look at refresh's Ok(true).
ReadTip(w) ==
    /\ pc[w] = "tip"
    /\ \E how \in Reads(st[w].len, chunk[w]) :
       LET s == ReadStep(st[w], how)
           built == s.res \in {"ok", "torn"}
       IN  /\ chunk' = [chunk EXCEPT ![w] = NextChunk(s)]
           /\ st' = [st EXCEPT ![w] = s.h]
           /\ rec' = [rec EXCEPT ![w] =
                         IF built THEN Finalize(s.h.len, <<w, op[w]>>, s.h.tip) ELSE @]
           /\ pc' = [pc EXCEPT ![w] = IF built THEN "try"
                                      ELSE IF s.res = "again" THEN @ ELSE "idle"]
           /\ outcome' = [outcome EXCEPT ![w] =
                             IF s.res \in {"corrupt", "link"} THEN s.res ELSE @]
    /\ UNCHANGED <<fileVars, lockVars, op, attempt, acked, faults, verifier>>

\* What append demands of the record, against the tip on disk.
Extends(r, h) == r.index = h.len /\ r.prev_hash = h.tip

\* Mutant: the handle's memory instead of the tip on disk.
TipInMemory(w) == st[w]

\* The tip the record is checked against: the one on disk.
TipOnDisk(w) == Refreshed

\* Mutant: off by one.
RetriesLeftOneMore(w) == attempt[w] <= MaxRetries

RetriesLeft(w) == attempt[w] < MaxRetries

\* Under the lock: refresh, check, repair the tail.  A record another writer
\* has overtaken is rejected before anything is written, and retry_append
\* rebuilds it; the last retry's rejection is the caller's error.
CheckTip(w) ==
    /\ pc[w] = "locked" /\ rec[w] # NoRec
    /\ \/ /\ LinksBroken(st[w]) \/ ~Extends(rec[w], TipOnDisk(w))
          /\ LET race == ~LinksBroken(st[w]) /\ RetriesLeft(w)
             IN  /\ pc' = [pc EXCEPT ![w] = IF race THEN "tip" ELSE "idle"]
                 /\ attempt' = [attempt EXCEPT ![w] = IF race THEN @ + 1 ELSE @]
                 /\ outcome' = [outcome EXCEPT ![w] =
                                   IF LinksBroken(st[w]) THEN "link"
                                   ELSE IF race THEN @ ELSE "race"]
          /\ st' = [st EXCEPT ![w] = IF LinksBroken(@) THEN @ ELSE Refreshed]
          /\ rec' = [rec EXCEPT ![w] = NoRec]
          /\ lock' = Free
          /\ UNCHANGED fileVars
       \/ /\ ~LinksBroken(st[w]) /\ Extends(rec[w], TipOnDisk(w))
          /\ lines' = Repaired.lines /\ tail' = Repaired.tail
          /\ synced' = Len(Repaired.lines)
          /\ st' = [st EXCEPT ![w] = Refreshed]
          /\ pc' = [pc EXCEPT ![w] = "write"]
          /\ UNCHANGED <<lock, rec, attempt, outcome>>
    /\ UNCHANGED <<orphans, chunk, op, acked, faults, verifier>>

\* write_all of `record\n`: any prefix of it may be what others see.
WriteLine(w) ==
    /\ pc[w] = "write"
    /\ \/ /\ tail = NoTail
          /\ tail' = Torn(rec[w])
          /\ UNCHANGED <<lines, pc>>
       \/ /\ tail.kind = "torn"
          /\ tail' = Whole(rec[w])
          /\ UNCHANGED <<lines, pc>>
       \/ /\ tail.kind = "whole"
          /\ lines' = Append(lines, rec[w]) /\ tail' = NoTail
          /\ pc' = [pc EXCEPT ![w] = "sync"]
    /\ UNCHANGED <<synced, lockVars, st, chunk, rec, op, attempt, outcome, acked,
                   faults, verifier>>

\* Mutant: Ok before sync_data.
AckUnsynced(w) ==
    /\ pc[w] = "sync"
    /\ st' = [st EXCEPT ![w] = [len |-> @.len + 1, tip |-> rec[w].record_hash]]
    /\ acked' = acked \cup {rec[w]}
    /\ rec' = [rec EXCEPT ![w] = NoRec]
    /\ pc' = [pc EXCEPT ![w] = "idle"]
    /\ outcome' = [outcome EXCEPT ![w] = "ok"]
    /\ lock' = Free
    /\ UNCHANGED <<fileVars, orphans, chunk, op, attempt, faults, verifier>>

\* sync_data, then Ok: the handle remembers the record, the lock is dropped.
SyncOk(w) ==
    /\ pc[w] = "sync"
    /\ synced' = Len(lines)
    /\ st' = [st EXCEPT ![w] = [len |-> @.len + 1, tip |-> rec[w].record_hash]]
    /\ acked' = acked \cup {rec[w]}
    /\ rec' = [rec EXCEPT ![w] = NoRec]
    /\ pc' = [pc EXCEPT ![w] = "idle"]
    /\ outcome' = [outcome EXCEPT ![w] = "ok"]
    /\ lock' = Free
    /\ UNCHANGED <<lines, tail, orphans, chunk, op, attempt, faults, verifier>>

\* Mutant: retry_append retries any error.
IoErrorRetried(w) ==
    /\ pc[w] = "sync"
    /\ faults.io < MaxIoErrors /\ RetriesLeft(w)
    /\ faults' = [faults EXCEPT !.io = @ + 1]
    /\ attempt' = [attempt EXCEPT ![w] = @ + 1]
    /\ rec' = [rec EXCEPT ![w] = NoRec]
    /\ pc' = [pc EXCEPT ![w] = "tip"]
    /\ lock' = Free
    /\ UNCHANGED <<fileVars, orphans, st, chunk, op, outcome, acked, verifier>>

\* A system call under the lock fails (refresh and repair_tail before they
\* have changed anything, write_all, sync_data): an error that is not a
\* race, so never retried.  What was written stays.
IoError(w) ==
    /\ pc[w] \in {"locked", "write", "sync"}
    /\ faults.io < MaxIoErrors
    /\ faults' = [faults EXCEPT !.io = @ + 1]
    /\ st' = [st EXCEPT ![w] = IF rec[w] = NoRec THEN EmptyHandle ELSE @]
    /\ rec' = [rec EXCEPT ![w] = NoRec]
    /\ pc' = [pc EXCEPT ![w] = AfterFailure(w)]
    /\ outcome' = [outcome EXCEPT ![w] = "io"]
    /\ lock' = Free
    /\ UNCHANGED <<fileVars, orphans, chunk, op, attempt, acked, verifier>>
-----------------------------------------------------------------------------
(***************************************************************************)
(* The environment: a killed process, a power loss.                        *)
(***************************************************************************)

\* The OS closes the process's files: its locks and its threads are gone,
\* what it had written so far stays.
Crash(w) ==
    /\ pc[w] # "closed"
    /\ faults.crash < MaxCrashes
    /\ faults' = [faults EXCEPT !.crash = @ + 1]
    /\ lock' = IF lock \in {HeldBy(w), OrphanOf(w)} THEN Free ELSE lock
    /\ orphans' = orphans \ {w}
    /\ pc' = [pc EXCEPT ![w] = "closed"]
    /\ st' = [st EXCEPT ![w] = EmptyHandle]
    /\ chunk' = [chunk EXCEPT ![w] = NoRec]
    /\ rec' = [rec EXCEPT ![w] = NoRec]
    /\ attempt' = [attempt EXCEPT ![w] = 0]
    /\ outcome' = [outcome EXCEPT ![w] = "none"]
    /\ UNCHANGED <<fileVars, op, acked, verifier>>

\* Every process dies; of what was written since the last sync_data any
\* prefix may have reached the disk.
PowerLoss ==
    /\ faults.power < MaxPowerLosses
    /\ faults' = [faults EXCEPT !.power = @ + 1]
    /\ \/ UNCHANGED <<lines, tail>>
       \/ \E k \in synced..Len(lines) :
             /\ lines' = SubSeq(Visible, 1, k)
             /\ tail' \in {NoTail} \cup
                   (IF k < Len(Visible)
                    THEN {Torn(Visible[k + 1]), Whole(Visible[k + 1])} ELSE {})
    /\ lock' = Free /\ orphans' = {}
    /\ pc' = [w \in Writers |-> "closed"]
    /\ st' = [w \in Writers |-> EmptyHandle]
    /\ chunk' = [w \in Writers |-> NoRec]
    /\ rec' = [w \in Writers |-> NoRec]
    /\ attempt' = [w \in Writers |-> 0]
    /\ outcome' = [w \in Writers |-> "none"]
    /\ verifier' = [v \in Readers |-> Report(verifier[v].report)]
    /\ UNCHANGED <<synced, op, acked>>
-----------------------------------------------------------------------------
(***************************************************************************)
(* verify_jsonl: record_iter streams the file into verify_records.         *)
(***************************************************************************)

\* Read to end of file, or until a torn chunk has been read.
VerifyRead(v) ==
    /\ \E how \in Reads(verifier[v].n, verifier[v].chunk) :
       LET n == verifier[v].n
           upTo == verify_chain(SubSeq(Visible, 1, n))
           reading == [pc |-> "chunk", n |-> Len(Visible), chunk |-> tail.rec,
                       report |-> verifier[v].report]
           broken == [records |-> n, intact |-> FALSE, broken_at |-> n]
       IN  verifier' = [verifier EXCEPT ![v] =
             CASE how = "torn" -> Report(upTo)
               [] how = "mixed" -> Report(IF upTo.intact THEN broken ELSE upTo)
               [] how = "more" /\ tail.kind = "torn" -> reading
               [] OTHER -> Report(verify_chain(Visible))]
    /\ UNCHANGED <<fileVars, lockVars, procVars, acked, faults>>
-----------------------------------------------------------------------------
Step(w) ==
    \/ OpenRead(w) \/ OpenRepair(w) \/ TryLock(w) \/ Granted(w)
    \/ Begin(w) \/ ReadTip(w) \/ CheckTip(w) \/ WriteLine(w) \/ SyncOk(w)

Orphan(w) == OrphanGranted(w) \/ OrphanReleases(w)

Fault(w) == LockTimeout(w) \/ IoError(w) \/ Crash(w)

Next ==
    \/ \E w \in Writers : Step(w) \/ Orphan(w) \/ Fault(w)
    \/ PowerLoss
    \/ \E v \in Readers : VerifyRead(v)

Spec == Init /\ [][Next]_vars

\* A process that has started a call goes on with it, as do the helper
\* threads; nobody has to open the file, start a call, or run a verifier.
FairSpec ==
    /\ Spec
    /\ \A w \in Writers : WF_vars(pc[w] \notin {"closed", "idle"} /\ Step(w))
    /\ \A w \in Writers : WF_vars(Orphan(w))
-----------------------------------------------------------------------------
(***************************************************************************)
(* Properties                                                              *)
(***************************************************************************)
FaultCounts == [crash : 0..MaxCrashes, power : 0..MaxPowerLosses,
                io : 0..MaxIoErrors, timeout : 0..MaxTimeouts]

TypeOK ==
    /\ IsSeq(lines)
    /\ tail.kind \in {"none", "torn", "whole"}
    /\ synced \in 0..Len(lines)
    /\ orphans \subseteq Writers
    /\ lock \in {Free} \cup {HeldBy(w) : w \in Writers} \cup {OrphanOf(w) : w \in orphans}
    /\ pc \in [Writers -> {"closed", "open", "idle", "tip", "try", "queued",
                           "locked", "write", "sync"}]
    /\ DOMAIN st = Writers /\ \A w \in Writers : st[w].len \in Nat
    /\ DOMAIN chunk = Writers /\ DOMAIN rec = Writers
    /\ op \in [Writers -> 0..MaxOps]
    /\ attempt \in [Writers -> 0..MaxRetries]
    /\ outcome \in [Writers -> {"none", "opened", "ok", "race", "timeout", "io",
                                "link", "corrupt"}]
    /\ \A r \in acked : r.index \in Nat
    /\ faults \in FaultCounts
    /\ DOMAIN verifier = Readers
    /\ \A v \in Readers : verifier[v].pc \in {"idle", "chunk"}

\* However writers, crashes and power losses interleave, the records a
\* reader parses are one unforked chain that `writ verify` accepts.
ChainIntact == VerifyIntact(Visible)

\* "Durability before Ok": a record whose append returned Ok is on disk, at
\* its own index, synced, and stays there whatever fails afterwards.
AckedKept ==
    \A r \in acked : r.index < synced /\ lines[r.index + 1] = r

\* The len and tip_hash a handle remembers are those of a prefix of the file
\* as it is now: a refresh never finds the file shrunk or the link broken,
\* even when the handle has consumed a record whose newline had not landed.
HandleOnChain ==
    \A w \in Writers :
        /\ st[w].len <= Len(Visible)
        /\ st[w].tip = TipHash(SubSeq(Visible, 1, st[w].len))

\* The unterminated line of a live writer is never taken for crash debris:
\* while it writes, the tail is its own line; when it syncs, that line is
\* the last of the file.
LineUndisturbed ==
    \A w \in Writers :
        /\ pc[w] = "write" /\ tail # NoTail => tail.rec = rec[w]
        /\ pc[w] = "sync" => tail = NoTail /\ lines # <<>> /\ lines[Len(lines)] = rec[w]

\* Each race a call loses is a record another process got in: retry_append
\* gives up only when others have recorded more than APPEND_RETRIES times.
RacesAreProgress ==
    \A w \in Writers :
        pc[w] \notin {"closed", "open"} =>
            attempt[w] + (IF outcome[w] = "race" THEN 1 ELSE 0)
              <= Cardinality({i \in 1..Len(Visible) : Visible[i].body[1] # w})

\* The store implements the append-only ledger: records are only added at
\* the tip, each record_* call adds at most one (so a retry never duplicates
\* a record), what is durable stays.
Abs == INSTANCE AppendOnlyLedger WITH log <- Visible, durable <- synced, Body <- Bodies

Refinement == Abs!Spec

\* A reader alongside writers never takes their lines for corruption.
NoFalseCorruption ==
    /\ \A w \in Writers : outcome[w] \notin {"corrupt", "link"}
    /\ \A v \in Readers : verifier[v].report.intact

\* Every open and every record_* call returns: no process waits for ever for
\* a lock a dead or timed-out process has left behind.
CallsReturn ==
    \A w \in Writers :
        pc[w] \notin {"closed", "idle"} ~> pc[w] \in {"closed", "idle"}
=============================================================================
