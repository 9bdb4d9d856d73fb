-------------------------- MODULE FileLedgerProofs --------------------------
(***************************************************************************)
(* Safety of the JSONL store for any number of processes, calls, retries   *)
(* and faults: the chain never forks, acknowledged records stay, and a     *)
(* call loses a race only to records that others got in.  And, as long as  *)
(* nothing is killed or fails: nobody takes a line that is just being      *)
(* written for corruption.                                                 *)
(***************************************************************************)
EXTENDS FileLedger, LedgerChainLemmas, FiniteSetTheorems

\* Between the grant of the lock and its release.
Critical == {"locked", "write", "sync"}

\* The OS lock excludes every other caller and every orphaned helper thread.
LockHeld == \A w \in Writers : pc[w] \in Critical => lock = HeldBy(w)

\* Records come from LedgerWriter::finalize.
RecBuilt ==
    \A w \in Writers :
        rec[w] # NoRec => rec[w] = Finalize(rec[w].index, rec[w].body, rec[w].prev_hash)

\* A record being written extends the complete lines, and the unterminated
\* bytes after them, if any, are its own.
Writing ==
    \A w \in Writers : pc[w] = "write" =>
        /\ rec[w] = Finalize(Len(lines), rec[w].body, TipHash(lines))
        /\ tail = NoTail \/ tail.rec = rec[w]

\* A record being synced is the last line.
Syncing ==
    \A w \in Writers : pc[w] = "sync" =>
        /\ tail = NoTail /\ Len(lines) > 0
        /\ rec[w] = lines[Len(lines)] /\ rec[w].index = Len(lines) - 1

\* The inductive invariant.
Ind ==
    /\ TypeOK /\ LockHeld /\ RecBuilt /\ Writing /\ Syncing
    /\ ChainIntact /\ AckedKept
-----------------------------------------------------------------------------
\* The kinds of unterminated chunk.
LEMMA TailFacts ==
    /\ NoTail.kind = "none" /\ NoTail.rec = NoRec
    /\ \A r : Torn(r).kind = "torn" /\ Torn(r).rec = r
    /\ \A r : Whole(r).kind = "whole" /\ Whole(r).rec = r
  BY DEF NoTail, Torn, Whole

\* What readers parse: the lines, and the tail when it is a whole record.
LEMMA VisibleFacts ==
    ASSUME TypeOK
    PROVE  /\ IsSeq(Visible)
           /\ Len(lines) \in Nat
           /\ Len(Visible) \in Len(lines)..(Len(lines) + 1)
           /\ \A i \in 1..Len(lines) : Visible[i] = lines[i]
           /\ tail.kind # "whole" => Visible = lines
           /\ tail.kind = "whole" => Len(Visible) = Len(lines) + 1
  BY AppendFacts, SeqFacts DEF TypeOK, Visible

\* The outcomes of a read.
LEMMA ReadsFacts ==
    ASSUME NEW n, NEW c
    PROVE  Reads(n, c) \subseteq {"more", "torn", "mixed"}
  BY DEF Reads, Reread

\* The results of an unlocked refresh.
LEMMA ReadStepFacts ==
    ASSUME TypeOK, NEW h, h.len \in Nat, NEW how \in {"more", "torn", "mixed"}
    PROVE  /\ ReadStep(h, how).h.len \in Nat
           /\ ReadStep(h, how).res \in {"torn", "corrupt", "link", "again", "ok"}
  <1>1. Refreshed.len \in Nat
    BY VisibleFacts, SeqFacts DEF Refreshed
  <1> QED BY <1>1 DEF ReadStep

\* Counting one more fault within its bound.
LEMMA FaultFacts ==
    ASSUME NEW f \in FaultCounts
    PROVE  /\ f.crash < MaxCrashes => [f EXCEPT !.crash = @ + 1] \in FaultCounts
           /\ f.power < MaxPowerLosses => [f EXCEPT !.power = @ + 1] \in FaultCounts
           /\ f.io < MaxIoErrors => [f EXCEPT !.io = @ + 1] \in FaultCounts
           /\ f.timeout < MaxTimeouts => [f EXCEPT !.timeout = @ + 1] \in FaultCounts
  BY BoundsAssumption DEF FaultCounts, BoundsAssumption

\* What a step that leaves the file alone has to show.
LEMMA FileKept ==
    ASSUME Ind, TypeOK', UNCHANGED <<lines, tail, synced, acked>>,
           LockHeld', RecBuilt',
           \A w \in Writers : pc'[w] \in {"write", "sync"} =>
                                 pc'[w] = pc[w] /\ rec'[w] = rec[w]
    PROVE  Ind'
  <1>1. Writing' /\ Syncing'
    BY DEF Ind, Writing, Syncing
  <1>2. ChainIntact' /\ AckedKept'
    BY DEF Ind, ChainIntact, Visible, AckedKept
  <1> QED BY <1>1, <1>2 DEF Ind

\* The holder of the lock is alone in the critical section.
LEMMA Alone ==
    ASSUME LockHeld, NEW w \in Writers, pc[w] \in Critical,
           NEW v \in Writers, v # w
    PROVE  pc[v] \notin Critical
  BY DEF LockHeld, HeldBy
-----------------------------------------------------------------------------
(***************************************************************************)
(* Steps that leave the file alone.                                        *)
(***************************************************************************)
\* An unlocked refresh at open: a process outside the critical section
\* stays outside it.
LEMMA OpenReadKeeps ==
    ASSUME Ind, NEW w \in Writers, OpenRead(w)
    PROVE  Ind'
  <1>1. PICK how \in Reads(st[w].len, chunk[w]) :
           LET s == ReadStep(st[w], how)
           IN  /\ chunk' = [chunk EXCEPT ![w] = NextChunk(s)]
               /\ st' = [st EXCEPT ![w] =
                            IF s.res \in {"corrupt", "link"} THEN EmptyHandle ELSE s.h]
               /\ pc' = [pc EXCEPT ![w] =
                            CASE s.res = "again" -> "open"
                              [] s.res = "torn" -> "try"
                              [] s.res = "ok" -> "idle"
                              [] OTHER -> "closed"]
               /\ outcome' = [outcome EXCEPT ![w] =
                                 IF s.res = "ok" THEN "opened"
                                 ELSE IF s.res \in {"corrupt", "link"} THEN s.res ELSE @]
    BY DEF OpenRead
  <1> DEFINE s == ReadStep(st[w], how)
  <1>2. s.h.len \in Nat /\ s.res \in {"torn", "corrupt", "link", "again", "ok"}
    <2>1. TypeOK /\ st[w].len \in Nat
      BY DEF Ind, TypeOK
    <2>2. how \in {"more", "torn", "mixed"}
      BY ReadsFacts
    <2> QED BY <2>1, <2>2, ReadStepFacts
  <1> DEFINE where == CASE s.res = "again" -> "open"
                        [] s.res = "torn" -> "try"
                        [] s.res = "ok" -> "idle"
                        [] OTHER -> "closed"
  <1>3. where \in {"open", "try", "idle", "closed"}
    BY <1>2
  <1>4. pc' = [pc EXCEPT ![w] = where]
    BY <1>1
  <1>5. UNCHANGED <<lines, tail, synced, lock, orphans, rec, op, attempt, acked,
                    faults, verifier>>
    BY DEF OpenRead, fileVars, lockVars
  <1>6. st'[w].len \in Nat /\ outcome'[w] \in {"none", "opened", "ok", "race", "timeout",
                                               "io", "link", "corrupt"}
    BY <1>1, <1>2 DEF Ind, TypeOK, EmptyHandle
  <1>7. /\ \A v \in Writers : v # w => /\ st'[v] = st[v]
                                       /\ outcome'[v] = outcome[v]
        /\ DOMAIN st' = Writers /\ DOMAIN chunk' = Writers
        /\ outcome' \in [Writers -> {outcome'[v] : v \in Writers}]
    BY <1>1 DEF Ind, TypeOK
  <1> HIDE DEF where, s
  <1>8. TypeOK'
    BY <1>3, <1>4, <1>5, <1>6, <1>7 DEF Ind, TypeOK
  <1>9. LockHeld' /\ RecBuilt'
    BY <1>3, <1>4, <1>5 DEF Ind, TypeOK, LockHeld, RecBuilt, Critical
  <1>10. \A v \in Writers : pc'[v] \in {"write", "sync"} => pc'[v] = pc[v] /\ rec'[v] = rec[v]
    BY <1>3, <1>4, <1>5 DEF Ind, TypeOK
  <1> QED BY <1>5, <1>8, <1>9, <1>10, FileKept

\* tip() and the building of the record.
LEMMA ReadTipKeeps ==
    ASSUME Ind, NEW w \in Writers, ReadTip(w)
    PROVE  Ind'
  <1>1. PICK how \in Reads(st[w].len, chunk[w]) :
           LET s == ReadStep(st[w], how)
               built == s.res \in {"ok", "torn"}
           IN  /\ chunk' = [chunk EXCEPT ![w] = NextChunk(s)]
               /\ st' = [st EXCEPT ![w] = s.h]
               /\ rec' = [rec EXCEPT ![w] =
                         IF built THEN Finalize(s.h.len, <<w, op[w]>>, s.h.tip) ELSE @]
               /\ pc' = [pc EXCEPT ![w] = IF built THEN "try"
                                          ELSE IF s.res = "again" THEN @ ELSE "idle"]
               /\ outcome' = [outcome EXCEPT ![w] =
                                 IF s.res \in {"corrupt", "link"} THEN s.res ELSE @]
    BY DEF ReadTip
  <1> DEFINE s == ReadStep(st[w], how)
             r == Finalize(s.h.len, <<w, op[w]>>, s.h.tip)
  <1>2. s.h.len \in Nat /\ s.res \in {"torn", "corrupt", "link", "again", "ok"}
    <2>1. TypeOK /\ st[w].len \in Nat
      BY DEF Ind, TypeOK
    <2>2. how \in {"more", "torn", "mixed"}
      BY ReadsFacts
    <2> QED BY <2>1, <2>2, ReadStepFacts
  <1>3. r = Finalize(r.index, r.body, r.prev_hash)
    BY DEF Finalize
  <1>4. UNCHANGED <<lines, tail, synced, lock, orphans, op, attempt, acked, faults, verifier>>
        /\ pc[w] = "tip"
    BY DEF ReadTip, fileVars, lockVars
  <1>5. rec' = [rec EXCEPT ![w] = IF s.res \in {"ok", "torn"} THEN r ELSE @]
    BY <1>1
  <1> HIDE DEF s, r
  <1>6. /\ st' = [st EXCEPT ![w] = s.h]
        /\ pc' = [pc EXCEPT ![w] = IF s.res \in {"ok", "torn"} THEN "try"
                                   ELSE IF s.res = "again" THEN @ ELSE "idle"]
        /\ outcome' = [outcome EXCEPT ![w] =
                          IF s.res \in {"corrupt", "link"} THEN s.res ELSE @]
        /\ DOMAIN chunk' = Writers
    BY <1>1 DEF s, Ind, TypeOK
  <1>7. TypeOK'
    BY <1>2, <1>4, <1>5, <1>6 DEF Ind, TypeOK
  <1>8. LockHeld'
    BY <1>4, <1>6 DEF Ind, TypeOK, LockHeld, Critical
  <1>9. RecBuilt'
    BY <1>3, <1>5 DEF Ind, TypeOK, RecBuilt
  <1>10. \A v \in Writers : pc'[v] \in {"write", "sync"} => pc'[v] = pc[v] /\ rec'[v] = rec[v]
    BY <1>4, <1>5, <1>6 DEF Ind, TypeOK
  <1> QED BY <1>4, <1>7, <1>8, <1>9, <1>10, FileKept

\* lock(): taking the lock, waiting for it.
LEMMA LockKeeps ==
    ASSUME Ind, NEW w \in Writers, TryLock(w) \/ Granted(w)
    PROVE  Ind'
  <1>1. /\ UNCHANGED <<lines, tail, synced, orphans, st, chunk, rec, op, attempt, outcome,
                       acked, faults, verifier>>
        /\ pc[w] \in {"try", "queued"}
        /\ \/ lock = Free /\ lock' = HeldBy(w) /\ pc' = [pc EXCEPT ![w] = "locked"]
           \/ lock' = lock /\ pc' = [pc EXCEPT ![w] = "queued"]
    BY DEF TryLock, Granted, fileVars
  <1>2. TypeOK'
    <2>1. lock' \in {Free} \cup {HeldBy(v) : v \in Writers} \cup {OrphanOf(v) : v \in orphans}
      BY <1>1 DEF Ind, TypeOK
    <2>2. pc' \in [Writers -> {"closed", "open", "idle", "tip", "try", "queued",
                              "locked", "write", "sync"}]
      BY <1>1, SMTT(30) DEF Ind, TypeOK
    <2>3. TypeOK
      BY DEF Ind
    <2> QED BY <1>1, <2>1, <2>2, <2>3, SMTT(30) DEF TypeOK
  <1>3. LockHeld'
    BY <1>1 DEF Ind, TypeOK, LockHeld, Critical, HeldBy, Free
  <1>4. RecBuilt'
    BY <1>1 DEF Ind, RecBuilt
  <1>5. \A v \in Writers : pc'[v] \in {"write", "sync"} => pc'[v] = pc[v] /\ rec'[v] = rec[v]
    BY <1>1 DEF Ind, TypeOK
  <1> QED BY <1>1, <1>2, <1>3, <1>4, <1>5, FileKept

\* The caller gives up on the lock.
LEMMA LockTimeoutKeeps ==
    ASSUME Ind, NEW w \in Writers, LockTimeout(w)
    PROVE  Ind'
  <1>1. /\ UNCHANGED <<lines, tail, synced, lock, chunk, op, attempt, acked, verifier>>
        /\ faults.timeout < MaxTimeouts
        /\ faults' = [faults EXCEPT !.timeout = @ + 1]
        /\ orphans' = orphans \cup {w}
        /\ pc' = [pc EXCEPT ![w] = AfterFailure(w)]
        /\ st' = [st EXCEPT ![w] = IF rec[w] = NoRec THEN EmptyHandle ELSE @]
        /\ rec' = [rec EXCEPT ![w] = NoRec]
        /\ outcome' = [outcome EXCEPT ![w] = "timeout"]
        /\ AfterFailure(w) \in {"closed", "idle"}
    BY DEF LockTimeout, fileVars, AfterFailure
  <1>2. faults' \in FaultCounts
    BY <1>1, FaultFacts DEF Ind, TypeOK
  <1>3. TypeOK'
    BY <1>1, <1>2 DEF Ind, TypeOK, EmptyHandle
  <1>4. LockHeld' /\ RecBuilt'
    BY <1>1 DEF Ind, TypeOK, LockHeld, RecBuilt, Critical
  <1>5. \A v \in Writers : pc'[v] \in {"write", "sync"} => pc'[v] = pc[v] /\ rec'[v] = rec[v]
    BY <1>1 DEF Ind, TypeOK
  <1> QED BY <1>1, <1>3, <1>4, <1>5, FileKept

\* A helper thread whose caller is gone takes and releases the lock.
LEMMA OrphanKeeps ==
    ASSUME Ind, NEW w \in Writers, Orphan(w)
    PROVE  Ind'
  <1>1. /\ UNCHANGED <<lines, tail, synced, pc, st, chunk, rec, op, attempt, outcome, acked,
                       faults, verifier>>
        /\ \/ w \in orphans /\ lock = Free /\ lock' = OrphanOf(w) /\ orphans' = orphans
           \/ lock = OrphanOf(w) /\ lock' = Free /\ orphans' = orphans \ {w}
    BY DEF Orphan, OrphanGranted, OrphanReleases, fileVars, procVars
  <1>2. TypeOK'
    BY <1>1 DEF Ind, TypeOK
  <1>3. LockHeld' /\ RecBuilt'
    BY <1>1 DEF Ind, LockHeld, RecBuilt, HeldBy, OrphanOf, Free
  <1> QED BY <1>1, <1>2, <1>3, FileKept

\* A record_* call starts.
LEMMA BeginKeeps ==
    ASSUME Ind, NEW w \in Writers, Begin(w)
    PROVE  Ind'
  <1>1. /\ UNCHANGED <<lines, tail, synced, lock, orphans, st, chunk, rec, acked, faults,
                       verifier>>
        /\ op[w] < MaxOps
        /\ pc' = [pc EXCEPT ![w] = "tip"]
        /\ op' = [op EXCEPT ![w] = @ + 1]
        /\ attempt' = [attempt EXCEPT ![w] = 0]
        /\ outcome' = [outcome EXCEPT ![w] = "none"]
    BY DEF Begin, fileVars, lockVars
  <1>2. TypeOK'
    <2>1. op' \in [Writers -> 0..MaxOps] /\ attempt' \in [Writers -> 0..MaxRetries]
      BY <1>1, BoundsAssumption DEF Ind, TypeOK, BoundsAssumption
    <2> QED BY <1>1, <2>1 DEF Ind, TypeOK
  <1>3. LockHeld' /\ RecBuilt'
    BY <1>1 DEF Ind, TypeOK, LockHeld, RecBuilt, Critical
  <1>4. \A v \in Writers : pc'[v] \in {"write", "sync"} => pc'[v] = pc[v] /\ rec'[v] = rec[v]
    BY <1>1 DEF Ind, TypeOK
  <1> QED BY <1>1, <1>2, <1>3, <1>4, FileKept

\* A failed system call under the lock releases it.
LEMMA IoErrorKeeps ==
    ASSUME Ind, NEW w \in Writers, IoError(w)
    PROVE  Ind'
  <1>1. /\ UNCHANGED <<lines, tail, synced, orphans, chunk, op, attempt, acked, verifier>>
        /\ pc[w] \in Critical
        /\ faults.io < MaxIoErrors
        /\ faults' = [faults EXCEPT !.io = @ + 1]
        /\ pc' = [pc EXCEPT ![w] = AfterFailure(w)]
        /\ st' = [st EXCEPT ![w] = IF rec[w] = NoRec THEN EmptyHandle ELSE @]
        /\ rec' = [rec EXCEPT ![w] = NoRec]
        /\ outcome' = [outcome EXCEPT ![w] = "io"]
        /\ lock' = Free
        /\ AfterFailure(w) \in {"closed", "idle"}
    BY DEF IoError, fileVars, AfterFailure, Critical
  <1>2. faults' \in FaultCounts
    BY <1>1, FaultFacts DEF Ind, TypeOK
  <1>3. TypeOK'
    BY <1>1, <1>2 DEF Ind, TypeOK, EmptyHandle
  <1>4. LockHeld'
    <2> SUFFICES ASSUME NEW v \in Writers, pc'[v] \in Critical PROVE FALSE
      BY DEF LockHeld
    <2>1. v # w
      BY <1>1 DEF Ind, TypeOK, Critical
    <2>2. pc[v] \in Critical
      BY <1>1, <2>1 DEF Ind, TypeOK
    <2> QED BY <1>1, <2>1, <2>2, Alone DEF Ind
  <1>5. RecBuilt'
    BY <1>1 DEF Ind, TypeOK, RecBuilt
  <1>6. \A v \in Writers : pc'[v] \in {"write", "sync"} => pc'[v] = pc[v] /\ rec'[v] = rec[v]
    BY <1>1 DEF Ind, TypeOK
  <1> QED BY <1>1, <1>3, <1>4, <1>5, <1>6, FileKept

\* A killed process loses its locks and its memory, not the file.
LEMMA CrashKeeps ==
    ASSUME Ind, NEW w \in Writers, Crash(w)
    PROVE  Ind'
  <1>1. /\ UNCHANGED <<lines, tail, synced, op, acked, verifier>>
        /\ faults.crash < MaxCrashes
        /\ faults' = [faults EXCEPT !.crash = @ + 1]
        /\ lock' = IF lock \in {HeldBy(w), OrphanOf(w)} THEN Free ELSE lock
        /\ orphans' = orphans \ {w}
        /\ pc' = [pc EXCEPT ![w] = "closed"]
        /\ st' = [st EXCEPT ![w] = EmptyHandle]
        /\ chunk' = [chunk EXCEPT ![w] = NoRec]
        /\ rec' = [rec EXCEPT ![w] = NoRec]
        /\ attempt' = [attempt EXCEPT ![w] = 0]
        /\ outcome' = [outcome EXCEPT ![w] = "none"]
    BY DEF Crash, fileVars
  <1>2. faults' \in FaultCounts
    BY <1>1, FaultFacts DEF Ind, TypeOK
  <1>3. TypeOK'
    <2>1. attempt' \in [Writers -> 0..MaxRetries]
      BY <1>1, BoundsAssumption DEF Ind, TypeOK, BoundsAssumption
    <2>2. lock' \in {Free} \cup {HeldBy(v) : v \in Writers} \cup {OrphanOf(v) : v \in orphans'}
      BY <1>1 DEF Ind, TypeOK
    <2> QED BY <1>1, <1>2, <2>1, <2>2 DEF Ind, TypeOK, EmptyHandle
  <1>4. LockHeld'
    <2> SUFFICES ASSUME NEW v \in Writers, pc'[v] \in Critical PROVE lock' = HeldBy(v)
      BY DEF LockHeld
    <2>1. v # w /\ pc[v] \in Critical
      BY <1>1 DEF Ind, TypeOK, Critical
    <2>2. lock = HeldBy(v)
      BY <2>1 DEF Ind, LockHeld
    <2> QED BY <1>1, <2>1, <2>2 DEF HeldBy, OrphanOf
  <1>5. RecBuilt'
    BY <1>1 DEF Ind, TypeOK, RecBuilt
  <1>6. \A v \in Writers : pc'[v] \in {"write", "sync"} => pc'[v] = pc[v] /\ rec'[v] = rec[v]
    BY <1>1 DEF Ind, TypeOK
  <1> QED BY <1>1, <1>3, <1>4, <1>5, <1>6, FileKept

\* A reader changes nothing but its own state.
LEMMA VerifyReadKeeps ==
    ASSUME Ind, NEW v \in Readers, VerifyRead(v)
    PROVE  Ind'
  <1>1. UNCHANGED <<lines, tail, synced, lock, orphans, pc, st, chunk, rec, op, attempt,
                    outcome, acked, faults>>
    BY DEF VerifyRead, fileVars, lockVars, procVars
  <1>2. \E x : verifier' = [verifier EXCEPT ![v] = x] /\ x.pc \in {"idle", "chunk"}
    <2>1. PICK how \in Reads(verifier[v].n, verifier[v].chunk) :
            LET n == verifier[v].n
                upTo == verify_chain(SubSeq(Visible, 1, n))
                reading == [pc |-> "chunk", n |-> Len(Visible), chunk |-> tail.rec,
                            report |-> verifier[v].report]
                broken == [records |-> n, intact |-> FALSE, broken_at |-> n]
            IN  verifier' = [verifier EXCEPT ![v] =
                  CASE how = "torn" -> Report(upTo)
                    [] how = "mixed" -> Report(IF upTo.intact THEN broken ELSE upTo)
                    [] how = "more" /\ tail.kind = "torn" -> reading
                    [] OTHER -> Report(verify_chain(Visible))]
      BY DEF VerifyRead
    <2>2. \A r : Report(r).pc = "idle"
      BY DEF Report
    <2>3. how \in {"more", "torn", "mixed"}
      BY ReadsFacts
    <2>4. CASE how = "torn"
      BY <2>1, <2>2, <2>4
    <2>5. CASE how = "mixed"
      BY <2>1, <2>2, <2>5
    <2>6. CASE how = "more" /\ tail.kind = "torn"
      <3> DEFINE x == [pc |-> "chunk", n |-> Len(Visible), chunk |-> tail.rec,
                       report |-> verifier[v].report]
      <3>1. verifier' = [verifier EXCEPT ![v] = x]
        BY <2>1, <2>6
      <3>2. x.pc = "chunk"
        OBVIOUS
      <3> HIDE DEF x
      <3> QED BY <3>1, <3>2
    <2>7. CASE how = "more" /\ tail.kind # "torn"
      BY <2>1, <2>2, <2>7
    <2> QED BY <2>3, <2>4, <2>5, <2>6, <2>7
  <1>3. TypeOK'
    BY <1>1, <1>2 DEF Ind, TypeOK
  <1>4. LockHeld' /\ RecBuilt'
    BY <1>1 DEF Ind, LockHeld, RecBuilt
  <1> QED BY <1>1, <1>3, <1>4, FileKept
-----------------------------------------------------------------------------
(***************************************************************************)
(* Steps that change the file.                                             *)
(***************************************************************************)
\* repair_tail by the holder of the lock: readers see the same records, all
\* of them complete lines now.
LEMMA RepairFacts ==
    ASSUME Ind, NEW w \in Writers, pc[w] \in Critical,
           lines' = Repaired.lines, tail' = Repaired.tail, synced' = Len(Repaired.lines),
           UNCHANGED acked
    PROVE  /\ lines' = Visible /\ tail' = NoTail /\ Visible' = Visible
           /\ IsSeq(lines') /\ synced' \in 0..Len(lines')
           /\ tail'.kind \in {"none", "torn", "whole"}
           /\ ChainIntact' /\ AckedKept'
  <1>1. lines' = Visible /\ tail' = NoTail /\ synced' = Len(Visible)
    BY DEF Repaired
  <1>2. Visible' = Visible
    BY <1>1, TailFacts DEF Visible
  <1>3. IsSeq(Visible) /\ Len(lines) \in Nat /\ Len(Visible) \in Nat
        /\ Len(lines) <= Len(Visible)
        /\ \A i \in 1..Len(lines) : Visible[i] = lines[i]
    BY VisibleFacts, SeqFacts DEF Ind
  <1>4. ChainIntact'
    BY <1>2 DEF Ind, ChainIntact
  <1>5. AckedKept'
    <2> SUFFICES ASSUME NEW r \in acked
                 PROVE  r.index < synced' /\ lines'[r.index + 1] = r
      BY DEF AckedKept
    <2>1. r.index \in Nat /\ r.index < synced /\ lines[r.index + 1] = r
          /\ synced \in 0..Len(lines)
      BY DEF Ind, TypeOK, AckedKept
    <2> QED BY <1>1, <1>3, <2>1
  <1> QED BY <1>1, <1>2, <1>3, <1>4, <1>5, TailFacts

\* open() with the lock: repair, release.
LEMMA OpenRepairKeeps ==
    ASSUME Ind, NEW w \in Writers, OpenRepair(w)
    PROVE  Ind'
  <1>0. /\ pc[w] = "locked" /\ rec[w] = NoRec /\ lock' = Free
        /\ UNCHANGED <<orphans, chunk, rec, op, attempt, acked, faults, verifier>>
    BY DEF OpenRepair
  <1>1. ASSUME NEW where \in {"closed", "idle"}, pc' = [pc EXCEPT ![w] = where]
        PROVE  /\ LockHeld' /\ RecBuilt'
               /\ \A v \in Writers : pc'[v] \notin {"write", "sync"}
    <2>1. \A v \in Writers : pc'[v] \notin Critical
      <3> SUFFICES ASSUME NEW v \in Writers PROVE pc'[v] \notin Critical
        OBVIOUS
      <3>1. CASE v = w
        BY <1>1, <3>1 DEF Ind, TypeOK, Critical
      <3>2. CASE v # w
        <4>1. pc'[v] = pc[v]
          BY <1>1, <3>2 DEF Ind, TypeOK
        <4>2. pc[v] \notin Critical
          BY <1>0, <3>2, Alone DEF Ind, Critical
        <4> QED BY <4>1, <4>2
      <3> QED BY <3>1, <3>2
    <2> QED BY <1>0, <2>1 DEF Ind, LockHeld, RecBuilt, Critical
  <1>2. CASE LinksBroken(st[w])
    <2>1. /\ st' = [st EXCEPT ![w] = EmptyHandle]
          /\ pc' = [pc EXCEPT ![w] = "closed"]
          /\ outcome' = [outcome EXCEPT ![w] = "link"]
          /\ UNCHANGED <<lines, tail, synced>>
      BY <1>2 DEF OpenRepair, fileVars
    <2>2. TypeOK'
      BY <1>0, <2>1 DEF Ind, TypeOK, EmptyHandle
    <2> QED BY <1>0, <1>1, <2>1, <2>2, FileKept
  <1>3. CASE ~LinksBroken(st[w])
    <2>1. /\ st' = [st EXCEPT ![w] = Refreshed]
          /\ pc' = [pc EXCEPT ![w] = "idle"]
          /\ outcome' = [outcome EXCEPT ![w] = "opened"]
          /\ lines' = Repaired.lines /\ tail' = Repaired.tail
          /\ synced' = Len(Repaired.lines)
      BY <1>3 DEF OpenRepair
    <2>2. /\ IsSeq(lines') /\ synced' \in 0..Len(lines')
          /\ tail'.kind \in {"none", "torn", "whole"}
          /\ ChainIntact' /\ AckedKept'
      BY <1>0, <2>1, RepairFacts DEF Critical
    <2>3. Refreshed.len \in Nat
      BY VisibleFacts, SeqFacts DEF Ind, Refreshed
    <2>4. TypeOK'
      BY <1>0, <2>1, <2>2, <2>3 DEF Ind, TypeOK
    <2>5. Writing' /\ Syncing'
      BY <1>1, <2>1 DEF Writing, Syncing
    <2> QED BY <1>1, <2>1, <2>2, <2>4, <2>5 DEF Ind
  <1> QED BY <1>2, <1>3

\* append() with the lock: a rejected record changes nothing; an accepted one
\* extends what readers see, which is now all complete lines.
LEMMA CheckTipKeeps ==
    ASSUME Ind, NEW w \in Writers, CheckTip(w)
    PROVE  Ind'
  <1>0. /\ pc[w] = "locked" /\ rec[w] # NoRec
        /\ UNCHANGED <<orphans, chunk, op, acked, faults, verifier>>
    BY DEF CheckTip
  <1>1. \A v \in Writers : v # w => pc[v] \notin Critical
    BY <1>0, Alone DEF Ind, Critical
  <1>2. Refreshed.len \in Nat
    BY VisibleFacts, SeqFacts DEF Ind, Refreshed
  <1>3. CASE /\ \E where \in {"tip", "idle"}, how \in {"link", "race", outcome[w]},
                   n \in {attempt[w], attempt[w] + 1} :
                   /\ pc' = [pc EXCEPT ![w] = where]
                   /\ attempt' = [attempt EXCEPT ![w] = n] /\ n <= MaxRetries
                   /\ outcome' = [outcome EXCEPT ![w] = how]
             /\ st' = [st EXCEPT ![w] = IF LinksBroken(@) THEN @ ELSE Refreshed]
             /\ rec' = [rec EXCEPT ![w] = NoRec]
             /\ lock' = Free
             /\ UNCHANGED <<lines, tail, synced>>
    <2>1. TypeOK'
      <3>1. attempt' \in [Writers -> 0..MaxRetries]
        BY <1>3, BoundsAssumption DEF Ind, TypeOK, BoundsAssumption
      <3>2. pc' \in [Writers -> {"closed", "open", "idle", "tip", "try", "queued",
                                "locked", "write", "sync"}]
        BY <1>3 DEF Ind, TypeOK
      <3>3. outcome' \in [Writers -> {"none", "opened", "ok", "race", "timeout", "io",
                                     "link", "corrupt"}]
        BY <1>3 DEF Ind, TypeOK
      <3>4. DOMAIN st' = Writers /\ \A v \in Writers : st'[v].len \in Nat
        BY <1>2, <1>3 DEF Ind, TypeOK
      <3> QED BY <1>0, <1>3, <3>1, <3>2, <3>3, <3>4 DEF Ind, TypeOK
    <2>2. \A v \in Writers : pc'[v] \notin Critical
      BY <1>1, <1>3 DEF Ind, TypeOK, Critical
    <2>3. LockHeld' /\ RecBuilt'
      BY <1>3, <2>2 DEF Ind, TypeOK, LockHeld, RecBuilt
    <2> QED BY <1>0, <1>3, <2>1, <2>2, <2>3, FileKept DEF Critical
  <1>4. CASE /\ ~LinksBroken(st[w]) /\ Extends(rec[w], TipOnDisk(w))
             /\ lines' = Repaired.lines /\ tail' = Repaired.tail
             /\ synced' = Len(Repaired.lines)
             /\ st' = [st EXCEPT ![w] = Refreshed]
             /\ pc' = [pc EXCEPT ![w] = "write"]
             /\ UNCHANGED <<lock, rec, attempt, outcome>>
    <2>1. /\ lines' = Visible /\ tail' = NoTail
          /\ IsSeq(lines') /\ synced' \in 0..Len(lines')
          /\ tail'.kind \in {"none", "torn", "whole"}
          /\ ChainIntact' /\ AckedKept'
      BY <1>0, <1>4, RepairFacts DEF Critical
    <2>2. TypeOK'
      BY <1>0, <1>2, <1>4, <2>1 DEF Ind, TypeOK
    <2>3. LockHeld' /\ RecBuilt'
      BY <1>0, <1>4 DEF Ind, TypeOK, LockHeld, RecBuilt, Critical
    <2>4. rec[w] = Finalize(Len(Visible), rec[w].body, TipHash(Visible))
      BY <1>0, <1>4 DEF Ind, RecBuilt, Extends, TipOnDisk, Refreshed
    <2>5. TipHash(lines)' = TipHash(Visible) /\ Len(lines') = Len(Visible)
      BY <2>1 DEF TipHash
    <2>6. Writing'
      BY <1>1, <1>4, <2>1, <2>4, <2>5 DEF Ind, TypeOK, Writing, Critical
    <2>7. Syncing'
      BY <1>1, <1>4 DEF Ind, TypeOK, Syncing, Critical
    <2> QED BY <2>1, <2>2, <2>3, <2>6, <2>7 DEF Ind
  <1>5. QED
    <2>1. CASE LinksBroken(st[w]) \/ ~Extends(rec[w], TipOnDisk(w))
      <3> DEFINE race == ~LinksBroken(st[w]) /\ RetriesLeft(w)
                 where == IF race THEN "tip" ELSE "idle"
                 n == IF race THEN attempt[w] + 1 ELSE attempt[w]
                 how == IF LinksBroken(st[w]) THEN "link"
                        ELSE IF race THEN outcome[w] ELSE "race"
      <3>1. /\ pc' = [pc EXCEPT ![w] = where]
            /\ attempt' = [attempt EXCEPT ![w] = n]
            /\ outcome' = [outcome EXCEPT ![w] = how]
            /\ st' = [st EXCEPT ![w] = IF LinksBroken(@) THEN @ ELSE Refreshed]
            /\ rec' = [rec EXCEPT ![w] = NoRec]
            /\ lock' = Free
            /\ UNCHANGED <<lines, tail, synced>>
        BY <2>1 DEF CheckTip, fileVars
      <3>2. where \in {"tip", "idle"} /\ how \in {"link", "race", outcome[w]}
            /\ n \in {attempt[w], attempt[w] + 1} /\ n <= MaxRetries
        BY BoundsAssumption DEF Ind, TypeOK, RetriesLeft, BoundsAssumption
      <3> HIDE DEF where, how, n
      <3> QED BY <1>3, <3>1, <3>2
    <2>2. CASE ~LinksBroken(st[w]) /\ Extends(rec[w], TipOnDisk(w))
      BY <1>4, <2>2 DEF CheckTip
    <2> QED BY <2>1, <2>2

\* write_all: the record becomes visible when its last byte before the newline
\* lands, and it extends the chain.
LEMMA WriteLineKeeps ==
    ASSUME Ind, NEW w \in Writers, WriteLine(w)
    PROVE  Ind'
  <1>0. /\ pc[w] = "write"
        /\ UNCHANGED <<synced, lock, orphans, st, chunk, rec, op, attempt, outcome, acked,
                       faults, verifier>>
    BY DEF WriteLine, lockVars
  <1>1. \A v \in Writers : v # w => pc[v] \notin Critical
    BY <1>0, Alone DEF Ind, Critical
  <1>2. /\ rec[w] = Finalize(Len(lines), rec[w].body, TipHash(lines))
        /\ tail = NoTail \/ tail.rec = rec[w]
    BY <1>0 DEF Ind, Writing
  <1>3. IsSeq(lines) /\ Len(lines) \in Nat
    BY SeqFacts DEF Ind, TypeOK
  <1>4. /\ IsSeq(Append(lines, rec[w])) /\ Len(Append(lines, rec[w])) = Len(lines) + 1
        /\ \A i \in 1..Len(lines) : Append(lines, rec[w])[i] = lines[i]
        /\ Append(lines, rec[w])[Len(lines) + 1] = rec[w]
    BY <1>3, AppendFacts
  <1>5. RecBuilt'
    BY <1>0 DEF Ind, RecBuilt
  <1>6. VerifyIntact(lines)
    <2>1. CASE tail.kind = "whole"
      <3>1. tail # NoTail
        BY <2>1, TailFacts
      <3>2. Visible = Append(lines, rec[w])
        BY <1>2, <2>1, <3>1 DEF Visible
      <3>3. SubSeq(Visible, 1, Len(lines)) = lines
        BY <1>3, <3>2, PrefixOfAppend
      <3>4. IsSeq(Visible) /\ Len(lines) \in 0..Len(Visible)
        BY <1>3, <1>4, <3>2
      <3> QED BY <3>3, <3>4, PrefixIntact DEF Ind, ChainIntact
    <2>2. CASE tail.kind # "whole"
      BY <2>2 DEF Ind, ChainIntact, Visible
    <2> QED BY <2>1, <2>2
  <1>7. VerifyIntact(Append(lines, rec[w]))
    BY <1>2, <1>3, <1>6, AppendIntact
  <1>8. CASE tail = NoTail /\ tail' = Torn(rec[w]) /\ UNCHANGED <<lines, pc>>
    <2>1. tail'.kind = "torn" /\ tail'.rec = rec'[w] /\ Visible' = lines
      BY <1>0, <1>8, TailFacts DEF Visible
    <2>2. TypeOK'
      BY <1>0, <1>8, <2>1 DEF Ind, TypeOK
    <2>3. Writing' /\ Syncing'
      BY <1>0, <1>1, <1>8, <2>1 DEF Ind, Writing, Syncing, Critical
    <2>4. LockHeld' /\ AckedKept'
      BY <1>0, <1>8 DEF Ind, LockHeld, AckedKept
    <2> QED BY <1>5, <1>6, <2>1, <2>2, <2>3, <2>4 DEF Ind, ChainIntact
  <1>9. CASE tail.kind = "torn" /\ tail' = Whole(rec[w]) /\ UNCHANGED <<lines, pc>>
    <2>1. tail'.kind = "whole" /\ tail'.rec = rec'[w] /\ Visible' = Append(lines, rec[w])
      BY <1>0, <1>9, TailFacts DEF Visible
    <2>2. TypeOK'
      BY <1>0, <1>9, <2>1 DEF Ind, TypeOK
    <2>3. Writing' /\ Syncing'
      BY <1>0, <1>1, <1>9, <2>1 DEF Ind, Writing, Syncing, Critical
    <2>4. LockHeld' /\ AckedKept'
      BY <1>0, <1>9 DEF Ind, LockHeld, AckedKept
    <2> QED BY <1>5, <1>7, <2>1, <2>2, <2>3, <2>4 DEF Ind, ChainIntact
  <1>10. CASE /\ tail.kind = "whole"
              /\ lines' = Append(lines, rec[w]) /\ tail' = NoTail
              /\ pc' = [pc EXCEPT ![w] = "sync"]
    <2>1. tail'.kind = "none" /\ Visible' = Append(lines, rec[w])
      BY <1>10, TailFacts DEF Visible
    <2>2. TypeOK'
      <3>1. synced' \in 0..Len(lines')
        BY <1>0, <1>3, <1>4, <1>10 DEF Ind, TypeOK
      <3> QED BY <1>0, <1>4, <1>10, <2>1, <3>1 DEF Ind, TypeOK
    <2>3. Writing'
      BY <1>1, <1>10 DEF Ind, TypeOK, Writing, Critical
    <2>4. rec[w].index = Len(lines)
      BY <1>2, FinalizeFacts
    <2>5. Syncing'
      BY <1>0, <1>1, <1>3, <1>4, <1>10, <2>4 DEF Ind, TypeOK, Syncing, Critical
    <2>6. LockHeld'
      BY <1>0, <1>10 DEF Ind, TypeOK, LockHeld, Critical
    <2>7. AckedKept'
      <3> SUFFICES ASSUME NEW r \in acked
                   PROVE  r.index < synced /\ lines'[r.index + 1] = r
        BY <1>0 DEF AckedKept
      <3>1. r.index \in Nat /\ r.index < synced /\ lines[r.index + 1] = r
            /\ synced \in 0..Len(lines)
        BY DEF Ind, TypeOK, AckedKept
      <3> QED BY <1>3, <1>4, <1>10, <3>1
    <2> QED BY <1>5, <1>7, <2>1, <2>2, <2>3, <2>5, <2>6, <2>7 DEF Ind, ChainIntact
  <1> QED BY <1>8, <1>9, <1>10 DEF WriteLine

\* sync_data, then Ok.
LEMMA SyncOkKeeps ==
    ASSUME Ind, NEW w \in Writers, SyncOk(w)
    PROVE  Ind'
  <1>0. /\ pc[w] = "sync" /\ synced' = Len(lines)
        /\ st' = [st EXCEPT ![w] = [len |-> @.len + 1, tip |-> rec[w].record_hash]]
        /\ acked' = acked \cup {rec[w]}
        /\ rec' = [rec EXCEPT ![w] = NoRec]
        /\ pc' = [pc EXCEPT ![w] = "idle"]
        /\ outcome' = [outcome EXCEPT ![w] = "ok"]
        /\ lock' = Free
        /\ UNCHANGED <<lines, tail, orphans, chunk, op, attempt, faults, verifier>>
    BY DEF SyncOk
  <1>1. \A v \in Writers : v # w => pc[v] \notin Critical
    BY <1>0, Alone DEF Ind, Critical
  <1>2. /\ Len(lines) \in Nat /\ Len(lines) > 0
        /\ rec[w] = lines[Len(lines)] /\ rec[w].index = Len(lines) - 1
    BY <1>0, SeqFacts DEF Ind, TypeOK, Syncing
  <1>3. TypeOK'
    <2>1. DOMAIN st' = Writers /\ \A v \in Writers : st'[v].len \in Nat
      BY <1>0 DEF Ind, TypeOK
    <2>2. \A r \in acked' : r.index \in Nat
      BY <1>0, <1>2 DEF Ind, TypeOK
    <2> QED BY <1>0, <1>2, <2>1, <2>2 DEF Ind, TypeOK
  <1>4. \A v \in Writers : pc'[v] \notin Critical
    BY <1>0, <1>1 DEF Ind, TypeOK, Critical
  <1>5. LockHeld' /\ RecBuilt' /\ Writing' /\ Syncing'
    BY <1>0, <1>4 DEF Ind, TypeOK, LockHeld, RecBuilt, Writing, Syncing, Critical
  <1>6. ChainIntact'
    BY <1>0 DEF Ind, ChainIntact, Visible
  <1>7. AckedKept'
    <2> SUFFICES ASSUME NEW r \in acked \cup {rec[w]}
                 PROVE  r.index < Len(lines) /\ lines[r.index + 1] = r
      BY <1>0 DEF AckedKept
    <2>1. CASE r \in acked
      BY <1>2, <2>1 DEF Ind, TypeOK, AckedKept
    <2>2. CASE r = rec[w]
      BY <1>2, <2>2
    <2> QED BY <2>1, <2>2
  <1> QED BY <1>3, <1>5, <1>6, <1>7 DEF Ind

\* A power loss: every process is gone, and what readers will see is a prefix
\* of what they saw, at least as long as what was synced.
LEMMA PowerLossKeeps ==
    ASSUME Ind, PowerLoss
    PROVE  Ind'
  <1>0. /\ faults.power < MaxPowerLosses
        /\ faults' = [faults EXCEPT !.power = @ + 1]
        /\ lock' = Free /\ orphans' = {}
        /\ pc' = [w \in Writers |-> "closed"]
        /\ st' = [w \in Writers |-> EmptyHandle]
        /\ chunk' = [w \in Writers |-> NoRec]
        /\ rec' = [w \in Writers |-> NoRec]
        /\ attempt' = [w \in Writers |-> 0]
        /\ outcome' = [w \in Writers |-> "none"]
        /\ verifier' = [v \in Readers |-> Report(verifier[v].report)]
        /\ UNCHANGED <<synced, op, acked>>
    BY DEF PowerLoss
  <1>1. /\ IsSeq(Visible) /\ Len(lines) \in Nat /\ Len(Visible) \in Nat
        /\ Len(lines) <= Len(Visible)
        /\ \A i \in 1..Len(lines) : Visible[i] = lines[i]
    BY VisibleFacts, SeqFacts DEF Ind
  <1>2. /\ IsSeq(lines') /\ synced \in 0..Len(lines')
        /\ tail'.kind \in {"none", "torn", "whole"}
        /\ VerifyIntact(Visible')
        /\ \A i \in 1..synced : lines'[i] = lines[i]
    <2>1. CASE UNCHANGED <<lines, tail>>
      BY <2>1 DEF Ind, TypeOK, ChainIntact, Visible
    <2>2. ASSUME NEW k \in synced..Len(lines),
                 lines' = SubSeq(Visible, 1, k),
                 tail' \in {NoTail} \cup
                   (IF k < Len(Visible)
                    THEN {Torn(Visible[k + 1]), Whole(Visible[k + 1])} ELSE {})
          PROVE  /\ IsSeq(lines') /\ synced \in 0..Len(lines')
                 /\ tail'.kind \in {"none", "torn", "whole"}
                 /\ VerifyIntact(Visible')
                 /\ \A i \in 1..synced : lines'[i] = lines[i]
      <3>1. k \in 0..Len(Visible) /\ synced \in 0..k /\ k <= Len(lines)
        BY <1>1 DEF Ind, TypeOK
      <3>2. IsSeq(lines') /\ Len(lines') = k /\ \A i \in 1..k : lines'[i] = Visible[i]
        BY <1>1, <2>2, <3>1, PrefixFacts
      <3>3. \A i \in 1..synced : lines'[i] = lines[i]
        BY <1>1, <3>1, <3>2
      <3>4. VerifyIntact(lines')
        BY <1>1, <2>2, <3>1, PrefixIntact DEF Ind, ChainIntact
      <3>5. CASE tail' = NoTail \/ tail' = Torn(Visible[k + 1])
        <4>1. tail'.kind \in {"none", "torn"} /\ Visible' = lines'
          BY <3>5, TailFacts DEF Visible
        <4> QED BY <3>1, <3>2, <3>3, <3>4, <4>1
      <3>6. CASE k < Len(Visible) /\ tail' = Whole(Visible[k + 1])
        <4>1. tail'.kind = "whole" /\ tail'.rec = Visible[k + 1]
          BY <3>6, TailFacts
        <4>2. Visible' = Append(SubSeq(Visible, 1, k), Visible[k + 1])
          BY <2>2, <4>1 DEF Visible
        <4>3. k \in 0..(Len(Visible) - 1) /\ k + 1 \in 0..Len(Visible)
          BY <1>1, <3>1, <3>6
        <4>4. Visible' = SubSeq(Visible, 1, k + 1)
          BY <1>1, <4>2, <4>3, PrefixGrows
        <4>5. VerifyIntact(Visible')
          BY <1>1, <4>3, <4>4, PrefixIntact DEF Ind, ChainIntact
        <4> QED BY <3>1, <3>2, <3>3, <4>1, <4>5
      <3> QED BY <2>2, <3>5, <3>6
    <2> QED BY <2>1, <2>2 DEF PowerLoss
  <1>3. faults' \in FaultCounts
    BY <1>0, FaultFacts DEF Ind, TypeOK
  <1>4. TypeOK'
    <2>1. attempt' \in [Writers -> 0..MaxRetries]
      BY <1>0, BoundsAssumption DEF BoundsAssumption
    <2>2. DOMAIN verifier' = Readers /\ \A v \in Readers : verifier'[v].pc = "idle"
      BY <1>0 DEF Report
    <2> QED BY <1>0, <1>2, <1>3, <2>1, <2>2 DEF Ind, TypeOK, EmptyHandle
  <1>5. LockHeld' /\ RecBuilt' /\ Writing' /\ Syncing'
    BY <1>0 DEF LockHeld, RecBuilt, Writing, Syncing, Critical
  <1>6. AckedKept'
    <2> SUFFICES ASSUME NEW r \in acked
                 PROVE  r.index < synced /\ lines'[r.index + 1] = r
      BY <1>0 DEF AckedKept
    <2>1. r.index \in Nat /\ r.index < synced /\ lines[r.index + 1] = r
      BY DEF Ind, TypeOK, AckedKept
    <2> QED BY <1>1, <1>2, <2>1 DEF Ind, TypeOK
  <1> QED BY <1>2, <1>4, <1>5, <1>6 DEF Ind, ChainIntact
-----------------------------------------------------------------------------
(***************************************************************************)
(* The theorems                                                            *)
(***************************************************************************)
\* An empty file, nobody running.
LEMMA IndInit == Init => Ind
  <1> SUFFICES ASSUME Init PROVE Ind
    OBVIOUS
  <1>1. lines \in Seq({}) /\ Len(lines) = 0 /\ Visible = lines
    BY TailFacts DEF Init, Visible
  <1>2. IsSeq(lines)
    BY <1>1, IsSeqIntro
  <1>3. faults \in FaultCounts
    BY BoundsAssumption DEF Init, FaultCounts, BoundsAssumption
  <1>4. DOMAIN verifier = Readers /\ \A v \in Readers : verifier[v].pc = "idle"
    BY DEF Init, Report
  <1>5. op \in [Writers -> 0..MaxOps] /\ attempt \in [Writers -> 0..MaxRetries]
    BY BoundsAssumption DEF Init, BoundsAssumption
  <1>6. TypeOK
    BY <1>1, <1>2, <1>3, <1>4, <1>5, TailFacts DEF Init, TypeOK, EmptyHandle
  <1>7. LockHeld /\ RecBuilt /\ Writing /\ Syncing
    BY DEF Init, LockHeld, RecBuilt, Writing, Syncing, Critical
  <1>8. ChainIntact /\ AckedKept
    BY <1>1 DEF Init, ChainIntact, VerifyIntact, AckedKept
  <1> QED BY <1>6, <1>7, <1>8 DEF Ind

\* One case per action.
LEMMA IndNext == Ind /\ [Next]_vars => Ind'
  <1> SUFFICES ASSUME Ind, [Next]_vars PROVE Ind'
    OBVIOUS
  <1>1. ASSUME NEW w \in Writers, Step(w) PROVE Ind'
    BY <1>1, OpenReadKeeps, OpenRepairKeeps, LockKeeps, BeginKeeps, ReadTipKeeps,
       CheckTipKeeps, WriteLineKeeps, SyncOkKeeps DEF Step
  <1>2. ASSUME NEW w \in Writers, Orphan(w) PROVE Ind'
    BY <1>2, OrphanKeeps
  <1>3. ASSUME NEW w \in Writers, Fault(w) PROVE Ind'
    BY <1>3, LockTimeoutKeeps, IoErrorKeeps, CrashKeeps DEF Fault
  <1>4. CASE PowerLoss
    BY <1>4, PowerLossKeeps
  <1>5. ASSUME NEW v \in Readers, VerifyRead(v) PROVE Ind'
    BY <1>5, VerifyReadKeeps
  <1>6. CASE UNCHANGED vars
    BY <1>6 DEF vars, Ind, TypeOK, LockHeld, RecBuilt, Writing, Syncing, ChainIntact,
               AckedKept, Visible
  <1> QED BY <1>1, <1>2, <1>3, <1>4, <1>5, <1>6 DEF Next

\* The inductive invariant holds of the store's every state.
LEMMA Invariance == Spec => []Ind
  BY IndInit, IndNext, PTL DEF Spec

\* Type correctness of the store: counters stay within their bounds, the
\* synced part within the file, the lock with a caller or a live orphan.
THEOREM TypeCorrect == Spec => []TypeOK
  <1>1. Ind => TypeOK
    BY DEF Ind
  <1> QED BY <1>1, Invariance, PTL

\* "The chain therefore cannot fork": for any number of processes appending,
\* timing out, failing and dying in any order, and any number of power
\* losses, the records readers parse are one chain that verify accepts.
THEOREM ChainNeverForks == Spec => []ChainIntact
  <1>1. Ind => ChainIntact
    BY DEF Ind
  <1> QED BY <1>1, Invariance, PTL

\* "Durability before Ok": a record whose append returned Ok stays at its
\* index, synced, through every later fault.
THEOREM AcknowledgedStays == Spec => []AckedKept
  <1>1. Ind => AckedKept
    BY DEF Ind
  <1> QED BY <1>1, Invariance, PTL

\* repair_tail never takes the line of a live writer for crash debris.
THEOREM LinesUndisturbed == Spec => []LineUndisturbed
  <1>1. Ind => LineUndisturbed
    <2> SUFFICES ASSUME Ind PROVE LineUndisturbed
      OBVIOUS
    <2>1. \A w \in Writers : pc[w] = "write" /\ tail # NoTail => tail.rec = rec[w]
      BY DEF Ind, Writing
    <2>2. ASSUME NEW w \in Writers, pc[w] = "sync"
          PROVE  tail = NoTail /\ lines # <<>> /\ lines[Len(lines)] = rec[w]
      BY <2>2 DEF Ind, Syncing
    <2> QED BY <2>1, <2>2 DEF LineUndisturbed
  <1> QED BY <1>1, Invariance, PTL
-----------------------------------------------------------------------------
(***************************************************************************)
(* What a step does to the records readers see                             *)
(***************************************************************************)
\* The last byte of a record's line before its newline lands.
BecomesVisible(w) ==
    /\ pc[w] = "write" /\ tail.kind = "torn" /\ tail'.kind = "whole"
    /\ Visible = lines /\ Visible' = Append(lines, rec[w]) /\ synced' = synced
    /\ UNCHANGED <<lines, pc, st, rec, op>>

SyncGrows == synced' \in synced..Len(Visible)

\* A repair, a newline and a sync leave the records readers see alone; a
\* record becomes visible at the end; a power loss leaves a prefix with all
\* that was synced.
LEMMA FileMoves ==
    ASSUME Ind, [Next]_vars
    PROVE  \/ Visible' = Visible /\ SyncGrows /\ ~PowerLoss
           \/ \E w \in Writers : BecomesVisible(w) /\ WriteLine(w)
           \/ /\ PowerLoss /\ synced' = synced
              /\ \E m \in synced..Len(Visible) : Visible' = SubSeq(Visible, 1, m)
  <1>1. /\ IsSeq(Visible) /\ Len(lines) \in Nat /\ Len(Visible) \in Nat
        /\ Len(lines) <= Len(Visible) /\ synced \in 0..Len(lines)
        /\ tail.kind # "whole" => Visible = lines
    BY VisibleFacts, SeqFacts DEF Ind, TypeOK
  <1>2. ASSUME UNCHANGED <<lines, tail, synced>> PROVE Visible' = Visible /\ SyncGrows
    BY <1>1, <1>2 DEF Visible, SyncGrows
  <1>3. ASSUME NEW w \in Writers, pc[w] = "locked", UNCHANGED acked,
               lines' = Repaired.lines, tail' = Repaired.tail, synced' = Len(Repaired.lines)
        PROVE  Visible' = Visible /\ SyncGrows
    <2>1. Visible' = Visible
      BY <1>3, RepairFacts DEF Critical
    <2>2. synced' = Len(Visible)
      BY <1>3 DEF Repaired
    <2> QED BY <1>1, <2>1, <2>2 DEF SyncGrows
  <1>4. ASSUME NEW w \in Writers, OpenRepair(w) \/ CheckTip(w)
        PROVE  Visible' = Visible /\ SyncGrows
    <2>1. pc[w] = "locked" /\ UNCHANGED acked
      BY <1>4 DEF OpenRepair, CheckTip
    <2>2. \/ UNCHANGED <<lines, tail, synced>>
          \/ /\ lines' = Repaired.lines /\ tail' = Repaired.tail
             /\ synced' = Len(Repaired.lines)
      BY <1>4 DEF OpenRepair, CheckTip, fileVars
    <2> QED BY <1>2, <1>3, <2>1, <2>2
  <1>5. ASSUME NEW w \in Writers, WriteLine(w)
        PROVE  BecomesVisible(w) \/ (Visible' = Visible /\ SyncGrows)
    <2>1. /\ pc[w] = "write" /\ synced' = synced
          /\ UNCHANGED <<lock, orphans, st, chunk, rec, op, acked>>
      BY <1>5 DEF WriteLine, lockVars
    <2>2. CASE tail = NoTail /\ tail' = Torn(rec[w]) /\ UNCHANGED <<lines, pc>>
      BY <1>1, <2>1, <2>2, TailFacts DEF Visible, SyncGrows
    <2>3. CASE tail.kind = "torn" /\ tail' = Whole(rec[w]) /\ UNCHANGED <<lines, pc>>
      BY <1>1, <2>1, <2>3, TailFacts DEF Visible, BecomesVisible
    <2>4. CASE /\ tail.kind = "whole"
               /\ lines' = Append(lines, rec[w]) /\ tail' = NoTail
      <3>1. tail.rec = rec[w]
        BY <2>1, <2>4, TailFacts DEF Ind, Writing
      <3> QED BY <1>1, <2>1, <2>4, <3>1, TailFacts DEF Visible, SyncGrows
    <2> QED BY <1>5, <2>2, <2>3, <2>4 DEF WriteLine
  <1>6. ASSUME NEW w \in Writers, SyncOk(w) PROVE Visible' = Visible /\ SyncGrows
    BY <1>1, <1>6 DEF SyncOk, Visible, SyncGrows
  <1>7. ASSUME NEW w \in Writers,
               \/ OpenRead(w) \/ TryLock(w) \/ Granted(w) \/ Begin(w) \/ ReadTip(w)
               \/ Orphan(w) \/ Fault(w)
        PROVE  Visible' = Visible /\ SyncGrows
    BY <1>2, <1>7 DEF OpenRead, TryLock, Granted, Begin, ReadTip, Orphan, OrphanGranted,
       OrphanReleases, Fault, LockTimeout, IoError, Crash, fileVars
  <1>8. ASSUME NEW v \in Readers, VerifyRead(v) PROVE Visible' = Visible /\ SyncGrows
    BY <1>2, <1>8 DEF VerifyRead, fileVars
  <1>9. CASE PowerLoss
    <2>1. synced' = synced
      BY <1>9 DEF PowerLoss
    <2>2. CASE UNCHANGED <<lines, tail>>
      <3>1. Visible' = Visible /\ Len(Visible) \in synced..Len(Visible)
        BY <1>1, <2>2 DEF Visible
      <3>2. SubSeq(Visible, 1, Len(Visible)) = Visible
        BY <1>1 DEF IsSeq
      <3> QED BY <1>9, <2>1, <3>1, <3>2
    <2>3. ASSUME NEW k \in synced..Len(lines), lines' = SubSeq(Visible, 1, k),
                 tail' \in {NoTail} \cup
                   (IF k < Len(Visible)
                    THEN {Torn(Visible[k + 1]), Whole(Visible[k + 1])} ELSE {})
          PROVE  \E m \in synced..Len(Visible) : Visible' = SubSeq(Visible, 1, m)
      <3>1. CASE tail' = NoTail \/ tail' = Torn(Visible[k + 1])
        <4>1. Visible' = SubSeq(Visible, 1, k) /\ k \in synced..Len(Visible)
          BY <1>1, <2>3, <3>1, TailFacts DEF Visible
        <4> QED BY <4>1
      <3>2. CASE k < Len(Visible) /\ tail' = Whole(Visible[k + 1])
        <4>1. Visible' = Append(SubSeq(Visible, 1, k), Visible[k + 1])
          BY <2>3, <3>2, TailFacts DEF Visible
        <4>2. k \in 0..(Len(Visible) - 1) /\ k + 1 \in synced..Len(Visible)
          BY <1>1, <3>2
        <4> QED BY <1>1, <4>1, <4>2, PrefixGrows
      <3> QED BY <2>3, <3>1, <3>2
    <2> QED BY <1>9, <2>1, <2>2, <2>3 DEF PowerLoss
  <1>10. ASSUME UNCHANGED vars PROVE Visible' = Visible /\ SyncGrows
    BY <1>2, <1>10 DEF vars
  <1> QED BY <1>4, <1>5, <1>6, <1>7, <1>8, <1>9, <1>10 DEF Next, Step
-----------------------------------------------------------------------------
(***************************************************************************)
(* Handles                                                                 *)
(***************************************************************************)
\* What a handle remembers is what a prefix of the file says.
OnChain(h) == h.len <= Len(Visible) /\ h.tip = TipHash(SubSeq(Visible, 1, h.len))

\* The holder of the lock has refreshed its handle before it writes.
AtTip(w) ==
    /\ pc[w] = "write" => st[w].len = Len(lines)
    /\ pc[w] = "sync" => st[w].len + 1 = Len(lines)

HandleInd == \A w \in Writers : OnChain(st[w]) /\ AtTip(w)

LEMMA OnChainFacts ==
    ASSUME TypeOK
    PROVE  OnChain(EmptyHandle) /\ OnChain(Refreshed)
  <1>1. IsSeq(Visible) /\ Len(Visible) \in Nat
    BY VisibleFacts, SeqFacts
  <1>2. SubSeq(Visible, 1, 0) = <<>> /\ SubSeq(Visible, 1, Len(Visible)) = Visible
    BY <1>1 DEF IsSeq
  <1> QED BY <1>1, <1>2 DEF OnChain, EmptyHandle, Refreshed, TipHash

\* A handle that no step touches stays on the chain unless the power fails.
LEMMA OnChainKept ==
    ASSUME Ind, [Next]_vars, ~PowerLoss, NEW h, h.len \in Nat, OnChain(h)
    PROVE  OnChain(h)'
  <1>1. IsSeq(Visible) /\ Len(Visible) \in Nat
    BY VisibleFacts, SeqFacts DEF Ind
  <1>2. CASE Visible' = Visible
    BY <1>2 DEF OnChain
  <1>3. ASSUME NEW r, Visible' = Append(Visible, r) PROVE OnChain(h)'
    <2>1. /\ IsSeq(Visible') /\ Len(Visible') = Len(Visible) + 1
          /\ \A i \in 1..Len(Visible) : Visible'[i] = Visible[i]
      BY <1>1, <1>3, AppendFacts
    <2>2. h.len \in 0..Len(Visible) /\ h.len \in 0..Len(Visible')
      BY <1>1, <2>1 DEF OnChain
    <2>3. PICK n, s, t : n = h.len /\ s = SubSeq(Visible, 1, n) /\ t = SubSeq(Visible', 1, n)
      OBVIOUS
    <2>4. /\ IsSeq(s) /\ Len(s) = n /\ \A i \in 1..n : s[i] = Visible[i]
          /\ IsSeq(t) /\ Len(t) = n /\ \A i \in 1..n : t[i] = Visible'[i]
      BY <1>1, <2>1, <2>2, <2>3, PrefixFacts
    <2>5. s = t
      BY <2>1, <2>2, <2>3, <2>4, SeqEqual
    <2>6. h.tip = TipHash(SubSeq(Visible', 1, h.len))
      BY <2>3, <2>5 DEF OnChain
    <2>7. h.len <= Len(Visible')
      BY <2>2
    <2> QED BY <2>6, <2>7 DEF OnChain, TipHash
  <1>4. \/ Visible' = Visible
        \/ \E r : Visible' = Append(Visible, r)
    BY FileMoves DEF BecomesVisible
  <1> QED BY <1>2, <1>3, <1>4

\* Where a step leaves the handle of a process.
LEMMA HandleMoves ==
    ASSUME Ind, [Next]_vars, ~PowerLoss, NEW v \in Writers
    PROVE  \/ st'[v] \in {st[v], EmptyHandle}
           \/ st'[v] = Refreshed /\ UNCHANGED Visible
           \/ SyncOk(v)
  <1>1. DOMAIN st = Writers
    BY DEF Ind, TypeOK
  <1>2. ASSUME NEW h, NEW how PROVE ReadStep(h, how).h \in {h, Refreshed}
    BY DEF ReadStep
  <1>3. ASSUME NEW w \in Writers, OpenRead(w) \/ ReadTip(w)
        PROVE  st'[v] \in {st[v], EmptyHandle, Refreshed} /\ UNCHANGED Visible
    <2>1. PICK h : /\ h \in {st[w], EmptyHandle, Refreshed}
                   /\ st' = [st EXCEPT ![w] = h]
      BY <1>2, <1>3 DEF OpenRead, ReadTip
    <2>2. UNCHANGED <<lines, tail>>
      BY <1>3 DEF OpenRead, ReadTip, fileVars
    <2> QED BY <1>1, <2>1, <2>2 DEF Visible
  <1>4. ASSUME NEW w \in Writers, OpenRepair(w) \/ CheckTip(w)
        PROVE  st'[v] \in {st[v], EmptyHandle, Refreshed} /\ UNCHANGED Visible
    <2>1. PICK h : /\ h \in {st[w], EmptyHandle, Refreshed}
                   /\ st' = [st EXCEPT ![w] = h]
      BY <1>4 DEF OpenRepair, CheckTip
    <2>2. UNCHANGED Visible
      <3>1. /\ pc[w] = "locked" /\ UNCHANGED acked
            /\ \/ UNCHANGED <<lines, tail>>
               \/ /\ lines' = Repaired.lines /\ tail' = Repaired.tail
                  /\ synced' = Len(Repaired.lines)
        BY <1>4 DEF OpenRepair, CheckTip, fileVars
      <3> QED BY <3>1, RepairFacts DEF Critical, Visible
    <2> QED BY <1>1, <2>1, <2>2
  <1>5. ASSUME NEW w \in Writers, Fault(w) PROVE st'[v] \in {st[v], EmptyHandle}
    BY <1>1, <1>5 DEF Fault, LockTimeout, IoError, Crash
  <1>6. ASSUME NEW w \in Writers, SyncOk(w), v # w PROVE st'[v] = st[v]
    BY <1>1, <1>6 DEF SyncOk
  <1>7. ASSUME NEW w \in Writers,
               TryLock(w) \/ Granted(w) \/ Begin(w) \/ WriteLine(w) \/ Orphan(w)
        PROVE  st'[v] = st[v]
    BY <1>7 DEF TryLock, Granted, Begin, WriteLine, Orphan, OrphanGranted, OrphanReleases,
                procVars
  <1>8. ASSUME (\E u \in Readers : VerifyRead(u)) \/ UNCHANGED vars PROVE st'[v] = st[v]
    BY <1>8 DEF VerifyRead, procVars, vars
  <1> QED BY <1>3, <1>4, <1>5, <1>6, <1>7, <1>8 DEF Next, Step

\* While a process writes and syncs, nobody else moves the end of the file.
LEMMA AtTipKept ==
    ASSUME Ind, [Next]_vars, NEW v \in Writers, AtTip(v)
    PROVE  AtTip(v)'
  <1> SUFFICES ASSUME pc'[v] \in {"write", "sync"} PROVE AtTip(v)'
    BY DEF AtTip
  <1>0. /\ DOMAIN st = Writers /\ DOMAIN pc = Writers /\ IsSeq(lines) /\ Len(lines) \in Nat
    BY SeqFacts DEF Ind, TypeOK
  <1>1. ASSUME UNCHANGED <<lines>>, pc'[v] = pc[v], st'[v] = st[v] PROVE AtTip(v)'
    BY <1>1 DEF AtTip
  <1>2. ASSUME NEW w \in Writers, v # w,
               Step(w) \/ Orphan(w) \/ Fault(w)
        PROVE  UNCHANGED <<lines>> /\ pc'[v] = pc[v] /\ st'[v] = st[v]
    <2>1. pc'[v] = pc[v] /\ st'[v] = st[v]
      <3>1. CASE Step(w)
        BY <1>0, <1>2, <3>1 DEF Step, OpenRead, OpenRepair, TryLock, Granted, Begin, ReadTip,
                                CheckTip, WriteLine, SyncOk
      <3>2. CASE Orphan(w) \/ Fault(w)
        BY <1>0, <1>2, <3>2 DEF Orphan, OrphanGranted, OrphanReleases, Fault, LockTimeout,
                                IoError, Crash, procVars
      <3> QED BY <1>2, <3>1, <3>2
    <2>2. pc[w] \notin Critical
      BY <1>2, <2>1, Alone DEF Ind, Critical
    <2>3. UNCHANGED <<lines>>
      BY <1>2, <2>2 DEF Step, OpenRead, OpenRepair, TryLock, Granted, Begin, ReadTip,
         CheckTip, WriteLine, SyncOk, Orphan, OrphanGranted, OrphanReleases, Fault,
         LockTimeout, IoError, Crash, fileVars, Critical
    <2> QED BY <2>1, <2>3
  <1>3. CASE Step(v) \/ Orphan(v) \/ Fault(v)
    <2>1. CASE CheckTip(v)
      <3>1. /\ pc[v] = "locked" /\ UNCHANGED acked
            /\ pc' = [pc EXCEPT ![v] = "write"] /\ st' = [st EXCEPT ![v] = Refreshed]
            /\ lines' = Repaired.lines
        BY <1>0, <2>1 DEF CheckTip
      <3>2. st'[v].len = Len(lines')
        BY <1>0, <3>1 DEF Repaired, Refreshed
      <3> QED BY <1>0, <3>1, <3>2 DEF AtTip
    <2>2. CASE WriteLine(v)
      <3>1. /\ pc[v] = "write" /\ st' = st
            /\ \/ UNCHANGED <<lines, pc>>
               \/ lines' = Append(lines, rec[v]) /\ pc' = [pc EXCEPT ![v] = "sync"]
        BY <2>2 DEF WriteLine
      <3>2. Len(Append(lines, rec[v])) = Len(lines) + 1
        BY <1>0, AppendFacts
      <3> QED BY <1>0, <3>1, <3>2 DEF AtTip
    <2>3. CASE Orphan(v)
      BY <1>1, <2>3 DEF Orphan, OrphanGranted, OrphanReleases, fileVars, procVars
    <2>4. CASE OpenRead(v) \/ OpenRepair(v) \/ TryLock(v) \/ Granted(v) \/ Begin(v)
               \/ ReadTip(v) \/ SyncOk(v) \/ Fault(v)
      <3>1. pc'[v] \notin {"write", "sync"}
        <4>1. CASE OpenRead(v) \/ ReadTip(v)
          BY <1>0, <4>1 DEF OpenRead, ReadTip
        <4>2. CASE OpenRepair(v) \/ TryLock(v) \/ Granted(v) \/ Begin(v) \/ SyncOk(v)
          BY <1>0, <4>2 DEF OpenRepair, TryLock, Granted, Begin, SyncOk
        <4>3. CASE Fault(v)
          BY <1>0, <4>3 DEF Fault, LockTimeout, IoError, Crash, AfterFailure
        <4> QED BY <2>4, <4>1, <4>2, <4>3
      <3> QED BY <3>1
    <2> QED BY <1>3, <2>1, <2>2, <2>3, <2>4 DEF Step
  <1>4. CASE PowerLoss
    BY <1>4 DEF PowerLoss
  <1>5. CASE (\E u \in Readers : VerifyRead(u)) \/ UNCHANGED vars
    BY <1>1, <1>5 DEF VerifyRead, fileVars, procVars, vars
  <1> QED BY <1>1, <1>2, <1>3, <1>4, <1>5 DEF Next

LEMMA HandleStep ==
    ASSUME Ind, HandleInd, [Next]_vars, Ind'
    PROVE  HandleInd'
  <1> SUFFICES ASSUME NEW v \in Writers PROVE OnChain(st[v])'
    BY AtTipKept DEF HandleInd
  <1>1. /\ OnChain(st[v]) /\ st[v].len \in Nat
        /\ OnChain(EmptyHandle)' /\ OnChain(Refreshed)'
    <2>1. TypeOK /\ TypeOK'
      BY DEF Ind
    <2>2. OnChain(EmptyHandle)' /\ OnChain(Refreshed)'
      BY <2>1, OnChainFacts, PTL
    <2> QED BY <2>1, <2>2 DEF HandleInd, TypeOK
  <1>2. CASE PowerLoss
    <2>1. st'[v] = EmptyHandle
      BY <1>2 DEF PowerLoss
    <2> QED BY <1>1, <2>1
  <1>3. CASE ~PowerLoss /\ st'[v] = st[v]
    <2>1. PICK h : h = st[v]
      OBVIOUS
    <2>2. OnChain(h)'
      BY <1>1, <1>3, <2>1, OnChainKept
    <2> QED BY <1>3, <2>1, <2>2
  <1>4. CASE st'[v] = EmptyHandle
    BY <1>1, <1>4
  <1>5. CASE st'[v] = Refreshed /\ UNCHANGED Visible
    <2>1. st'[v] = Refreshed'
      BY <1>5 DEF Refreshed
    <2> QED BY <1>1, <2>1
  <1>6. CASE SyncOk(v)
    <2>1. /\ pc[v] = "sync" /\ UNCHANGED <<lines, tail>>
          /\ st'[v] = [len |-> st[v].len + 1, tip |-> rec[v].record_hash]
      BY <1>6 DEF SyncOk, Ind, TypeOK
    <2>2. /\ tail = NoTail /\ Len(lines) > 0 /\ rec[v] = lines[Len(lines)]
          /\ st[v].len + 1 = Len(lines)
      BY <2>1 DEF Ind, Syncing, HandleInd, AtTip
    <2>3. Visible = lines /\ Visible' = lines /\ lines # <<>>
      BY <2>1, <2>2, TailFacts DEF Visible
    <2>4. st'[v] = Refreshed'
      BY <2>1, <2>2, <2>3 DEF Refreshed, TipHash
    <2> QED BY <1>1, <2>4
  <1> QED BY <1>2, <1>3, <1>4, <1>5, <1>6, HandleMoves

LEMMA HandleInit == Init => HandleInd
  <1> SUFFICES ASSUME Init, NEW w \in Writers PROVE OnChain(st[w]) /\ AtTip(w)
    BY DEF HandleInd
  <1>1. st[w] = EmptyHandle /\ pc[w] = "closed"
    BY DEF Init
  <1>2. OnChain(EmptyHandle)
    BY IndInit, OnChainFacts DEF Ind
  <1> QED BY <1>1, <1>2 DEF AtTip

LEMMA HandleInvariance == Spec => [](Ind /\ HandleInd)
  <1>1. Init => Ind /\ HandleInd
    BY IndInit, HandleInit
  <1>2. Ind /\ HandleInd /\ [Next]_vars => Ind' /\ HandleInd'
    BY IndNext, HandleStep
  <1> QED BY <1>1, <1>2, PTL DEF Spec

\* ChainState, the len and tip_hash a handle remembers between two calls, is
\* that of a prefix of the file: nothing a handle has consumed is ever taken
\* back while its process lives.
THEOREM HandlesStayOnChain == Spec => []HandleOnChain
  <1>1. Ind /\ HandleInd => HandleOnChain
    BY DEF HandleInd, OnChain, HandleOnChain
  <1> QED BY <1>1, HandleInvariance, PTL

\* A handle on the chain finds every link of what follows to hold.
LEMMA LinksHold ==
    ASSUME Ind, HandleInd, NEW w \in Writers
    PROVE  ~LinksBroken(st[w])
  <1>1. /\ IsSeq(Visible) /\ Len(Visible) \in Nat /\ VerifyIntact(Visible)
        /\ st[w].len \in 0..Len(Visible)
        /\ st[w].tip = TipHash(SubSeq(Visible, 1, st[w].len))
    BY VisibleFacts, SeqFacts DEF Ind, TypeOK, HandleInd, OnChain, ChainIntact
  <1>2. ASSUME NEW i \in (st[w].len + 1)..Len(Visible)
        PROVE  /\ Visible[i].index = i - 1
               /\ Visible[i].prev_hash =
                    IF i = st[w].len + 1 THEN st[w].tip ELSE Visible[i - 1].record_hash
    <2>1. LinkOK(Visible, i)
      BY <1>1, <1>2 DEF VerifyIntact
    <2>2. CASE i = st[w].len + 1
      <3>1. CASE i = 1
        <4>1. SubSeq(Visible, 1, st[w].len) = <<>>
          BY <1>1, <2>2, <3>1
        <4> QED BY <1>1, <2>1, <2>2, <3>1, <4>1 DEF LinkOK, TipHash
      <3>2. CASE i # 1
        <4>1. PICK n, s : n = st[w].len /\ s = SubSeq(Visible, 1, n)
          OBVIOUS
        <4>2. /\ IsSeq(s) /\ Len(s) = n /\ \A j \in 1..n : s[j] = Visible[j]
              /\ n \in 1..Len(Visible) /\ n = i - 1
          BY <1>1, <2>2, <3>2, <4>1, PrefixFacts
        <4>3. s # <<>> /\ s[Len(s)] = Visible[i - 1]
          BY <1>1, <4>2
        <4> QED BY <1>1, <2>1, <2>2, <3>2, <4>1, <4>3 DEF LinkOK, TipHash
      <3> QED BY <3>1, <3>2
    <2>3. CASE i # st[w].len + 1
      BY <1>1, <1>2, <2>1, <2>3 DEF LinkOK
    <2> QED BY <2>2, <2>3
  <1> QED BY <1>1, <1>2 DEF LinksBroken

\* So refresh, whenever it runs, finds neither the file shrunk nor a link
\* broken: "hash link mismatch" is never reported of a file only Writ writes.
THEOREM RefreshNeverRejects == Spec => [](\A w \in Writers : ~LinksBroken(st[w]))
  <1>1. Ind /\ HandleInd => \A w \in Writers : ~LinksBroken(st[w])
    BY LinksHold
  <1> QED BY <1>1, HandleInvariance, PTL
-----------------------------------------------------------------------------
(***************************************************************************)
(* The abstract ledger                                                     *)
(***************************************************************************)
\* Nothing with body b is in the records s.
NoBody(s, b) == \A i \in 1..Len(s) : s[i].body # b

\* The current call of w is still to be recorded.
Pending(w) ==
    \/ pc[w] = "tip"
    \/ /\ rec[w] # NoRec /\ pc[w] # "sync"
       /\ ~(pc[w] = "write" /\ tail.kind = "whole")

\* Each call is recorded at most once, whatever its retries and errors.
CallOK(w) ==
    /\ rec[w] # NoRec => /\ pc[w] \in {"try", "queued", "locked", "write", "sync"}
                         /\ rec[w].body = <<w, op[w]>>
    /\ pc[w] = "tip" \/ rec[w] # NoRec => op[w] > 0
    /\ \A n \in Nat : n > op[w] => NoBody(Visible, <<w, n>>)
    /\ Pending(w) => NoBody(Visible, <<w, op[w]>>)

CallInd == \A w \in Writers : CallOK(w)

\* Records with body b that readers do not see do not appear by a repair, a
\* newline, a sync or a power loss.
LEMMA NoBodyKept ==
    ASSUME Ind, [Next]_vars, NEW b, NoBody(Visible, b),
           \A w \in Writers : BecomesVisible(w) => rec[w].body # b
    PROVE  NoBody(Visible', b)
  <1>1. IsSeq(Visible) /\ Len(Visible) \in Nat /\ synced \in Nat
    BY VisibleFacts, SeqFacts DEF Ind, TypeOK
  <1>2. ASSUME NEW w \in Writers, BecomesVisible(w) PROVE NoBody(Visible', b)
    <2>1. Visible' = Append(Visible, rec[w]) /\ rec[w].body # b
      BY <1>2 DEF BecomesVisible
    <2>2. /\ Len(Visible') = Len(Visible) + 1
          /\ \A i \in 1..Len(Visible) : Visible'[i] = Visible[i]
          /\ Visible'[Len(Visible) + 1] = rec[w]
      BY <1>1, <2>1, AppendFacts
    <2>3. ASSUME NEW i \in 1..Len(Visible') PROVE Visible'[i].body # b
      BY <1>1, <2>1, <2>2 DEF NoBody
    <2> QED BY <2>3 DEF NoBody
  <1>3. ASSUME NEW m \in synced..Len(Visible), Visible' = SubSeq(Visible, 1, m)
        PROVE  NoBody(Visible', b)
    <2>1. m \in 0..Len(Visible)
      BY <1>1
    <2>2. Len(Visible') = m /\ \A i \in 1..m : Visible'[i] = Visible[i]
      BY <1>1, <1>3, <2>1, PrefixFacts
    <2>3. ASSUME NEW i \in 1..Len(Visible') PROVE Visible'[i].body # b
      BY <1>1, <2>1, <2>2 DEF NoBody
    <2> QED BY <2>3 DEF NoBody
  <1>4. CASE Visible' = Visible
    BY <1>4
  <1> QED BY <1>2, <1>3, <1>4, FileMoves

\* A call that has been started is seen by readers only as its own record.
LEMMA CallsUnseen ==
    ASSUME Ind, CallInd, [Next]_vars, NEW v \in Writers
    PROVE  /\ \A n \in Nat : n > op[v] => NoBody(Visible', <<v, n>>)
           /\ NoBody(Visible, <<v, op[v]>>) /\ ~BecomesVisible(v) =>
                 NoBody(Visible', <<v, op[v]>>)
  <1>1. ASSUME NEW u \in Writers, BecomesVisible(u) PROVE rec[u].body = <<u, op[u]>>
    <2>1. rec[u] = Finalize(Len(lines), rec[u].body, TipHash(lines)) /\ Len(lines) \in Nat
      BY <1>1, SeqFacts DEF Ind, TypeOK, Writing, BecomesVisible
    <2>2. rec[u].index # -1
      BY <2>1, FinalizeFacts
    <2>3. rec[u] # NoRec
      BY <2>2 DEF NoRec
    <2> QED BY <2>3 DEF CallInd, CallOK
  <1>2. op[v] \in Nat
    BY BoundsAssumption DEF Ind, TypeOK, BoundsAssumption
  <1>3. ASSUME NEW n \in Nat, n > op[v] PROVE NoBody(Visible', <<v, n>>)
    <2>1. PICK b : b = <<v, n>>
      OBVIOUS
    <2>2. NoBody(Visible, b)
      BY <1>3, <2>1 DEF CallInd, CallOK
    <2>3. \A u \in Writers : BecomesVisible(u) => rec[u].body # b
      BY <1>1, <1>2, <1>3, <2>1
    <2> QED BY <2>1, <2>2, <2>3, NoBodyKept
  <1>4. ASSUME NoBody(Visible, <<v, op[v]>>), ~BecomesVisible(v)
        PROVE  NoBody(Visible', <<v, op[v]>>)
    <2>1. PICK b : b = <<v, op[v]>>
      OBVIOUS
    <2>2. \A u \in Writers : BecomesVisible(u) => rec[u].body # b
      BY <1>1, <1>4, <2>1
    <2> QED BY <1>4, <2>1, <2>2, NoBodyKept
  <1> QED BY <1>3, <1>4

\* What a process has to show of its own step, besides what readers see.
CallMoves(v) ==
    /\ rec'[v] # NoRec => /\ pc'[v] \in {"try", "queued", "locked", "write", "sync"}
                          /\ rec'[v].body = <<v, op'[v]>>
    /\ pc'[v] = "tip" \/ rec'[v] # NoRec => op'[v] > 0
    /\ \/ /\ op'[v] = op[v]
          /\ Pending(v)' => Pending(v) /\ ~BecomesVisible(v)
       \/ op'[v] = op[v] + 1

LEMMA CallMovesKeep ==
    ASSUME Ind, CallInd, [Next]_vars, NEW v \in Writers, CallMoves(v)
    PROVE  CallOK(v)'
  <1>1. op[v] \in Nat /\ op'[v] \in {op[v], op[v] + 1}
    BY BoundsAssumption DEF Ind, TypeOK, BoundsAssumption, CallMoves
  <1>2. \A n \in Nat : n > op[v] => NoBody(Visible', <<v, n>>)
    BY CallsUnseen
  <1>3. \A n \in Nat : n > op'[v] => NoBody(Visible', <<v, n>>)
    BY <1>1, <1>2
  <1>4. Pending(v)' => NoBody(Visible', <<v, op'[v]>>)
    <2>1. CASE op'[v] = op[v]
      BY <1>1, <2>1, CallsUnseen DEF CallMoves, CallInd, CallOK
    <2>2. CASE op'[v] = op[v] + 1
      BY <1>1, <1>2, <2>2
    <2> QED BY <1>1, <2>1, <2>2
  <1> QED BY <1>3, <1>4 DEF CallOK, CallMoves

\* Steps that leave the line being written alone.
LEMMA CallStays ==
    ASSUME CallInd, NEW v \in Writers,
           pc'[v] = pc[v], rec'[v] = rec[v], op'[v] = op[v],
           UNCHANGED tail \/ pc[v] # "write"
    PROVE  CallMoves(v)
  BY DEF CallInd, CallOK, CallMoves, Pending, BecomesVisible

\* A call or an open that ends leaves no record behind in the handle.
LEMMA CallEnds ==
    ASSUME CallInd, NEW v \in Writers,
           pc'[v] # "tip", rec'[v] = NoRec, op'[v] = op[v]
    PROVE  CallMoves(v)
  BY DEF CallInd, CallOK, CallMoves, Pending

LEMMA OwnStep ==
    ASSUME Ind, CallInd, NEW v \in Writers, Step(v)
    PROVE  CallMoves(v)
  <1>0. /\ DOMAIN pc = Writers /\ DOMAIN rec = Writers /\ DOMAIN op = Writers
        /\ op[v] \in Nat /\ CallOK(v)
    BY BoundsAssumption DEF Ind, TypeOK, BoundsAssumption, CallInd
  <1>1. CASE OpenRead(v)
    <2>1. rec[v] = NoRec /\ pc[v] \in {"closed", "open"}
      BY <1>0, <1>1 DEF OpenRead, CallOK
    <2>2. pc'[v] # "tip" /\ rec' = rec /\ op' = op
      BY <1>0, <1>1 DEF OpenRead
    <2> QED BY <2>1, <2>2, CallEnds
  <1>2. CASE OpenRepair(v)
    BY <1>0, <1>2, CallEnds DEF OpenRepair
  <1>3. CASE TryLock(v) \/ Granted(v)
    <2>1. /\ pc[v] \in {"try", "queued"} /\ pc'[v] \in {"queued", "locked"}
          /\ UNCHANGED <<rec, op, tail>>
      BY <1>0, <1>3 DEF TryLock, Granted, fileVars
    <2> QED BY <1>0, <2>1 DEF CallOK, CallMoves, Pending, BecomesVisible
  <1>4. CASE Begin(v)
    <2>1. pc[v] = "idle" /\ rec[v] = NoRec
      BY <1>0, <1>4 DEF Begin, CallOK
    <2>2. op'[v] = op[v] + 1 /\ rec' = rec
      BY <1>0, <1>4 DEF Begin
    <2> QED BY <1>0, <2>1, <2>2 DEF CallMoves
  <1>5. CASE ReadTip(v)
    <2>1. pc[v] = "tip" /\ rec[v] = NoRec /\ Pending(v) /\ op[v] > 0 /\ op' = op
      BY <1>0, <1>5 DEF ReadTip, CallOK, Pending
    <2>2. PICK built, r :
             /\ built \in BOOLEAN
             /\ rec'[v] = IF built THEN r ELSE NoRec
             /\ r.body = <<v, op[v]>>
             /\ pc'[v] \in IF built THEN {"try"} ELSE {"tip", "idle"}
      <3>1. PICK how : LET s == ReadStep(st[v], how)
                           built == s.res \in {"ok", "torn"}
                       IN  /\ rec' = [rec EXCEPT ![v] =
                                IF built THEN Finalize(s.h.len, <<v, op[v]>>, s.h.tip) ELSE @]
                           /\ pc' = [pc EXCEPT ![v] = IF built THEN "try"
                                          ELSE IF s.res = "again" THEN @ ELSE "idle"]
        BY <1>5 DEF ReadTip
      <3>2. PICK built, r : /\ built = (ReadStep(st[v], how).res \in {"ok", "torn"})
                            /\ r = Finalize(ReadStep(st[v], how).h.len, <<v, op[v]>>,
                                            ReadStep(st[v], how).h.tip)
        OBVIOUS
      <3>3. r.body = <<v, op[v]>>
        BY <3>2, FinalizeFacts
      <3>4. rec'[v] = IF built THEN r ELSE NoRec
        BY <1>0, <2>1, <3>1, <3>2
      <3>5. pc'[v] \in IF built THEN {"try"} ELSE {"tip", "idle"}
        BY <1>0, <2>1, <3>1, <3>2
      <3>6. built \in BOOLEAN
        BY <3>2
      <3> QED BY <3>3, <3>4, <3>5, <3>6
    <2> QED BY <2>1, <2>2 DEF CallMoves, BecomesVisible
  <1>6. CASE CheckTip(v)
    <2>1. pc[v] = "locked" /\ rec[v] # NoRec /\ Pending(v) /\ op' = op /\ op[v] > 0
          /\ rec[v].body = <<v, op[v]>>
      BY <1>0, <1>6 DEF CheckTip, CallOK, Pending
    <2>2. \/ rec'[v] = NoRec
          \/ rec' = rec /\ pc'[v] = "write"
      BY <1>0, <1>6 DEF CheckTip
    <2> QED BY <2>1, <2>2 DEF CallMoves, BecomesVisible
  <1>7. CASE WriteLine(v)
    <2>1. pc[v] = "write" /\ UNCHANGED <<rec, op>> /\ pc'[v] \in {"write", "sync"}
      BY <1>0, <1>7 DEF WriteLine
    <2>2. Pending(v)' => Pending(v) /\ ~BecomesVisible(v)
      <3>1. CASE tail = NoTail /\ tail' = Torn(rec[v])
        BY <2>1, <3>1, TailFacts DEF Pending, BecomesVisible
      <3>2. CASE tail' = Whole(rec[v]) /\ UNCHANGED pc
        BY <2>1, <3>2, TailFacts DEF Pending
      <3>3. CASE pc' = [pc EXCEPT ![v] = "sync"]
        BY <1>0, <3>3 DEF Pending
      <3> QED BY <1>7, <3>1, <3>2, <3>3 DEF WriteLine
    <2> QED BY <1>0, <2>1, <2>2 DEF CallOK, CallMoves
  <1>8. CASE SyncOk(v)
    BY <1>0, <1>8, CallEnds DEF SyncOk
  <1> QED BY <1>1, <1>2, <1>3, <1>4, <1>5, <1>6, <1>7, <1>8 DEF Step

LEMMA CallStep ==
    ASSUME Ind, CallInd, [Next]_vars
    PROVE  CallInd'
  <1> SUFFICES ASSUME NEW v \in Writers PROVE CallMoves(v)
    BY CallMovesKeep DEF CallInd
  <1>0. /\ DOMAIN pc = Writers /\ DOMAIN rec = Writers /\ DOMAIN op = Writers
    BY DEF Ind, TypeOK
  <1>1. CASE Step(v)
    BY <1>1, OwnStep
  <1>2. CASE Fault(v)
    BY <1>0, <1>2, CallEnds DEF Fault, LockTimeout, IoError, Crash, AfterFailure
  <1>3. ASSUME NEW w \in Writers, Orphan(w) PROVE CallMoves(v)
    BY <1>3, CallStays DEF Orphan, OrphanGranted, OrphanReleases, fileVars, procVars
  <1>4. ASSUME NEW w \in Writers, v # w, Step(w) \/ Fault(w) PROVE CallMoves(v)
    <2>1. pc'[v] = pc[v] /\ rec'[v] = rec[v] /\ op'[v] = op[v]
      <3>1. CASE Step(w)
        BY <1>0, <1>4, <3>1 DEF Step, OpenRead, OpenRepair, TryLock, Granted, Begin, ReadTip,
                                CheckTip, WriteLine, SyncOk
      <3>2. CASE Fault(w)
        BY <1>0, <1>4, <3>2 DEF Fault, LockTimeout, IoError, Crash
      <3> QED BY <1>4, <3>1, <3>2
    <2>2. UNCHANGED tail \/ pc[v] # "write"
      <3>1. CASE pc[v] = "write"
        <4>1. pc[w] \notin Critical
          BY <1>4, <3>1, Alone DEF Ind, Critical
        <4> QED BY <1>4, <4>1 DEF Step, OpenRead, OpenRepair, TryLock, Granted, Begin,
                   ReadTip, CheckTip, WriteLine, SyncOk, Fault, LockTimeout, IoError, Crash,
                   fileVars, Critical
      <3> QED BY <3>1
    <2> QED BY <2>1, <2>2, CallStays
  <1>5. CASE PowerLoss
    BY <1>5, CallEnds DEF PowerLoss
  <1>6. CASE (\E u \in Readers : VerifyRead(u)) \/ UNCHANGED vars
    BY <1>6, CallStays DEF VerifyRead, fileVars, procVars, vars
  <1> QED BY <1>1, <1>2, <1>3, <1>4, <1>5, <1>6 DEF Next

LEMMA CallInit == Init => CallInd
  <1> SUFFICES ASSUME Init, NEW w \in Writers PROVE CallOK(w)
    BY DEF CallInd
  <1>1. Len(Visible) = 0 /\ pc[w] = "closed" /\ rec[w] = NoRec
    BY TailFacts DEF Init, Visible
  <1> QED BY <1>1 DEF CallOK, Pending, NoBody

LEMMA CallInvariance == Spec => [](Ind /\ CallInd)
  <1>1. Init => Ind /\ CallInd
    BY IndInit, CallInit
  <1>2. Ind /\ CallInd /\ [Next]_vars => Ind' /\ CallInd'
    BY IndNext, CallStep
  <1> QED BY <1>1, <1>2, PTL DEF Spec

\* Every step is a step of the abstract ledger, or a stutter: the last byte of
\* a record appends it, a sync makes the lines durable, a power loss takes a
\* tail that was not.
LEMMA StepRefines ==
    ASSUME Ind, CallInd, [Next]_vars
    PROVE  [Abs!Next]_(Abs!vars)
  <1>1. /\ IsSeq(Visible) /\ Len(Visible) \in Nat /\ Len(lines) <= Len(Visible)
        /\ synced \in 0..Len(lines)
    BY VisibleFacts, SeqFacts DEF Ind, TypeOK
  <1>2. CASE Visible' = Visible /\ SyncGrows
    <2>1. CASE synced' = synced
      BY <1>2, <2>1 DEF Abs!vars
    <2>2. CASE synced' # synced
      <3>1. synced' \in (synced + 1)..Len(Visible)
        BY <1>1, <1>2, <2>2 DEF SyncGrows
      <3> QED BY <1>2, <3>1 DEF Abs!MakeDurable, Abs!Next
    <2> QED BY <2>1, <2>2
  <1>3. ASSUME NEW w \in Writers, BecomesVisible(w) PROVE Abs!Next
    <2>1. /\ rec[w] = Finalize(Len(lines), rec[w].body, TipHash(lines))
          /\ Len(lines) \in Nat
      BY <1>3, SeqFacts DEF Ind, TypeOK, Writing, BecomesVisible
    <2>2. rec[w] # NoRec
      <3>1. rec[w].index # -1
        BY <2>1, FinalizeFacts
      <3> QED BY <3>1 DEF NoRec
    <2>3. PICK b : b = <<w, op[w]>>
      OBVIOUS
    <2>4. rec[w].body = b /\ op[w] > 0 /\ NoBody(Visible, b)
      BY <1>3, <2>2, <2>3 DEF CallInd, CallOK, Pending, BecomesVisible
    <2>5. b \in Bodies
      <3>1. op[w] \in 0..MaxOps
        BY DEF Ind, TypeOK
      <3>2. op[w] \in 1..MaxOps
        BY <2>4, <3>1, BoundsAssumption DEF BoundsAssumption
      <3> QED BY <2>3, <3>2 DEF Bodies
    <2>6. Visible' = Append(Visible, Finalize(Len(Visible), b, TipHash(Visible)))
      BY <1>3, <2>1, <2>4 DEF BecomesVisible
    <2>7. synced' = synced
      BY <1>3 DEF BecomesVisible
    <2>8. Abs!AppendRecord(b)
      BY <2>4, <2>6, <2>7 DEF Abs!AppendRecord, NoBody, Finalize, Abs!Finalize,
                              TipHash, Abs!TipHash, GENESIS_HASH, Abs!GENESIS_HASH
    <2> QED BY <2>5, <2>8 DEF Abs!Next
  <1>4. CASE /\ synced' = synced
             /\ \E m \in synced..Len(Visible) : Visible' = SubSeq(Visible, 1, m)
    BY <1>4 DEF Abs!LoseTail, Abs!Next
  <1> QED BY <1>2, <1>3, <1>4, FileMoves

\* FileLedgerStore implements AppendOnlyLedger: records are only added at the
\* tip, each record_* call adds at most one however often it is rebuilt, and
\* what is synced stays.
THEOREM StoreImplementsLedger == Spec => Refinement
  <1>1. Init => Abs!Init
    BY TailFacts DEF Init, Abs!Init, Visible
  <1>2. Ind /\ CallInd /\ [Next]_vars => [Abs!Next]_(Abs!vars)
    BY StepRefines
  <1> QED BY <1>1, <1>2, CallInvariance, PTL DEF Spec, Refinement, Abs!Spec
-----------------------------------------------------------------------------
(***************************************************************************)
(* Races                                                                   *)
(***************************************************************************)
\* The positions among the first n of s that hold a record of another process.
OthersIn(s, w, n) == {i \in 1..n : s[i].body[1] # w}

\* The races the current, or last, call of w has lost.
Lost(w) == attempt[w] + (IF outcome[w] = "race" THEN 1 ELSE 0)

\* w has no open store yet.
Opening(w) ==
    \/ pc[w] \in {"closed", "open"}
    \/ pc[w] \in {"try", "queued", "locked"} /\ rec[w] = NoRec

\* w has built a record and not yet checked it under the lock.
Unchecked(w) == pc[w] \in {"try", "queued", "locked"} /\ rec[w] # NoRec

\* While a call waits with its record, the record extends what the handle
\* has consumed, and everything behind that is from other processes; each
\* lost race is one of their records in what the handle has consumed.
RaceOK(w) ==
    /\ chunk[w] # NoRec => pc[w] \in {"open", "tip"}
    /\ outcome[w] = "race" => pc[w] = "idle"
    /\ Opening(w) => attempt[w] = 0
    /\ Unchecked(w) => rec[w].index = st[w].len /\ rec[w].prev_hash = st[w].tip
    /\ Unchecked(w) \/ (pc[w] = "tip" /\ chunk[w] # NoRec) =>
          \A i \in (st[w].len + 1)..Len(Visible) : Visible[i].body[1] # w
    /\ Lost(w) <= Cardinality(OthersIn(Visible, w, st[w].len))

RaceInd == \A w \in Writers : RaceOK(w)

\* Others' records in a longer prefix: no fewer, and one more when one of
\* theirs is in the part that is new.
LEMMA OthersGrow ==
    ASSUME NEW s, NEW w, NEW n \in Nat, NEW m \in Nat, n <= m
    PROVE  /\ Cardinality(OthersIn(s, w, n)) \in Nat
           /\ Cardinality(OthersIn(s, w, n)) <= Cardinality(OthersIn(s, w, m))
           /\ \A i \in (n + 1)..m : s[i].body[1] # w =>
                 Cardinality(OthersIn(s, w, n)) + 1 <= Cardinality(OthersIn(s, w, m))
  <1> DEFINE A == OthersIn(s, w, n)
             B == OthersIn(s, w, m)
  <1>1. A \subseteq 1..n /\ B \subseteq 1..m /\ A \subseteq B
    BY DEF OthersIn
  <1>2. IsFiniteSet(A) /\ IsFiniteSet(B)
    BY <1>1, FS_Interval, FS_Subset
  <1>3. Cardinality(A) \in Nat /\ Cardinality(B) \in Nat /\ Cardinality(A) <= Cardinality(B)
    BY <1>1, <1>2, FS_CardinalityType, FS_Subset
  <1>4. ASSUME NEW i \in (n + 1)..m, s[i].body[1] # w
        PROVE  Cardinality(A) + 1 <= Cardinality(B)
    <2>1. i \notin A /\ A \cup {i} \subseteq B
      BY <1>1, <1>4 DEF OthersIn
    <2>2. Cardinality(A \cup {i}) = Cardinality(A) + 1
      BY <1>2, <2>1, FS_AddElement
    <2>3. Cardinality(A \cup {i}) <= Cardinality(B)
      BY <1>2, <2>1, FS_Subset
    <2> QED BY <2>2, <2>3
  <1> QED BY <1>3, <1>4

\* Only the prefix counts.
LEMMA OthersSame ==
    ASSUME NEW s, NEW t, NEW w, NEW n \in Nat, \A i \in 1..n : s[i] = t[i]
    PROVE  OthersIn(s, w, n) = OthersIn(t, w, n)
  BY DEF OthersIn

\* What readers see of the file changes at its end only, and there by the
\* record of the process that writes.
LEMMA VisibleGrows ==
    ASSUME Ind, CallInd, [Next]_vars, ~PowerLoss
    PROVE  \/ Visible' = Visible
           \/ \E u \in Writers : /\ BecomesVisible(u) /\ WriteLine(u)
                                 /\ Visible' = Append(Visible, rec[u])
                                 /\ rec[u].body[1] = u
  <1>1. ASSUME NEW u \in Writers, BecomesVisible(u)
        PROVE  Visible' = Append(Visible, rec[u]) /\ rec[u].body[1] = u
    <2>1. rec[u] = Finalize(Len(lines), rec[u].body, TipHash(lines)) /\ Len(lines) \in Nat
      BY <1>1, SeqFacts DEF Ind, TypeOK, Writing, BecomesVisible
    <2>2. rec[u].index # -1
      BY <2>1, FinalizeFacts
    <2>3. rec[u] # NoRec
      BY <2>2 DEF NoRec
    <2>4. rec[u].body = <<u, op[u]>>
      BY <2>3 DEF CallInd, CallOK
    <2> QED BY <1>1, <2>4 DEF BecomesVisible
  <1> QED BY <1>1, FileMoves

\* The first n records stay, and what comes after them is from others if it
\* was before and w is not writing.
LEMMA BehindKept ==
    ASSUME Ind, CallInd, [Next]_vars, ~PowerLoss, NEW w \in Writers,
           NEW n \in 0..Len(Visible)
    PROVE  /\ Len(Visible') \in Nat /\ n \in 0..Len(Visible')
           /\ OthersIn(Visible', w, n) = OthersIn(Visible, w, n)
           /\ /\ pc[w] # "write"
              /\ \A i \in (n + 1)..Len(Visible) : Visible[i].body[1] # w
              => \A i \in (n + 1)..Len(Visible') : Visible'[i].body[1] # w
  <1>1. IsSeq(Visible) /\ Len(Visible) \in Nat
    BY VisibleFacts, SeqFacts DEF Ind
  <1>2. CASE Visible' = Visible
    BY <1>1, <1>2
  <1>3. ASSUME NEW u \in Writers, BecomesVisible(u), Visible' = Append(Visible, rec[u]),
               rec[u].body[1] = u
        PROVE  /\ Len(Visible') \in Nat /\ n \in 0..Len(Visible')
               /\ OthersIn(Visible', w, n) = OthersIn(Visible, w, n)
               /\ /\ pc[w] # "write"
                  /\ \A i \in (n + 1)..Len(Visible) : Visible[i].body[1] # w
                  => \A i \in (n + 1)..Len(Visible') : Visible'[i].body[1] # w
    <2>1. PICK s, t : s = Visible /\ t = Visible'
      OBVIOUS
    <2>2. /\ Len(t) = Len(s) + 1 /\ t[Len(s) + 1] = rec[u] /\ Len(s) \in Nat
          /\ \A i \in 1..Len(s) : t[i] = s[i]
      BY <1>1, <1>3, <2>1, AppendFacts
    <2>3. n \in Nat /\ n <= Len(s) /\ \A i \in 1..n : t[i] = s[i]
      BY <2>1, <2>2
    <2>4. OthersIn(t, w, n) = OthersIn(s, w, n)
      BY <2>3, OthersSame
    <2>5. ASSUME pc[w] # "write", \A i \in (n + 1)..Len(s) : s[i].body[1] # w,
                 NEW i \in (n + 1)..Len(t)
          PROVE  t[i].body[1] # w
      <3>1. u # w
        BY <1>3, <2>5 DEF BecomesVisible
      <3>2. CASE i = Len(s) + 1
        BY <1>3, <2>2, <3>1, <3>2
      <3>3. CASE i # Len(s) + 1
        BY <2>2, <2>3, <2>5, <3>3
      <3> QED BY <3>2, <3>3
    <2> QED BY <2>1, <2>2, <2>3, <2>4, <2>5
  <1> QED BY <1>2, <1>3, VisibleGrows

\* Types at one process.
LEMMA RaceTypes ==
    ASSUME Ind, HandleInd, NEW v \in Writers
    PROVE  /\ st[v].len \in Nat /\ Len(Visible) \in Nat /\ st[v].len \in 0..Len(Visible)
           /\ attempt[v] \in Nat /\ Lost(v) \in Nat
           /\ DOMAIN st = Writers /\ DOMAIN pc = Writers /\ DOMAIN rec = Writers
           /\ DOMAIN chunk = Writers /\ DOMAIN attempt = Writers
           /\ DOMAIN outcome = Writers
  <1>1. Len(Visible) \in Nat /\ st[v].len <= Len(Visible) /\ st[v].len \in Nat
    BY VisibleFacts, SeqFacts DEF Ind, TypeOK, HandleInd, OnChain
  <1>2. attempt[v] \in Nat
    BY BoundsAssumption DEF Ind, TypeOK, BoundsAssumption
  <1>3. Lost(v) \in Nat
    BY <1>2 DEF Lost
  <1> QED BY <1>1, <1>2, <1>3 DEF Ind, TypeOK

\* No more races than before, and a handle that has consumed no less.
LEMMA LostKept ==
    ASSUME Ind, HandleInd, CallInd, RaceInd, [Next]_vars, ~PowerLoss, NEW v \in Writers,
           Lost(v)' \in Nat, Lost(v)' <= Lost(v),
           \/ st'[v].len = st[v].len
           \/ Visible' = Visible /\ st'[v].len \in Nat /\ st[v].len <= st'[v].len
    PROVE  (Lost(v) <= Cardinality(OthersIn(Visible, v, st[v].len)))'
  <1>1. /\ st[v].len \in 0..Len(Visible) /\ st[v].len \in Nat /\ Lost(v) \in Nat
        /\ Lost(v) <= Cardinality(OthersIn(Visible, v, st[v].len))
    BY RaceTypes DEF RaceInd, RaceOK
  <1>2. PICK n, k : n = st[v].len /\ k = Cardinality(OthersIn(Visible, v, n))
    OBVIOUS
  <1>3. k \in Nat
    BY <1>1, <1>2, OthersGrow
  <1>4. CASE st'[v].len = st[v].len
    <2>1. OthersIn(Visible', v, n) = OthersIn(Visible, v, n)
      BY <1>1, <1>2, BehindKept
    <2> QED BY <1>1, <1>2, <1>3, <1>4, <2>1
  <1>5. CASE Visible' = Visible /\ st'[v].len \in Nat /\ st[v].len <= st'[v].len
    <2>1. PICK m : m = st'[v].len
      OBVIOUS
    <2>2. /\ k <= Cardinality(OthersIn(Visible, v, m))
          /\ Cardinality(OthersIn(Visible, v, m)) \in Nat
      BY <1>1, <1>2, <1>5, <2>1, OthersGrow
    <2> QED BY <1>1, <1>2, <1>3, <1>5, <2>1, <2>2
  <1> QED BY <1>4, <1>5

\* Steps of others, and steps of v between the same two calls of refresh.
LEMMA RaceStays ==
    ASSUME Ind, HandleInd, CallInd, RaceInd, [Next]_vars, ~PowerLoss, NEW v \in Writers,
           rec'[v] = rec[v], chunk'[v] = chunk[v], st'[v] = st[v],
           attempt'[v] = attempt[v], outcome'[v] = outcome[v],
           \/ pc'[v] = pc[v]
           \/ {pc[v], pc'[v]} \subseteq {"try", "queued", "locked"}
           \/ {pc[v], pc'[v]} \subseteq {"write", "sync"}
    PROVE  RaceOK(v)'
  <1>1. RaceOK(v) /\ st[v].len \in 0..Len(Visible) /\ Lost(v) \in Nat
    BY RaceTypes DEF RaceInd
  <1>2. Lost(v)' = Lost(v)
    BY DEF Lost
  <1>3. (Lost(v) <= Cardinality(OthersIn(Visible, v, st[v].len)))'
    BY <1>1, <1>2, LostKept
  <1>4. ASSUME (Unchecked(v) \/ (pc[v] = "tip" /\ chunk[v] # NoRec))'
        PROVE  \A i \in (st'[v].len + 1)..Len(Visible') : Visible'[i].body[1] # v
    <2>1. Unchecked(v) \/ (pc[v] = "tip" /\ chunk[v] # NoRec)
      BY <1>4 DEF Unchecked
    <2>2. /\ pc[v] # "write"
          /\ \A i \in (st[v].len + 1)..Len(Visible) : Visible[i].body[1] # v
      BY <1>1, <2>1 DEF RaceOK, Unchecked
    <2>3. PICK n : n = st[v].len
      OBVIOUS
    <2>4. \A i \in (n + 1)..Len(Visible') : Visible'[i].body[1] # v
      BY <1>1, <2>2, <2>3, BehindKept
    <2> QED BY <2>3, <2>4
  <1>5. Opening(v)' => attempt'[v] = 0
    BY <1>1 DEF RaceOK, Opening
  <1> QED BY <1>1, <1>3, <1>4, <1>5 DEF RaceOK, Unchecked

\* Steps of v after which no call waits with a record.
LEMMA RaceRests ==
    ASSUME Ind, HandleInd, CallInd, RaceInd, [Next]_vars, ~PowerLoss, NEW v \in Writers,
           chunk'[v] = NoRec,
           \/ pc'[v] \in {"idle", "write", "tip"}
           \/ pc'[v] \in {"closed", "try"} /\ rec'[v] = NoRec /\ attempt'[v] = 0,
           outcome'[v] = "race" => pc'[v] = "idle",
           (Lost(v) <= Cardinality(OthersIn(Visible, v, st[v].len)))'
    PROVE  RaceOK(v)'
  BY DEF RaceOK, Opening, Unchecked

\* A handle that has consumed nothing, of a process without a store.
LEMMA RaceClosed ==
    ASSUME NEW v \in Writers, chunk'[v] = NoRec, pc'[v] = "closed",
           attempt'[v] = 0, outcome'[v] # "race", st'[v] = EmptyHandle
    PROVE  RaceOK(v)'
  <1>1. OthersIn(Visible', v, 0) = {}
    BY DEF OthersIn
  <1>2. Cardinality(OthersIn(Visible', v, 0)) = 0
    BY <1>1, FS_EmptySet
  <1>3. (Lost(v) <= Cardinality(OthersIn(Visible, v, st[v].len)))'
    BY <1>2 DEF Lost, EmptyHandle
  <1> QED BY <1>3 DEF RaceOK, Opening, Unchecked

\* A refresh that succeeds consumes no less than before.
LEMMA RefreshedFurther ==
    ASSUME Ind, HandleInd, NEW v \in Writers
    PROVE  /\ Refreshed.len \in Nat /\ st[v].len <= Refreshed.len
           /\ Refreshed.len = Len(Visible)
           /\ st[v].len = Refreshed.len => st[v].tip = Refreshed.tip
  <1>1. /\ IsSeq(Visible) /\ Len(Visible) \in Nat
        /\ st[v].len \in 0..Len(Visible) /\ st[v].tip = TipHash(SubSeq(Visible, 1, st[v].len))
    BY VisibleFacts, RaceTypes DEF Ind, HandleInd, OnChain
  <1>2. SubSeq(Visible, 1, Len(Visible)) = Visible
    BY <1>1 DEF IsSeq
  <1>3. Refreshed.len = Len(Visible) /\ Refreshed.tip = TipHash(Visible)
    BY DEF Refreshed
  <1>4. ASSUME st[v].len = Len(Visible) PROVE st[v].tip = TipHash(Visible)
    <2>1. SubSeq(Visible, 1, st[v].len) = Visible
      BY <1>2, <1>4
    <2> QED BY <1>1, <2>1
  <1> QED BY <1>1, <1>3, <1>4

\* The steps of an open, before there is a store.
LEMMA RaceOpens ==
    ASSUME Ind, HandleInd, CallInd, RaceInd, [Next]_vars, ~PowerLoss, NEW v \in Writers,
           OpenRead(v) \/ OpenRepair(v)
    PROVE  RaceOK(v)'
  <1>0. /\ DOMAIN st = Writers /\ DOMAIN pc = Writers /\ DOMAIN chunk = Writers
        /\ DOMAIN outcome = Writers /\ st[v].len \in Nat
        /\ Refreshed.len \in Nat
    BY RaceTypes, RefreshedFurther
  <1>1. /\ rec' = rec /\ attempt' = attempt /\ rec[v] = NoRec
        /\ attempt[v] = 0 /\ outcome[v] # "race"
    <2>1. rec' = rec /\ attempt' = attempt /\ pc[v] \in {"closed", "open", "locked"}
      BY <1>0 DEF OpenRead, OpenRepair
    <2>2. rec[v] = NoRec
      BY DEF OpenRead, OpenRepair, CallInd, CallOK
    <2> QED BY <2>1, <2>2 DEF RaceInd, RaceOK, Opening
  <1>2. ASSUME outcome'[v] # "race", st'[v].len \in Nat
        PROVE  (Lost(v) <= Cardinality(OthersIn(Visible, v, st[v].len)))'
    <2>1. PICK n : n = st'[v].len
      OBVIOUS
    <2>2. Lost(v)' = 0
      BY <1>1, <1>2 DEF Lost
    <2>3. Cardinality(OthersIn(Visible', v, n)) \in Nat
      BY <1>2, <2>1, OthersGrow
    <2> QED BY <2>1, <2>2, <2>3
  <1>3. CASE OpenRead(v)
    <2>1. PICK how : LET s == ReadStep(st[v], how)
                     IN  /\ chunk' = [chunk EXCEPT ![v] = NextChunk(s)]
                         /\ st' = [st EXCEPT ![v] =
                              IF s.res \in {"corrupt", "link"} THEN EmptyHandle ELSE s.h]
                         /\ pc' = [pc EXCEPT ![v] =
                              CASE s.res = "again" -> "open"
                                [] s.res = "torn" -> "try"
                                [] s.res = "ok" -> "idle"
                                [] OTHER -> "closed"]
                         /\ outcome' = [outcome EXCEPT ![v] =
                              IF s.res = "ok" THEN "opened"
                              ELSE IF s.res \in {"corrupt", "link"} THEN s.res ELSE @]
      BY <1>3 DEF OpenRead
    <2>2. PICK s : s = ReadStep(st[v], how)
      OBVIOUS
    <2>3. /\ s.h \in {st[v], Refreshed}
          /\ s.res \in {"corrupt", "torn", "link", "again", "ok"}
      BY <2>2 DEF ReadStep
    <2>4. /\ outcome'[v] # "race" /\ st'[v].len \in Nat
      BY <1>0, <1>1, <2>1, <2>2, <2>3 DEF EmptyHandle
    <2>5. /\ pc'[v] \in {"open", "try", "idle", "closed"}
          /\ chunk'[v] # NoRec => pc'[v] = "open"
      <3>1. CASE s.res = "again"
        BY <1>0, <2>1, <2>2, <3>1
      <3>2. CASE s.res # "again"
        <4>1. chunk'[v] = NoRec
          BY <1>0, <2>1, <2>2, <3>2 DEF NextChunk
        <4>2. pc'[v] \in {"open", "try", "idle", "closed"}
          <5>1. CASE s.res = "torn"
            BY <1>0, <2>1, <2>2, <5>1
          <5>2. CASE s.res = "ok"
            BY <1>0, <2>1, <2>2, <5>2
          <5>3. CASE s.res \in {"corrupt", "link"}
            BY <1>0, <2>1, <2>2, <5>3
          <5> QED BY <2>3, <3>2, <5>1, <5>2, <5>3
        <4> QED BY <4>1, <4>2
      <3> QED BY <3>1, <3>2
    <2> QED BY <1>1, <1>2, <2>4, <2>5 DEF RaceOK, Opening, Unchecked
  <1>4. CASE OpenRepair(v)
    <2>1. chunk'[v] = NoRec
      BY <1>4 DEF OpenRepair, RaceInd, RaceOK
    <2>2. \/ /\ st'[v] = EmptyHandle /\ pc'[v] = "closed" /\ outcome'[v] = "link"
          \/ /\ st'[v] = Refreshed /\ pc'[v] = "idle" /\ outcome'[v] = "opened"
      BY <1>0, <1>4 DEF OpenRepair
    <2>3. CASE st'[v] = EmptyHandle /\ pc'[v] = "closed" /\ outcome'[v] = "link"
      BY <1>1, <2>1, <2>3, RaceClosed
    <2>4. CASE st'[v] = Refreshed /\ pc'[v] = "idle" /\ outcome'[v] = "opened"
      BY <1>0, <1>2, <2>1, <2>4, RaceRests
    <2> QED BY <2>2, <2>3, <2>4
  <1> QED BY <1>3, <1>4

\* tip() and the record built on it: a refresh that succeeds leaves nothing
\* behind the handle, one that stops at a torn chunk has looked before.
LEMMA RaceReads ==
    ASSUME Ind, HandleInd, CallInd, RaceInd, [Next]_vars, ~PowerLoss, NEW v \in Writers,
           ReadTip(v)
    PROVE  RaceOK(v)'
  <1>0. /\ DOMAIN st = Writers /\ DOMAIN pc = Writers /\ DOMAIN chunk = Writers
        /\ DOMAIN rec = Writers /\ DOMAIN outcome = Writers /\ st[v].len \in Nat
        /\ Refreshed.len = Len(Visible) /\ Len(Visible) \in Nat /\ Refreshed.len \in Nat
        /\ st[v].len <= Refreshed.len /\ Lost(v) \in Nat /\ attempt[v] \in Nat
    BY RaceTypes, RefreshedFurther
  <1>1. /\ attempt' = attempt /\ Visible' = Visible /\ pc[v] = "tip"
    BY DEF ReadTip, fileVars, Visible
  <1>2. rec[v] = NoRec /\ outcome[v] # "race" /\ RaceOK(v)
    BY <1>1 DEF CallInd, CallOK, RaceInd, RaceOK
  <1>3. PICK how \in Reads(st[v].len, chunk[v]) :
             LET s == ReadStep(st[v], how)
                 built == s.res \in {"ok", "torn"}
             IN  /\ chunk' = [chunk EXCEPT ![v] = NextChunk(s)]
                 /\ st' = [st EXCEPT ![v] = s.h]
                 /\ rec' = [rec EXCEPT ![v] =
                      IF built THEN Finalize(s.h.len, <<v, op[v]>>, s.h.tip) ELSE @]
                 /\ pc' = [pc EXCEPT ![v] = IF built THEN "try"
                                            ELSE IF s.res = "again" THEN @ ELSE "idle"]
                 /\ outcome' = [outcome EXCEPT ![v] =
                      IF s.res \in {"corrupt", "link"} THEN s.res ELSE @]
    BY DEF ReadTip
  <1>4. PICK s : s = ReadStep(st[v], how)
    OBVIOUS
  <1>5. /\ s.h \in {st[v], Refreshed}
        /\ s.res \in {"corrupt", "torn", "link", "again", "ok"}
        /\ s.res \in {"again", "ok"} => s.h = Refreshed
        /\ s.res = "torn" => s.h = st[v] /\ chunk[v] # NoRec
    BY <1>3, <1>4 DEF ReadStep, Reads
  <1>6. /\ chunk'[v] = NextChunk(s) /\ st'[v] = s.h /\ outcome'[v] # "race"
        /\ Lost(v)' = attempt[v] /\ Lost(v) = attempt[v]
    BY <1>0, <1>1, <1>2, <1>3, <1>4, <1>5 DEF Lost
  <1>7. (Lost(v) <= Cardinality(OthersIn(Visible, v, st[v].len)))'
    BY <1>0, <1>1, <1>5, <1>6, LostKept
  <1>8. CASE s.res = "again"
    <2>1. pc'[v] = "tip" /\ rec'[v] = NoRec
      BY <1>0, <1>1, <1>2, <1>3, <1>4, <1>8
    <2>2. \A i \in (st'[v].len + 1)..Len(Visible') : Visible'[i].body[1] # v
      BY <1>0, <1>1, <1>5, <1>6, <1>8
    <2> QED BY <1>6, <1>7, <2>1, <2>2 DEF RaceOK, Opening, Unchecked
  <1>9. CASE s.res \in {"ok", "torn"}
    <2>1. pc'[v] = "try" /\ chunk'[v] = NoRec
      BY <1>0, <1>3, <1>4, <1>6, <1>9 DEF NextChunk
    <2>2. rec'[v] = Finalize(s.h.len, <<v, op[v]>>, s.h.tip)
      BY <1>0, <1>3, <1>4, <1>9
    <2>3. rec'[v].index = st'[v].len /\ rec'[v].prev_hash = st'[v].tip
      BY <1>6, <2>2, FinalizeFacts
    <2>4. rec'[v] # NoRec
      BY <1>0, <1>5, <1>6, <2>3 DEF NoRec
    <2>5. \A i \in (st'[v].len + 1)..Len(Visible') : Visible'[i].body[1] # v
      <3>1. CASE s.res = "ok"
        BY <1>0, <1>1, <1>5, <1>6, <3>1
      <3>2. CASE s.res = "torn"
        BY <1>1, <1>2, <1>5, <1>6, <3>2 DEF RaceOK
      <3> QED BY <1>9, <3>1, <3>2
    <2> QED BY <1>6, <1>7, <2>1, <2>3, <2>4, <2>5 DEF RaceOK, Opening, Unchecked
  <1>10. CASE s.res \in {"corrupt", "link"}
    <2>1. pc'[v] = "idle" /\ chunk'[v] = NoRec
      BY <1>0, <1>3, <1>4, <1>6, <1>10 DEF NextChunk
    <2> QED BY <1>6, <1>7, <2>1, RaceRests
  <1> QED BY <1>5, <1>8, <1>9, <1>10

\* The check under the lock: the record is turned down only when the handle
\* has consumed something since, which is another process's.
LEMMA RaceChecks ==
    ASSUME Ind, HandleInd, CallInd, RaceInd, [Next]_vars, ~PowerLoss, NEW v \in Writers,
           CheckTip(v)
    PROVE  RaceOK(v)'
  <1>0. /\ DOMAIN st = Writers /\ DOMAIN pc = Writers /\ DOMAIN attempt = Writers
        /\ DOMAIN rec = Writers /\ DOMAIN outcome = Writers /\ st[v].len \in Nat
        /\ Refreshed.len = Len(Visible) /\ Len(Visible) \in Nat /\ Refreshed.len \in Nat
        /\ st[v].len <= Refreshed.len /\ Lost(v) \in Nat /\ attempt[v] \in Nat
    BY RaceTypes, RefreshedFurther
  <1>1. pc[v] = "locked" /\ rec[v] # NoRec /\ chunk' = chunk /\ UNCHANGED acked
    BY DEF CheckTip
  <1>2. RaceOK(v) /\ Unchecked(v) /\ chunk[v] = NoRec /\ outcome[v] # "race"
    BY <1>1 DEF RaceInd, RaceOK, Unchecked
  <1>3. Lost(v) = attempt[v]
    BY <1>0, <1>2 DEF Lost
  <1>4. Visible' = Visible
    <2>1. \/ UNCHANGED <<lines, tail>>
          \/ /\ lines' = Repaired.lines /\ tail' = Repaired.tail
             /\ synced' = Len(Repaired.lines)
      BY DEF CheckTip, fileVars
    <2> QED BY <1>1, <2>1, RepairFacts DEF Critical, Visible
  <1>5. CASE LinksBroken(st[v])
    <2>1. /\ pc'[v] = "idle" /\ attempt'[v] = attempt[v] /\ outcome'[v] = "link"
          /\ st'[v] = st[v]
      BY <1>0, <1>5 DEF CheckTip
    <2>2. Lost(v)' = attempt[v]
      BY <1>0, <2>1 DEF Lost
    <2>3. (Lost(v) <= Cardinality(OthersIn(Visible, v, st[v].len)))'
      BY <1>0, <1>3, <2>1, <2>2, LostKept
    <2> QED BY <1>1, <1>2, <2>1, <2>3, RaceRests
  <1>6. CASE ~LinksBroken(st[v]) /\ ~Extends(rec[v], TipOnDisk(v))
    <2>1. /\ st'[v] = Refreshed
          /\ \/ pc'[v] = "tip" /\ attempt'[v] = attempt[v] + 1 /\ outcome'[v] = outcome[v]
             \/ pc'[v] = "idle" /\ attempt'[v] = attempt[v] /\ outcome'[v] = "race"
      BY <1>0, <1>6 DEF CheckTip
    <2>2. Lost(v)' = attempt[v] + 1
      BY <1>0, <1>2, <2>1 DEF Lost
    <2>3. st[v].len < Len(Visible)
      <3>1. rec[v].index = st[v].len /\ rec[v].prev_hash = st[v].tip
        BY <1>2 DEF RaceOK
      <3>2. ASSUME st[v].len = Refreshed.len PROVE FALSE
        BY <1>6, <3>1, <3>2, RefreshedFurther DEF Extends, TipOnDisk
      <3> QED BY <1>0, <3>2
    <2>4. PICK n, m : n = st[v].len /\ m = Len(Visible)
      OBVIOUS
    <2>5. n + 1 \in (n + 1)..m /\ n \in Nat /\ m \in Nat /\ n <= m
      BY <1>0, <2>3, <2>4
    <2>6. Visible[n + 1].body[1] # v
      BY <1>2, <2>4, <2>5 DEF RaceOK
    <2>7. /\ Cardinality(OthersIn(Visible, v, n)) \in Nat
          /\ Cardinality(OthersIn(Visible, v, m)) \in Nat
          /\ Cardinality(OthersIn(Visible, v, n)) + 1 <= Cardinality(OthersIn(Visible, v, m))
      BY <2>5, <2>6, OthersGrow
    <2>8. attempt[v] <= Cardinality(OthersIn(Visible, v, n))
      BY <1>2, <1>3, <2>4 DEF RaceOK
    <2>9. attempt[v] + 1 <= Cardinality(OthersIn(Visible, v, m))
      BY <1>0, <2>7, <2>8
    <2>10. (Lost(v) <= Cardinality(OthersIn(Visible, v, st[v].len)))'
      BY <1>0, <1>4, <2>1, <2>2, <2>4, <2>9
    <2> QED BY <1>1, <1>2, <2>1, <2>10, RaceRests
  <1>7. CASE ~LinksBroken(st[v]) /\ Extends(rec[v], TipOnDisk(v))
    <2>1. /\ st'[v] = Refreshed /\ pc'[v] = "write" /\ attempt' = attempt
          /\ outcome' = outcome
      BY <1>0, <1>7 DEF CheckTip
    <2>2. Lost(v)' = Lost(v)
      BY <2>1 DEF Lost
    <2>3. (Lost(v) <= Cardinality(OthersIn(Visible, v, st[v].len)))'
      BY <1>0, <1>4, <2>1, <2>2, LostKept
    <2> QED BY <1>1, <1>2, <2>1, <2>3, RaceRests
  <1> QED BY <1>5, <1>6, <1>7

\* The other steps of the process itself.
LEMMA RaceOwn ==
    ASSUME Ind, HandleInd, CallInd, RaceInd, [Next]_vars, ~PowerLoss, NEW v \in Writers,
           Step(v)
    PROVE  RaceOK(v)'
  <1>0. /\ DOMAIN st = Writers /\ DOMAIN pc = Writers /\ DOMAIN attempt = Writers
        /\ DOMAIN rec = Writers /\ DOMAIN outcome = Writers /\ DOMAIN chunk = Writers
        /\ st[v].len \in Nat /\ Lost(v) \in Nat /\ attempt[v] \in Nat /\ RaceOK(v)
    BY RaceTypes DEF RaceInd
  <1>1. CASE OpenRead(v) \/ OpenRepair(v)
    BY <1>1, RaceOpens
  <1>2. CASE TryLock(v) \/ Granted(v)
    <2>1. /\ {pc[v], pc'[v]} \subseteq {"try", "queued", "locked"}
          /\ UNCHANGED <<rec, chunk, st, attempt, outcome>>
      BY <1>0, <1>2 DEF TryLock, Granted
    <2> QED BY <2>1, RaceStays
  <1>3. CASE Begin(v)
    <2>1. /\ pc[v] = "idle" /\ pc'[v] = "tip" /\ attempt'[v] = 0 /\ outcome'[v] = "none"
          /\ UNCHANGED <<chunk, st>>
      BY <1>0, <1>3 DEF Begin
    <2>2. chunk'[v] = NoRec /\ Lost(v)' = 0
      BY <1>0, <2>1 DEF RaceOK, Lost
    <2>3. (Lost(v) <= Cardinality(OthersIn(Visible, v, st[v].len)))'
      BY <1>0, <2>1, <2>2, LostKept
    <2> QED BY <2>1, <2>2, <2>3, RaceRests
  <1>4. CASE ReadTip(v)
    BY <1>4, RaceReads
  <1>5. CASE CheckTip(v)
    BY <1>5, RaceChecks
  <1>6. CASE WriteLine(v)
    <2>1. /\ {pc[v], pc'[v]} \subseteq {"write", "sync"}
          /\ UNCHANGED <<rec, chunk, st, attempt, outcome>>
      BY <1>0, <1>6 DEF WriteLine
    <2> QED BY <2>1, RaceStays
  <1>7. CASE SyncOk(v)
    <2>1. /\ pc[v] = "sync" /\ pc'[v] = "idle" /\ outcome'[v] = "ok"
          /\ st'[v].len = st[v].len + 1 /\ UNCHANGED <<lines, tail, chunk, attempt>>
      BY <1>0, <1>7 DEF SyncOk
    <2>2. chunk'[v] = NoRec /\ Lost(v)' = attempt[v] /\ attempt[v] <= Lost(v)
      BY <1>0, <2>1 DEF RaceOK, Lost
    <2>3. Visible' = Visible /\ st'[v].len \in Nat /\ st[v].len <= st'[v].len
      BY <1>0, <2>1 DEF Visible
    <2>4. (Lost(v) <= Cardinality(OthersIn(Visible, v, st[v].len)))'
      BY <1>0, <2>2, <2>3, LostKept
    <2> QED BY <2>1, <2>2, <2>4, RaceRests
  <1> QED BY <1>1, <1>2, <1>3, <1>4, <1>5, <1>6, <1>7 DEF Step

\* Errors, timeouts and kills end the call or the open.
LEMMA RaceFaults ==
    ASSUME Ind, HandleInd, CallInd, RaceInd, [Next]_vars, ~PowerLoss, NEW v \in Writers,
           Fault(v)
    PROVE  RaceOK(v)'
  <1>0. /\ DOMAIN st = Writers /\ DOMAIN pc = Writers /\ DOMAIN attempt = Writers
        /\ DOMAIN rec = Writers /\ DOMAIN outcome = Writers /\ DOMAIN chunk = Writers
        /\ st[v].len \in Nat /\ Lost(v) \in Nat /\ attempt[v] \in Nat /\ RaceOK(v)
    BY RaceTypes DEF RaceInd
  <1>1. CASE Crash(v)
    <2>1. /\ pc'[v] = "closed" /\ st'[v] = EmptyHandle /\ chunk'[v] = NoRec
          /\ attempt'[v] = 0 /\ outcome'[v] = "none"
      BY <1>0, <1>1 DEF Crash
    <2> QED BY <2>1, RaceClosed
  <1>2. CASE LockTimeout(v) \/ IoError(v)
    <2>1. /\ pc[v] \in {"queued", "locked", "write", "sync"}
          /\ pc'[v] = AfterFailure(v) /\ rec'[v] = NoRec
          /\ st'[v] = (IF rec[v] = NoRec THEN EmptyHandle ELSE st[v])
          /\ outcome'[v] \in {"timeout", "io"} /\ UNCHANGED <<chunk, attempt>>
      BY <1>0, <1>2 DEF LockTimeout, IoError
    <2>2. chunk'[v] = NoRec /\ outcome[v] # "race"
      BY <1>0, <2>1 DEF RaceOK
    <2>3. CASE rec[v] = NoRec
      <3>1. pc[v] \notin {"write", "sync"}
        <4>1. Len(lines) \in Nat
          BY SeqFacts DEF Ind, TypeOK
        <4>2. rec[v].index = -1
          BY <2>3 DEF NoRec
        <4>3. ASSUME pc[v] = "write" PROVE FALSE
          <5>1. rec[v].index = Len(lines)
            BY <4>3, FinalizeFacts DEF Ind, Writing
          <5> QED BY <4>1, <4>2, <5>1
        <4>4. ASSUME pc[v] = "sync" PROVE FALSE
          <5>1. rec[v].index = Len(lines) - 1 /\ Len(lines) > 0
            BY <4>4 DEF Ind, Syncing
          <5> QED BY <4>1, <4>2, <5>1
        <4> QED BY <4>3, <4>4
      <3>2. attempt[v] = 0
        BY <1>0, <2>1, <2>3, <3>1 DEF RaceOK, Opening
      <3>3. pc'[v] = "closed" /\ st'[v] = EmptyHandle
        BY <2>1, <2>3 DEF AfterFailure
      <3> QED BY <2>1, <2>2, <3>2, <3>3, RaceClosed
    <2>4. CASE rec[v] # NoRec
      <3>1. pc'[v] = "idle" /\ st'[v] = st[v]
        BY <2>1, <2>4 DEF AfterFailure
      <3>2. Lost(v)' = Lost(v)
        BY <2>1, <2>2 DEF Lost
      <3>3. (Lost(v) <= Cardinality(OthersIn(Visible, v, st[v].len)))'
        BY <1>0, <3>1, <3>2, LostKept
      <3> QED BY <2>2, <3>1, <3>3, RaceRests
    <2> QED BY <2>3, <2>4
  <1> QED BY <1>1, <1>2 DEF Fault

LEMMA RaceStep ==
    ASSUME Ind, HandleInd, CallInd, RaceInd, [Next]_vars
    PROVE  RaceInd'
  <1> SUFFICES ASSUME NEW v \in Writers PROVE RaceOK(v)'
    BY DEF RaceInd
  <1>0. /\ DOMAIN st = Writers /\ DOMAIN pc = Writers /\ DOMAIN attempt = Writers
        /\ DOMAIN rec = Writers /\ DOMAIN outcome = Writers /\ DOMAIN chunk = Writers
    BY RaceTypes
  <1>1. CASE PowerLoss
    <2>1. /\ pc'[v] = "closed" /\ st'[v] = EmptyHandle /\ chunk'[v] = NoRec
          /\ attempt'[v] = 0 /\ outcome'[v] = "none"
      BY <1>1 DEF PowerLoss
    <2> QED BY <2>1, RaceClosed
  <1>2. ASSUME ~PowerLoss, UNCHANGED <<pc[v], rec[v], chunk[v], st[v], attempt[v], outcome[v]>>
        PROVE  RaceOK(v)'
    BY <1>2, RaceStays
  <1>3. CASE ~PowerLoss /\ (Step(v) \/ Fault(v))
    BY <1>3, RaceOwn, RaceFaults
  <1>4. ASSUME ~PowerLoss, NEW w \in Writers, w # v, Step(w) \/ Fault(w)
        PROVE  RaceOK(v)'
    <2>1. UNCHANGED <<pc[v], rec[v], chunk[v], st[v], attempt[v], outcome[v]>>
      <3>1. CASE Step(w)
        <4>1. CASE OpenRead(w) \/ ReadTip(w)
          BY <1>0, <1>4, <4>1 DEF OpenRead, ReadTip
        <4>2. CASE OpenRepair(w) \/ CheckTip(w)
          BY <1>0, <1>4, <4>2 DEF OpenRepair, CheckTip
        <4>3. CASE TryLock(w) \/ Granted(w) \/ Begin(w) \/ WriteLine(w) \/ SyncOk(w)
          BY <1>0, <1>4, <4>3 DEF TryLock, Granted, Begin, WriteLine, SyncOk
        <4> QED BY <3>1, <4>1, <4>2, <4>3 DEF Step
      <3>2. CASE Fault(w)
        BY <1>0, <1>4, <3>2 DEF Fault, LockTimeout, IoError, Crash
      <3> QED BY <1>4, <3>1, <3>2
    <2> QED BY <1>2, <1>4, <2>1
  <1>5. ASSUME ~PowerLoss, NEW w \in Writers, Orphan(w) PROVE RaceOK(v)'
    BY <1>2, <1>5 DEF Orphan, OrphanGranted, OrphanReleases, procVars
  <1>6. CASE ~PowerLoss /\ ((\E u \in Readers : VerifyRead(u)) \/ UNCHANGED vars)
    BY <1>2, <1>6 DEF VerifyRead, procVars, vars
  <1> QED BY <1>1, <1>3, <1>4, <1>5, <1>6 DEF Next

LEMMA RaceInit == Init => RaceInd
  <1> SUFFICES ASSUME Init, NEW w \in Writers PROVE RaceOK(w)
    BY DEF RaceInd
  <1>1. /\ pc[w] = "closed" /\ st[w].len = 0 /\ chunk[w] = NoRec
        /\ attempt[w] = 0 /\ outcome[w] = "none"
    BY DEF Init, EmptyHandle
  <1>2. OthersIn(Visible, w, 0) = {}
    BY DEF OthersIn
  <1>3. Lost(w) <= Cardinality(OthersIn(Visible, w, st[w].len))
    BY <1>1, <1>2, FS_EmptySet DEF Lost
  <1> QED BY <1>1, <1>3 DEF RaceOK, Opening, Unchecked

\* A call loses no more races than there are records of other processes in
\* the file, so retry_append gives up only when more than APPEND_RETRIES of
\* them are there: it never takes an earlier write of its own process for a
\* rival, whatever failed or timed out before.
THEOREM LostRacesAreProgress == Spec => []RacesAreProgress
  <1>1. Init => Ind /\ HandleInd /\ CallInd /\ RaceInd
    BY IndInit, HandleInit, CallInit, RaceInit
  <1>2. Ind /\ HandleInd /\ CallInd /\ RaceInd /\ [Next]_vars =>
            Ind' /\ HandleInd' /\ CallInd' /\ RaceInd'
    BY IndNext, HandleStep, CallStep, RaceStep
  <1>3. Ind /\ HandleInd /\ RaceInd => RacesAreProgress
    <2> SUFFICES ASSUME Ind, HandleInd, RaceInd, NEW w \in Writers
                 PROVE  Lost(w) <= Cardinality(OthersIn(Visible, w, Len(Visible)))
      BY DEF RacesAreProgress, Lost, OthersIn
    <2>1. PICK n, m : n = st[w].len /\ m = Len(Visible)
      OBVIOUS
    <2>2. /\ n \in Nat /\ m \in Nat /\ n <= m /\ Lost(w) \in Nat
          /\ Lost(w) <= Cardinality(OthersIn(Visible, w, n))
      BY <2>1, RaceTypes DEF RaceInd, RaceOK
    <2>3. /\ Cardinality(OthersIn(Visible, w, n)) \in Nat
          /\ Cardinality(OthersIn(Visible, w, m)) \in Nat
          /\ Cardinality(OthersIn(Visible, w, n)) <= Cardinality(OthersIn(Visible, w, m))
      BY <2>2, OthersGrow
    <2> QED BY <2>1, <2>2, <2>3
  <1> QED BY <1>1, <1>2, <1>3, PTL DEF Spec
-----------------------------------------------------------------------------
(***************************************************************************)
(* Readers next to writers that nothing kills                              *)
(***************************************************************************)
\* No process is killed, no machine loses power, no write or sync fails.
NoKills == MaxCrashes = 0 /\ MaxPowerLosses = 0 /\ MaxIoErrors = 0

\* The unterminated line is that of a process that is writing it.
TailOwned == tail # NoTail => \E w \in Writers : pc[w] = "write" /\ tail.rec = rec[w]

\* A reader that has consumed n records and a torn chunk of c finds c at that
\* place, still torn or complete.
ChunkStands(n, c) ==
    c # NoRec => \/ n = Len(Visible) /\ tail.kind = "torn" /\ tail.rec = c
                 \/ n \in 0..(Len(Visible) - 1) /\ Visible[n + 1] = c

ReadersInd ==
    /\ TailOwned
    /\ \A w \in Writers : ChunkStands(st[w].len, chunk[w])
    /\ \A v \in Readers : /\ verifier[v].n \in 0..Len(Visible)
                          /\ ChunkStands(verifier[v].n, verifier[v].chunk)
    /\ NoFalseCorruption

ReaderInd == Ind /\ HandleInd /\ CallInd /\ RaceInd /\ ReadersInd

\* Without kills the steps are those of the processes and the lock.
LEMMA NoKillSteps ==
    ASSUME NoKills, Ind
    PROVE  /\ ~PowerLoss
           /\ \A w \in Writers : ~Crash(w) /\ ~IoError(w)
  <1>1. faults.crash = 0 /\ faults.power = 0 /\ faults.io = 0
    BY DEF NoKills, Ind, TypeOK, FaultCounts
  <1>2. /\ ~(faults.crash < MaxCrashes) /\ ~(faults.power < MaxPowerLosses)
        /\ ~(faults.io < MaxIoErrors)
    BY <1>1 DEF NoKills
  <1>3. ~PowerLoss
    BY <1>2 DEF PowerLoss
  <1>4. ASSUME NEW w \in Writers PROVE ~Crash(w) /\ ~IoError(w)
    BY <1>2 DEF Crash, IoError
  <1> QED BY <1>3, <1>4

\* A repair finds nothing to repair.
LEMMA NothingToRepair ==
    ASSUME Ind, TailOwned, NEW w \in Writers, pc[w] = "locked"
    PROVE  tail = NoTail
  BY Alone DEF TailOwned, Critical, Ind

\* What a step does to the tail and to what readers see.
LEMMA TailMoves ==
    ASSUME NoKills, ReaderInd, [Next]_vars
    PROVE  \/ UNCHANGED <<lines, tail>>
           \/ UNCHANGED Visible /\ tail = NoTail
           \/ UNCHANGED Visible /\ tail.kind = "whole"
           \/ /\ tail.kind = "torn" /\ tail'.kind = "whole"
              /\ Visible' = Append(Visible, tail.rec)
  <1>1. ~PowerLoss /\ Ind /\ CallInd /\ TailOwned
    BY NoKillSteps DEF ReaderInd, ReadersInd
  <1>2. ASSUME NEW w \in Writers, OpenRepair(w) \/ CheckTip(w)
        PROVE  \/ UNCHANGED <<lines, tail>>
               \/ UNCHANGED Visible /\ tail = NoTail
    <2>1. /\ pc[w] = "locked" /\ UNCHANGED acked
          /\ \/ UNCHANGED <<lines, tail>>
             \/ /\ lines' = Repaired.lines /\ tail' = Repaired.tail
                /\ synced' = Len(Repaired.lines)
      BY <1>2 DEF OpenRepair, CheckTip, fileVars
    <2>2. tail = NoTail
      BY <1>1, <2>1, NothingToRepair
    <2> QED BY <1>1, <2>1, <2>2, RepairFacts DEF Critical
  <1>3. ASSUME NEW w \in Writers, WriteLine(w)
        PROVE  \/ UNCHANGED Visible /\ tail = NoTail
               \/ UNCHANGED Visible /\ tail.kind = "whole"
               \/ /\ tail.kind = "torn" /\ tail'.kind = "whole"
                  /\ Visible' = Append(Visible, tail.rec)
    <2>1. pc[w] = "write" /\ (tail = NoTail \/ tail.rec = rec[w])
      BY <1>1, <1>3 DEF WriteLine, Ind, Writing
    <2>2. CASE tail = NoTail /\ tail' = Torn(rec[w]) /\ UNCHANGED lines
      BY <2>2, TailFacts DEF Visible
    <2>3. CASE tail.kind = "torn" /\ tail' = Whole(rec[w]) /\ UNCHANGED lines
      BY <2>1, <2>3, TailFacts DEF Visible
    <2>4. CASE tail.kind = "whole" /\ lines' = Append(lines, rec[w]) /\ tail' = NoTail
      BY <2>1, <2>4, TailFacts DEF Visible
    <2> QED BY <1>3, <2>2, <2>3, <2>4 DEF WriteLine
  <1>4. ASSUME NEW w \in Writers,
               \/ OpenRead(w) \/ TryLock(w) \/ Granted(w) \/ Begin(w) \/ ReadTip(w)
               \/ SyncOk(w) \/ Orphan(w) \/ LockTimeout(w)
        PROVE  UNCHANGED <<lines, tail>>
    BY <1>4 DEF OpenRead, TryLock, Granted, Begin, ReadTip, SyncOk, Orphan, OrphanGranted,
       OrphanReleases, LockTimeout, fileVars
  <1>5. ASSUME (\E v \in Readers : VerifyRead(v)) \/ UNCHANGED vars
        PROVE  UNCHANGED <<lines, tail>>
    BY <1>5 DEF VerifyRead, fileVars, vars
  <1>6. \/ \E w \in Writers : Step(w) \/ Orphan(w) \/ LockTimeout(w)
        \/ (\E v \in Readers : VerifyRead(v)) \/ UNCHANGED vars
    BY <1>1, NoKillSteps DEF Next, Fault
  <1>7. ASSUME NEW w \in Writers, Step(w) \/ Orphan(w) \/ LockTimeout(w)
        PROVE  \/ OpenRepair(w) \/ CheckTip(w)
               \/ WriteLine(w)
               \/ OpenRead(w) \/ TryLock(w) \/ Granted(w) \/ Begin(w) \/ ReadTip(w)
               \/ SyncOk(w) \/ Orphan(w) \/ LockTimeout(w)
    BY <1>7 DEF Step
  <1>8. ASSUME NEW w \in Writers, Step(w) \/ Orphan(w) \/ LockTimeout(w)
        PROVE  \/ UNCHANGED <<lines, tail>>
               \/ UNCHANGED Visible /\ tail = NoTail
               \/ UNCHANGED Visible /\ tail.kind = "whole"
               \/ /\ tail.kind = "torn" /\ tail'.kind = "whole"
                  /\ Visible' = Append(Visible, tail.rec)
    <2>1. CASE OpenRepair(w) \/ CheckTip(w)
      BY <1>2, <2>1
    <2>2. CASE WriteLine(w)
      BY <1>3, <2>2
    <2>3. CASE \/ OpenRead(w) \/ TryLock(w) \/ Granted(w) \/ Begin(w) \/ ReadTip(w)
               \/ SyncOk(w) \/ Orphan(w) \/ LockTimeout(w)
      BY <1>4, <2>3
    <2> QED BY <1>7, <1>8, <2>1, <2>2, <2>3
  <1> QED BY <1>5, <1>6, <1>8

\* A chunk that a reader has read is never truncated.
LEMMA ChunkKept ==
    ASSUME NoKills, ReaderInd, [Next]_vars, NEW n, NEW c, ChunkStands(n, c)
    PROVE  ChunkStands(n, c)'
  <1>1. IsSeq(Visible) /\ Len(Visible) \in Nat
    BY VisibleFacts, SeqFacts DEF ReaderInd, Ind
  <1>2. CASE UNCHANGED <<lines, tail>>
    BY <1>2 DEF ChunkStands, Visible
  <1>3. CASE UNCHANGED Visible /\ (tail = NoTail \/ tail.kind = "whole")
    BY <1>3, TailFacts DEF ChunkStands
  <1>4. CASE /\ tail.kind = "torn" /\ tail'.kind = "whole"
             /\ Visible' = Append(Visible, tail.rec)
    <2>1. PICK s, t : s = Visible /\ t = Visible'
      OBVIOUS
    <2>2. /\ Len(t) = Len(s) + 1 /\ t[Len(s) + 1] = tail.rec /\ Len(s) \in Nat
          /\ \A i \in 1..Len(s) : t[i] = s[i]
      BY <1>1, <1>4, <2>1, AppendFacts
    <2>3. ASSUME c # NoRec PROVE n \in 0..(Len(t) - 1) /\ t[n + 1] = c
      <3>1. CASE n = Len(s) /\ tail.rec = c
        BY <2>2, <3>1
      <3>2. CASE n \in 0..(Len(s) - 1) /\ s[n + 1] = c
        BY <2>2, <3>2
      <3> QED BY <2>1, <2>3, <3>1, <3>2 DEF ChunkStands
    <2> QED BY <2>1, <2>3 DEF ChunkStands
  <1> QED BY <1>2, <1>3, <1>4, TailMoves

\* What a reader has consumed stays in the file.
LEMMA ConsumedKept ==
    ASSUME NoKills, ReaderInd, [Next]_vars, NEW n \in 0..Len(Visible)
    PROVE  n \in 0..Len(Visible')
  <1>1. IsSeq(Visible) /\ Len(Visible) \in Nat
    BY VisibleFacts, SeqFacts DEF ReaderInd, Ind
  <1>2. CASE UNCHANGED Visible \/ UNCHANGED <<lines, tail>>
    BY <1>2 DEF Visible
  <1>3. CASE Visible' = Append(Visible, tail.rec)
    BY <1>1, <1>3, AppendFacts
  <1> QED BY <1>2, <1>3, TailMoves

\* So a read finds what it found before, or more.
LEMMA NoMixture ==
    ASSUME NEW n, NEW c, ChunkStands(n, c), Len(Visible) \in Nat, NEW how \in Reads(n, c)
    PROVE  how \in {"torn", "more"}
  BY DEF Reads, Reread, ChunkStands

\* The handle of v: what it has consumed, and the chunk it has read so far.
LEMMA HandleReads ==
    ASSUME NoKills, ReaderInd, [Next]_vars, NEW v \in Writers
    PROVE  ChunkStands(st[v].len, chunk[v])' /\ outcome'[v] \notin {"corrupt", "link"}
  <1>0. /\ DOMAIN st = Writers /\ DOMAIN chunk = Writers /\ DOMAIN outcome = Writers
        /\ Len(Visible) \in Nat /\ IsSeq(Visible)
        /\ ChunkStands(st[v].len, chunk[v]) /\ outcome[v] \notin {"corrupt", "link"}
        /\ Ind /\ HandleInd /\ RaceInd /\ ~LinksBroken(st[v])
    BY RaceTypes, VisibleFacts, LinksHold DEF ReaderInd, ReadersInd, NoFalseCorruption, Ind
  <1>1. ASSUME UNCHANGED <<st[v], chunk[v], outcome[v]>>
        PROVE  ChunkStands(st[v].len, chunk[v])' /\ outcome'[v] \notin {"corrupt", "link"}
    <2>1. PICK n, c : n = st[v].len /\ c = chunk[v]
      OBVIOUS
    <2>2. ChunkStands(n, c)'
      BY <1>0, <2>1, ChunkKept
    <2> QED BY <1>0, <1>1, <2>1, <2>2
  <1>2. ASSUME OpenRead(v) \/ ReadTip(v)
        PROVE  ChunkStands(st[v].len, chunk[v])' /\ outcome'[v] \notin {"corrupt", "link"}
    <2>1. PICK how \in Reads(st[v].len, chunk[v]) :
             LET s == ReadStep(st[v], how)
             IN  /\ chunk' = [chunk EXCEPT ![v] = NextChunk(s)]
                 /\ st'[v] = (IF s.res \in {"corrupt", "link"} /\ OpenRead(v)
                              THEN EmptyHandle ELSE s.h)
                 /\ outcome'[v] \in
                      (IF s.res = "ok" THEN {"opened", outcome[v]}
                       ELSE IF s.res \in {"corrupt", "link"} THEN {s.res} ELSE {outcome[v]})
      <3>1. CASE OpenRead(v)
        BY <1>0, <3>1 DEF OpenRead
      <3>2. CASE ReadTip(v) /\ ~OpenRead(v)
        BY <1>0, <3>2 DEF ReadTip
      <3> QED BY <1>2, <3>1, <3>2
    <2>2. PICK s : s = ReadStep(st[v], how)
      OBVIOUS
    <2>3. how \in {"torn", "more"}
      BY <1>0, <2>1, NoMixture
    <2>4. /\ s.res \in {"torn", "again", "ok"}
          /\ s.res = "again" => tail.kind = "torn" /\ s.h = Refreshed
      BY <1>0, <2>2, <2>3 DEF ReadStep
    <2>5. outcome'[v] \notin {"corrupt", "link"}
      BY <1>0, <2>1, <2>2, <2>4
    <2>6. CASE s.res = "again"
      <3>1. chunk'[v] = tail.rec /\ st'[v] = Refreshed /\ UNCHANGED <<lines, tail>>
        <4>1. UNCHANGED <<lines, tail>>
          BY <1>2 DEF OpenRead, ReadTip, fileVars
        <4> QED BY <1>0, <2>1, <2>2, <2>4, <2>6, <4>1 DEF NextChunk
      <3>2. st'[v].len = Len(Visible')
        BY <3>1 DEF Refreshed, Visible
      <3> QED BY <2>4, <2>5, <2>6, <3>1, <3>2 DEF ChunkStands
    <2>7. CASE s.res # "again"
      <3>1. chunk'[v] = NoRec
        BY <1>0, <2>1, <2>2, <2>7 DEF NextChunk
      <3> QED BY <2>5, <3>1 DEF ChunkStands
    <2> QED BY <2>6, <2>7
  <1>3. ASSUME chunk[v] = NoRec, UNCHANGED chunk, outcome'[v] \notin {"corrupt", "link"}
        PROVE  ChunkStands(st[v].len, chunk[v])' /\ outcome'[v] \notin {"corrupt", "link"}
    BY <1>3 DEF ChunkStands
  <1>4. ASSUME \/ OpenRepair(v) \/ TryLock(v) \/ Granted(v) \/ Begin(v) \/ CheckTip(v)
               \/ WriteLine(v) \/ SyncOk(v) \/ LockTimeout(v)
        PROVE  ChunkStands(st[v].len, chunk[v])' /\ outcome'[v] \notin {"corrupt", "link"}
    <2>1. chunk' = chunk /\ pc[v] \notin {"open", "tip"}
      BY <1>4 DEF OpenRepair, TryLock, Granted, Begin, CheckTip, WriteLine, SyncOk,
                  LockTimeout
    <2>2. chunk[v] = NoRec
      BY <1>0, <2>1 DEF RaceInd, RaceOK
    <2>3. outcome'[v] \notin {"corrupt", "link"}
      <3>1. CASE OpenRepair(v) \/ CheckTip(v)
        BY <1>0, <3>1 DEF OpenRepair, CheckTip
      <3>2. CASE TryLock(v) \/ Granted(v) \/ WriteLine(v)
        BY <1>0, <3>2 DEF TryLock, Granted, WriteLine
      <3>3. CASE Begin(v) \/ SyncOk(v) \/ LockTimeout(v)
        BY <1>0, <3>3 DEF Begin, SyncOk, LockTimeout
      <3> QED BY <1>4, <3>1, <3>2, <3>3
    <2> QED BY <1>3, <2>1, <2>2, <2>3
  <1>5. CASE Step(v) \/ LockTimeout(v)
    BY <1>2, <1>4, <1>5 DEF Step
  <1>6. ASSUME NEW w \in Writers, w # v, Step(w) \/ LockTimeout(w)
        PROVE  UNCHANGED <<st[v], chunk[v], outcome[v]>>
    BY <1>0, <1>6 DEF Step, OpenRead, OpenRepair, TryLock, Granted, Begin, ReadTip, CheckTip,
                      WriteLine, SyncOk, LockTimeout
  <1>7. ASSUME (\E w \in Writers : Orphan(w)) \/ (\E u \in Readers : VerifyRead(u))
               \/ UNCHANGED vars
        PROVE  UNCHANGED <<st[v], chunk[v], outcome[v]>>
    BY <1>7 DEF Orphan, OrphanGranted, OrphanReleases, VerifyRead, procVars, vars
  <1>8. \/ \E w \in Writers : Step(w) \/ LockTimeout(w)
        \/ \E w \in Writers : Orphan(w)
        \/ (\E u \in Readers : VerifyRead(u)) \/ UNCHANGED vars
    BY <1>0, NoKillSteps DEF Next, Fault
  <1> QED BY <1>1, <1>5, <1>6, <1>7, <1>8

\* verify_chain says intact of an intact chain.
LEMMA IntactReport ==
    ASSUME NEW s, VerifyIntact(s)
    PROVE  verify_chain(s).intact
  BY DEF verify_chain

\* A `writ verify': reading on, or done with a report.
LEMMA VerifierReads ==
    ASSUME NoKills, ReaderInd, [Next]_vars, NEW v \in Readers
    PROVE  /\ verifier'[v].n \in 0..Len(Visible')
           /\ ChunkStands(verifier[v].n, verifier[v].chunk)'
           /\ verifier'[v].report.intact
  <1>0. /\ DOMAIN verifier = Readers /\ IsSeq(Visible) /\ Len(Visible) \in Nat
        /\ VerifyIntact(Visible) /\ verifier[v].n \in 0..Len(Visible)
        /\ ChunkStands(verifier[v].n, verifier[v].chunk) /\ verifier[v].report.intact
    BY VisibleFacts, SeqFacts
       DEF ReaderInd, ReadersInd, NoFalseCorruption, Ind, TypeOK, ChainIntact
  <1>1. ASSUME verifier'[v] = verifier[v]
        PROVE  /\ verifier'[v].n \in 0..Len(Visible')
               /\ ChunkStands(verifier[v].n, verifier[v].chunk)'
               /\ verifier'[v].report.intact
    <2>1. PICK n, c : n = verifier[v].n /\ c = verifier[v].chunk
      OBVIOUS
    <2>2. ChunkStands(n, c)' /\ n \in 0..Len(Visible')
      BY <1>0, <2>1, ChunkKept, ConsumedKept
    <2> QED BY <1>0, <1>1, <2>1, <2>2
  <1>2. ASSUME VerifyRead(v)
        PROVE  /\ verifier'[v].n \in 0..Len(Visible')
               /\ ChunkStands(verifier[v].n, verifier[v].chunk)'
               /\ verifier'[v].report.intact
    <2>1. PICK how \in Reads(verifier[v].n, verifier[v].chunk) :
             LET n == verifier[v].n
                 upTo == verify_chain(SubSeq(Visible, 1, n))
                 reading == [pc |-> "chunk", n |-> Len(Visible), chunk |-> tail.rec,
                             report |-> verifier[v].report]
                 broken == [records |-> n, intact |-> FALSE, broken_at |-> n]
             IN  verifier' = [verifier EXCEPT ![v] =
                   CASE how = "torn" -> Report(upTo)
                     [] how = "mixed" -> Report(IF upTo.intact THEN broken ELSE upTo)
                     [] how = "more" /\ tail.kind = "torn" -> reading
                     [] OTHER -> Report(verify_chain(Visible))]
      BY <1>2 DEF VerifyRead
    <2>2. how \in {"torn", "more"}
      BY <1>0, <2>1, NoMixture
    <2>3. UNCHANGED <<lines, tail>> /\ Visible' = Visible
      BY <1>2 DEF VerifyRead, fileVars, Visible
    <2>4. ASSUME NEW s, VerifyIntact(s), verifier'[v] = Report(verify_chain(s))
          PROVE  /\ verifier'[v].n \in 0..Len(Visible')
                 /\ ChunkStands(verifier[v].n, verifier[v].chunk)'
                 /\ verifier'[v].report.intact
      <3>1. verifier'[v].n = 0 /\ verifier'[v].chunk = NoRec
            /\ verifier'[v].report.intact
        BY <2>4, IntactReport DEF Report
      <3> QED BY <1>0, <2>3, <3>1 DEF ChunkStands
    <2>5. CASE how = "torn"
      <3>1. verifier'[v] = Report(verify_chain(SubSeq(Visible, 1, verifier[v].n)))
        BY <1>0, <2>1, <2>5
      <3>2. VerifyIntact(SubSeq(Visible, 1, verifier[v].n))
        BY <1>0, PrefixIntact
      <3> QED BY <2>4, <3>1, <3>2
    <2>6. CASE how = "more" /\ tail.kind = "torn"
      <3>1. verifier'[v] = [pc |-> "chunk", n |-> Len(Visible), chunk |-> tail.rec,
                            report |-> verifier[v].report]
        BY <1>0, <2>1, <2>6
      <3> QED BY <1>0, <2>3, <2>6, <3>1 DEF ChunkStands
    <2>7. CASE how = "more" /\ tail.kind # "torn"
      <3>1. verifier'[v] = Report(verify_chain(Visible))
        BY <1>0, <2>1, <2>7
      <3> QED BY <1>0, <2>4, <3>1
    <2> QED BY <2>2, <2>5, <2>6, <2>7
  <1>3. ASSUME NEW u \in Readers, u # v, VerifyRead(u) PROVE verifier'[v] = verifier[v]
    BY <1>0, <1>3 DEF VerifyRead
  <1>4. ASSUME \/ \E w \in Writers : Step(w) \/ Orphan(w) \/ LockTimeout(w)
               \/ UNCHANGED vars
        PROVE  verifier'[v] = verifier[v]
    <2>1. ASSUME NEW w \in Writers, OpenRead(w) \/ ReadTip(w) PROVE verifier' = verifier
      BY <2>1 DEF OpenRead, ReadTip
    <2>2. ASSUME NEW w \in Writers, OpenRepair(w) \/ CheckTip(w) PROVE verifier' = verifier
      BY <2>2 DEF OpenRepair, CheckTip
    <2>3. ASSUME NEW w \in Writers,
                 \/ TryLock(w) \/ Granted(w) \/ Begin(w) \/ WriteLine(w) \/ SyncOk(w)
                 \/ Orphan(w) \/ LockTimeout(w)
          PROVE  verifier' = verifier
      BY <2>3 DEF TryLock, Granted, Begin, WriteLine, SyncOk, LockTimeout, Orphan,
                  OrphanGranted, OrphanReleases
    <2>4. ASSUME UNCHANGED vars PROVE verifier' = verifier
      BY <2>4 DEF vars
    <2> QED BY <1>4, <2>1, <2>2, <2>3, <2>4 DEF Step
  <1>5. \/ \E w \in Writers : Step(w) \/ Orphan(w) \/ LockTimeout(w)
        \/ (\E u \in Readers : VerifyRead(u)) \/ UNCHANGED vars
    BY NoKillSteps DEF ReaderInd, Next, Fault
  <1> QED BY <1>1, <1>2, <1>3, <1>4, <1>5

LEMMA OwnerKept ==
    ASSUME NoKills, ReaderInd, [Next]_vars
    PROVE  TailOwned'
  <1>0. /\ DOMAIN pc = Writers /\ DOMAIN rec = Writers /\ Ind /\ TailOwned
        /\ \A w \in Writers : pc[w] = "sync" => tail = NoTail
    BY DEF ReaderInd, ReadersInd, Ind, TypeOK, Syncing
  <1>1. ASSUME NEW w \in Writers, pc'[w] = "write", tail' = NoTail \/ tail'.rec = rec'[w]
        PROVE  TailOwned'
    BY <1>1 DEF TailOwned
  <1>2. ASSUME tail' = NoTail PROVE TailOwned'
    BY <1>2 DEF TailOwned
  <1>3. ASSUME tail' = tail,
               \A w \in Writers : pc[w] = "write" => pc'[w] = "write" /\ rec'[w] = rec[w]
        PROVE  TailOwned'
    BY <1>0, <1>3 DEF TailOwned
  <1>4. ASSUME NEW w \in Writers, WriteLine(w) PROVE TailOwned'
    <2>1. /\ pc[w] = "write" /\ rec' = rec
          /\ \/ pc' = pc /\ (tail' = Torn(rec[w]) \/ tail' = Whole(rec[w]))
             \/ tail' = NoTail
      BY <1>4 DEF WriteLine
    <2> QED BY <1>1, <1>2, <2>1, TailFacts
  <1>5. ASSUME NEW w \in Writers, OpenRepair(w) \/ CheckTip(w) PROVE TailOwned'
    <2>1. pc[w] = "locked"
      BY <1>5 DEF OpenRepair, CheckTip
    <2>2. tail = NoTail
      BY <1>0, <2>1, NothingToRepair
    <2>3. tail' = tail \/ tail' = Repaired.tail
      BY <1>5 DEF OpenRepair, CheckTip, fileVars
    <2> QED BY <1>2, <2>2, <2>3 DEF Repaired
  <1>6. ASSUME NEW w \in Writers,
               \/ OpenRead(w) \/ TryLock(w) \/ Granted(w) \/ Begin(w) \/ ReadTip(w)
               \/ LockTimeout(w)
        PROVE  TailOwned'
    <2>1. /\ pc[w] # "write" /\ tail' = tail
          /\ \A u \in Writers : u # w => pc'[u] = pc[u] /\ rec'[u] = rec[u]
      BY <1>0, <1>6 DEF OpenRead, TryLock, Granted, Begin, ReadTip, LockTimeout, fileVars
    <2> QED BY <1>3, <2>1
  <1>7. ASSUME NEW w \in Writers, SyncOk(w) PROVE TailOwned'
    <2>1. tail' = NoTail
      BY <1>0, <1>7 DEF SyncOk
    <2> QED BY <1>2, <2>1
  <1>8. ASSUME NEW w \in Writers, Orphan(w) PROVE TailOwned'
    BY <1>3, <1>8 DEF Orphan, OrphanGranted, OrphanReleases, fileVars, procVars
  <1>9. ASSUME (\E v \in Readers : VerifyRead(v)) \/ UNCHANGED vars PROVE TailOwned'
    BY <1>3, <1>9 DEF VerifyRead, fileVars, procVars, vars
  <1>10. \/ \E w \in Writers : Step(w) \/ Orphan(w) \/ LockTimeout(w)
         \/ (\E v \in Readers : VerifyRead(v)) \/ UNCHANGED vars
    BY <1>0, NoKillSteps DEF Next, Fault
  <1> QED BY <1>4, <1>5, <1>6, <1>7, <1>8, <1>9, <1>10 DEF Step

LEMMA ReaderStep ==
    ASSUME NoKills, ReaderInd, [Next]_vars
    PROVE  ReaderInd'
  <1>1. Ind' /\ HandleInd' /\ CallInd' /\ RaceInd'
    BY IndNext, HandleStep, CallStep, RaceStep DEF ReaderInd
  <1>2. TailOwned'
    BY OwnerKept
  <1>3. /\ \A w \in Writers : ChunkStands(st[w].len, chunk[w])'
        /\ \A w \in Writers : outcome'[w] \notin {"corrupt", "link"}
    BY HandleReads
  <1>4. \A v \in Readers : /\ verifier'[v].n \in 0..Len(Visible')
                           /\ ChunkStands(verifier[v].n, verifier[v].chunk)'
                           /\ verifier'[v].report.intact
    BY VerifierReads
  <1>5. NoFalseCorruption'
    BY <1>3, <1>4 DEF NoFalseCorruption
  <1> QED BY <1>1, <1>2, <1>3, <1>4, <1>5 DEF ReaderInd, ReadersInd

LEMMA ReaderInit == Init => ReaderInd
  <1> SUFFICES ASSUME Init PROVE ReaderInd
    OBVIOUS
  <1>1. Ind /\ HandleInd /\ CallInd /\ RaceInd
    BY IndInit, HandleInit, CallInit, RaceInit
  <1>2. /\ tail = NoTail /\ Len(Visible) = 0
        /\ \A w \in Writers : chunk[w] = NoRec /\ outcome[w] = "none"
        /\ \A v \in Readers : verifier[v] = Report(verify_chain(<<>>))
    BY TailFacts DEF Init, Visible
  <1>3. verify_chain(<<>>).intact
    <2>1. VerifyIntact(<<>>)
      BY DEF VerifyIntact
    <2> QED BY <2>1, IntactReport
  <1>4. \A v \in Readers : /\ verifier[v].n = 0 /\ verifier[v].chunk = NoRec
                           /\ verifier[v].report.intact
    BY <1>2, <1>3 DEF Report
  <1>5. NoFalseCorruption
    BY <1>2, <1>4 DEF NoFalseCorruption
  <1> QED BY <1>1, <1>2, <1>4, <1>5 DEF ReaderInd, ReadersInd, TailOwned, ChunkStands

\* As long as nothing is killed and no system call fails, a refresh without
\* the lock and a `writ verify' never take the line a writer is in the middle
\* of for corruption, however many read and write, and whoever times out: the
\* chunk they have read is completed, never truncated.  (After a kill it can
\* be: repair_tail drops it, and a reader may see two lines mixed.)
THEOREM NoFalseAlarm ==
    ASSUME NoKills
    PROVE  Spec => []NoFalseCorruption
  <1>1. Init => ReaderInd
    BY ReaderInit
  <1>2. ReaderInd /\ [Next]_vars => ReaderInd'
    BY ReaderStep
  <1>3. ReaderInd => NoFalseCorruption
    BY DEF ReaderInd, ReadersInd
  <1> QED BY <1>1, <1>2, <1>3, PTL DEF Spec
=============================================================================
