--------------------------- MODULE SqlLedgerProofs ---------------------------
(***************************************************************************)
(* Safety of the database stores for any number of processes, readers,     *)
(* calls, retries and faults: one chain, one creation of the schema,       *)
(* truthful errors and scans, and the implementation of the abstract       *)
(* ledger.                                                                 *)
(***************************************************************************)
EXTENDS SqlLedger, LedgerChainLemmas

ProcShape(q) ==
    q = [pc |-> q.pc, conn |-> q.conn, seen |-> q.seen, again |-> q.again,
         rec |-> q.rec, op |-> q.op, attempt |-> q.attempt, outcome |-> q.outcome]

\* Nothing with body b is in the records s.
NoRow(s, b) == \A i \in 1..Len(s) : s[i].body # b

Opened == {"rescan", "idle", "tip", "begin", "lock", "check", "insert", "commit", "reply"}
Building == {"begin", "lock", "check", "insert", "commit", "reply"}
Unrecorded == {"tip", "begin", "lock", "check", "insert", "commit"}
Errors == {"race", "busy", "refused", "error"}

\* Whoever is between taking a lock and the end of the transaction on a live
\* connection has the lock.
LockHeld(w) ==
    /\ proc[w].conn /\ proc[w].pc \in {"check", "insert", "commit"} => locks.append = w
    /\ proc[w].conn /\ proc[w].pc \in {"format", "create"} => locks[LockFor("schema")] = w

\* A store is open on a ledger only; who creates the schema finds none.
SchemaSeen(w) ==
    /\ proc[w].pc \in Opened => format = "writ"
    /\ proc[w].conn /\ proc[w].pc = "create" => format = "blank"
    /\ proc[w].outcome # "twice"

\* A record is built by finalize for the current call; once checked under
\* the lock it extends the tip; it is on the ledger when COMMIT is answered.
RecordBuilt(w) ==
    LET q == proc[w] IN
    /\ q.pc \in Building =>
          q.rec = Finalize(q.rec.index, <<w, q.op>>, q.rec.prev_hash) /\ q.rec.index \in Nat
    /\ q.pc \in Building \cup {"tip"} => q.op > 0
    /\ q.conn /\ q.pc \in {"insert", "commit"} =>
          q.rec.index = Len(rows) /\ q.rec.prev_hash = TipHash(rows)
    /\ q.pc = "reply" => q.rec.index < Len(rows)

\* What has not been committed is not on the ledger.
NotRecorded(w) ==
    /\ \A n \in Nat : n > proc[w].op => NoRow(rows, <<w, n>>)
    /\ \/ proc[w].pc \in Unrecorded
       \/ proc[w].pc = "idle" /\ proc[w].outcome \in Errors
       => NoRow(rows, <<w, proc[w].op>>)

WriterOK(w) ==
    ProcShape(proc[w]) /\ LockHeld(w) /\ SchemaSeen(w) /\ RecordBuilt(w) /\ NotRecorded(w)

WritersOK == proc = [w \in Writers |-> proc[w]] /\ \A w \in Writers : WriterOK(w)

RowsOK ==
    /\ format # "writ" => rows = <<>>
    /\ \A n \in Nat : n >= faults.stray => NoRow(rows, <<"stray", n>>)

FaultsOK ==
    /\ faults \in [restart : Nat, kill : Nat, fail : Nat, stray : Nat]
    /\ faults.restart + faults.kill + faults.fail + faults.stray <= MaxFaults

\* The acknowledged records are on the ledger, and one of them is the last.
AckedOK ==
    /\ \A r \in acked : r.index + 1 \in 1..Len(rows)
    /\ acked # {} => \E n \in Acknowledged : \A k \in Acknowledged : k <= n

ScanShape(s) ==
    s = [pc |-> s.pc, kind |-> s.kind, snap |-> s.snap, from |-> s.from, next |-> s.next,
         got |-> s.got, conn |-> s.conn, report |-> s.report]

\* What a cursor has fetched is a prefix of the rows, and a snapshot no more
\* than it shows.
ScanOK(v) ==
    LET s == scan[v] IN
    /\ ScanShape(s) /\ s.kind \in {"verify", "iter"}
    /\ s.next \in 0..Len(rows) /\ s.from \in 0..Len(rows) /\ s.snap = s.from
    /\ s.got = SubSeq(rows, 1, s.next)
    /\ s.pc = "scan" => s.report = "none"
    /\ s.pc = "scan" /\ s.kind = "verify" => s.next <= s.snap
    /\ ~s.conn => faults.restart > 0
    /\ s.report \in {"none", "unreadable", "intact"}
    /\ s.report = "unreadable" => faults.restart > 0
    /\ s.report = "intact" => s.next >= s.from

ScansOK == scan = [v \in Readers |-> scan[v]] /\ \A v \in Readers : ScanOK(v)

\* The inductive invariant.
SqlInd ==
    /\ TypeOK /\ WritersOK /\ RowsOK /\ FaultsOK /\ AckedOK /\ ScansOK
    /\ SqlChainIntact
-----------------------------------------------------------------------------
(***************************************************************************)
(* Locks and faults                                                        *)
(***************************************************************************)
\* Nobody but w can have lost a lock.
LocksKept(w) ==
    /\ locks' \in [{"schema", "append"} -> Writers \cup {Nobody}]
    /\ \A v \in Writers, l \in {"schema", "append"} :
          v # w /\ locks[l] = v => locks'[l] = v

FaultsGrow ==
    FaultsOK' /\ faults'.restart >= faults.restart /\ faults'.stray >= faults.stray

LEMMA LockFacts ==
    ASSUME TypeOK, NEW w \in Writers
    PROVE  /\ UNCHANGED locks => LocksKept(w)
           /\ Release(w) => LocksKept(w)
           /\ \A l \in {"schema", "append"} :
                 locks[l] = Nobody /\ locks' = [locks EXCEPT ![l] = w] =>
                    LocksKept(w) /\ locks'[l] = w
           /\ LockFor("schema") \in {"schema", "append"}
  <1>1. UNCHANGED locks => LocksKept(w)
    BY DEF TypeOK, LocksKept
  <1>2. Release(w) => LocksKept(w)
    BY DEF TypeOK, LocksKept, Release
  <1>3. ASSUME NEW l \in {"schema", "append"}, locks[l] = Nobody,
               locks' = [locks EXCEPT ![l] = w]
        PROVE  LocksKept(w) /\ locks'[l] = w
    BY <1>3, SqlAssumption DEF TypeOK, LocksKept, Nobody, SqlAssumption
  <1>4. LockFor("schema") \in {"schema", "append"}
    BY DEF LockFor
  <1> QED BY <1>1, <1>2, <1>3, <1>4

\* One more fault within the bound.
LEMMA FaultFacts ==
    ASSUME FaultsOK
    PROVE  /\ UNCHANGED faults => FaultsGrow
           /\ Fault("fail") => FaultsGrow
           /\ Fault("kill") => FaultsGrow
           /\ Fault("restart") => FaultsGrow /\ faults'.restart > 0
           /\ Fault("stray") => /\ FaultsGrow /\ faults'.stray = faults.stray + 1
                                /\ faults.stray \in 0..MaxFaults
  <1>1. UNCHANGED faults => FaultsGrow
    BY DEF FaultsOK, FaultsGrow
  <1>2. Fault("fail") => FaultsGrow
    BY SqlAssumption DEF Fault, FaultsOK, FaultsGrow, SqlAssumption
  <1>3. Fault("kill") => FaultsGrow
    BY SqlAssumption DEF Fault, FaultsOK, FaultsGrow, SqlAssumption
  <1>4. Fault("restart") => FaultsGrow /\ faults'.restart > 0
    BY SqlAssumption DEF Fault, FaultsOK, FaultsGrow, SqlAssumption
  <1>5. Fault("stray") => /\ FaultsGrow /\ faults'.stray = faults.stray + 1
                          /\ faults.stray \in 0..MaxFaults
    BY SqlAssumption DEF Fault, FaultsOK, FaultsGrow, SqlAssumption
  <1> QED BY <1>1, <1>2, <1>3, <1>4, <1>5
-----------------------------------------------------------------------------
(***************************************************************************)
(* Steps of one process that leave the ledger alone                        *)
(***************************************************************************)
\* The types of a process, as TypeOK has them.
ProcTyped(w) ==
    /\ proc[w].pc \in {"closed", "schema", "format", "create", "rescan", "idle",
                       "tip", "begin", "lock", "check", "insert", "commit", "reply"}
    /\ proc[w].conn \in BOOLEAN /\ proc[w].again \in BOOLEAN
    /\ proc[w].op \in 0..MaxOps /\ proc[w].attempt \in 0..MaxRetries

LEMMA ProcMoves ==
    ASSUME SqlInd, NEW w \in Writers,
           UNCHANGED <<backend, isolation, format, rows, acked, scan>>,
           LocksKept(w), FaultsGrow, proc' = [proc EXCEPT ![w] = proc'[w]],
           ProcTyped(w)', WriterOK(w)'
    PROVE  SqlInd'
  <1>0. /\ \A v \in Writers : v # w => proc'[v] = proc[v]
        /\ proc' = [v \in Writers |-> proc'[v]]
    BY DEF SqlInd, WritersOK
  <1>1. TypeOK'
    <2>1. \A v \in Writers : ProcTyped(v)'
      BY <1>0 DEF SqlInd, TypeOK, ProcTyped
    <2> QED BY <2>1 DEF SqlInd, TypeOK, ProcTyped, LocksKept
  <1>2. ASSUME NEW v \in Writers PROVE WriterOK(v)'
    <2>1. CASE v = w
      BY <2>1
    <2>2. CASE v # w
      <3>1. proc'[v] = proc[v] /\ WriterOK(v)
        BY <1>0, <2>2 DEF SqlInd, WritersOK
      <3>2. LockHeld(v)'
        BY <2>2, <3>1, LockFacts DEF LocksKept, WriterOK, LockHeld, LockFor, Postgres, SqlInd
      <3>3. SchemaSeen(v)' /\ RecordBuilt(v)' /\ NotRecorded(v)' /\ ProcShape(proc[v])'
        BY <3>1 DEF WriterOK, SchemaSeen, RecordBuilt, NotRecorded
      <3> QED BY <3>2, <3>3 DEF WriterOK
    <2> QED BY <2>1, <2>2
  <1>3. WritersOK'
    BY <1>0, <1>2 DEF WritersOK
  <1>4. RowsOK'
    <2>1. \A n \in Nat : n >= faults'.stray => n >= faults.stray
      BY DEF SqlInd, FaultsGrow, FaultsOK
    <2> QED BY <2>1 DEF SqlInd, RowsOK
  <1>5. AckedOK'
    BY DEF SqlInd, AckedOK, Acknowledged
  <1>6. ScansOK'
    BY DEF SqlInd, ScansOK, ScanOK, FaultsGrow, FaultsOK
  <1>7. SqlChainIntact'
    BY DEF SqlInd, SqlChainIntact
  <1> QED BY <1>1, <1>3, <1>4, <1>5, <1>6, <1>7 DEF SqlInd, FaultsGrow

\* A call or an open ends with an error or an answer.
LEMMA FailsKeeps ==
    ASSUME SqlInd, NEW w \in Writers, NEW where \in {"closed", "idle"}, NEW how,
           how # "twice", Fails(w, where, how),
           where = "idle" => proc[w].pc \in Opened,
           where = "idle" /\ how \in Errors => NoRow(rows, <<w, proc[w].op>>),
           UNCHANGED <<backend, isolation, format, rows, acked, scan>>,
           LocksKept(w), FaultsGrow
    PROVE  SqlInd'
  <1>1. PICK q : q = proc[w] /\ ProcShape(q) /\ ProcTyped(w)
    BY DEF SqlInd, WritersOK, WriterOK, TypeOK, ProcTyped
  <1>2. /\ proc' = [proc EXCEPT ![w] = proc'[w]]
        /\ proc'[w] = [q EXCEPT !.pc = where, !.outcome = how, !.rec = NoRec, !.again = FALSE]
    BY <1>1 DEF Fails, SqlInd, WritersOK
  <1>3. /\ ProcShape(proc'[w]) /\ proc'[w].pc = where /\ proc'[w].outcome = how
        /\ proc'[w].conn = q.conn /\ proc'[w].op = q.op /\ proc'[w].attempt = q.attempt
        /\ proc'[w].again = FALSE
    BY <1>1, <1>2 DEF ProcShape
  <1>4. ProcTyped(w)'
    BY <1>1, <1>3 DEF ProcTyped
  <1>5. LockHeld(w)' /\ SchemaSeen(w)' /\ RecordBuilt(w)'
    BY <1>1, <1>3 DEF LockHeld, SchemaSeen, RecordBuilt, Opened, Building,
                      SqlInd, WritersOK, WriterOK
  <1>6. NotRecorded(w)'
    BY <1>1, <1>3 DEF NotRecorded, Unrecorded, SqlInd, WritersOK, WriterOK
  <1>7. WriterOK(w)'
    BY <1>3, <1>5, <1>6 DEF WriterOK
  <1> QED BY <1>2, <1>4, <1>7, ProcMoves

\* What is known of a process before it moves.
LEMMA ProcFacts ==
    ASSUME SqlInd, NEW w \in Writers
    PROVE  ProcShape(proc[w]) /\ ProcTyped(w) /\ WriterOK(w)
  BY DEF SqlInd, WritersOK, WriterOK, TypeOK, ProcTyped

\* connect_target: the process asks for the schema lock.
LEMMA ConnectKeeps ==
    ASSUME SqlInd, NEW w \in Writers, Connect(w)
    PROVE  SqlInd'
  <1>1. PICK q : q = proc[w] /\ ProcShape(q)
    BY ProcFacts
  <1>2. /\ UNCHANGED <<backend, isolation, format, rows, locks, acked, scan, faults>>
        /\ proc' = [proc EXCEPT ![w] = proc'[w]]
        /\ proc'[w] = [q EXCEPT !.pc = "schema", !.conn = TRUE, !.seen = format]
    BY <1>1 DEF Connect, dbVars, SqlInd, WritersOK
  <1>3. /\ ProcShape(proc'[w]) /\ proc'[w].pc = "schema" /\ proc'[w].conn = TRUE
        /\ proc'[w].op = q.op /\ proc'[w].attempt = q.attempt /\ proc'[w].again = q.again
        /\ proc'[w].outcome = q.outcome
    BY <1>1, <1>2 DEF ProcShape
  <1>4. ProcTyped(w)'
    BY <1>1, <1>3, ProcFacts DEF ProcTyped
  <1>5. LockHeld(w)' /\ SchemaSeen(w)' /\ RecordBuilt(w)'
    BY <1>1, <1>3, ProcFacts DEF WriterOK, LockHeld, SchemaSeen, RecordBuilt, Opened, Building
  <1>6. NotRecorded(w)'
    BY <1>1, <1>2, <1>3, ProcFacts DEF WriterOK, NotRecorded, Unrecorded
  <1>7. WriterOK(w)'
    BY <1>3, <1>5, <1>6 DEF WriterOK
  <1> QED BY <1>2, <1>4, <1>7, LockFacts, FaultFacts, ProcMoves DEF SqlInd

\* The schema lock is granted.
LEMMA SchemaLockKeeps ==
    ASSUME SqlInd, NEW w \in Writers, SchemaLock(w)
    PROVE  SqlInd'
  <1>1. PICK q, l : q = proc[w] /\ ProcShape(q) /\ l = LockFor("schema")
    BY ProcFacts
  <1>2. /\ UNCHANGED <<backend, isolation, format, rows, acked, scan, faults>>
        /\ proc[w].pc = "schema"
        /\ locks[l] = Nobody /\ locks' = [locks EXCEPT ![l] = w]
        /\ proc' = [proc EXCEPT ![w] = proc'[w]]
        /\ proc'[w] = [q EXCEPT !.pc = "format"]
    BY <1>1 DEF SchemaLock, SqlInd, WritersOK
  <1>3. LocksKept(w) /\ locks'[l] = w /\ l = LockFor("schema")'
    BY <1>1, <1>2, LockFacts DEF SqlInd, LockFor, Postgres
  <1>4. /\ ProcShape(proc'[w]) /\ proc'[w].pc = "format" /\ proc'[w].conn = q.conn
        /\ proc'[w].op = q.op /\ proc'[w].attempt = q.attempt /\ proc'[w].again = q.again
        /\ proc'[w].outcome = q.outcome
    BY <1>1, <1>2 DEF ProcShape
  <1>5. ProcTyped(w)'
    BY <1>1, <1>4, ProcFacts DEF ProcTyped
  <1>6. LockHeld(w)'
    BY <1>3, <1>4 DEF LockHeld
  <1>7. SchemaSeen(w)' /\ RecordBuilt(w)'
    BY <1>1, <1>4, ProcFacts DEF WriterOK, SchemaSeen, RecordBuilt, Opened, Building
  <1>8. NotRecorded(w)'
    BY <1>1, <1>2, <1>4, ProcFacts DEF WriterOK, NotRecorded, Unrecorded
  <1> QED BY <1>2, <1>3, <1>4, <1>5, <1>6, <1>7, <1>8, FaultFacts, ProcMoves
          DEF SqlInd, WriterOK

\* What the schema transaction reads is what is there, or no ledger.
LEMMA MarkerFacts ==
    ASSUME TypeOK, NEW w \in Writers
    PROVE  /\ MarkerOf(w) \in {"blank", "writ", "foreign"}
           /\ MarkerOf(w) = "blank" => format = "blank"
           /\ MarkerOf(w) = "writ" => format = "writ"
  BY DEF TypeOK, MarkerOf, marker_state, check_format

\* The schema is used, to be created, or refused.
LEMMA SchemaCheckKeeps ==
    ASSUME SqlInd, NEW w \in Writers, SchemaCheck(w)
    PROVE  SqlInd'
  <1>1. PICK q : q = proc[w] /\ ProcShape(q)
    BY ProcFacts
  <1>2. /\ UNCHANGED <<backend, isolation, format, rows, acked, scan, faults>>
        /\ q.pc = "format" /\ q.conn
    BY <1>1 DEF SchemaCheck
  <1>3. CASE Fails(w, "closed", "foreign") /\ Release(w)
    BY <1>2, <1>3, FailsKeeps, LockFacts, FaultFacts DEF SqlInd
  <1>4. CASE \E to \in {"rescan", "create"} :
                /\ MarkerOf(w) = IF to = "rescan" THEN "writ" ELSE "blank"
                /\ proc' = [proc EXCEPT ![w].pc = to]
                /\ IF to = "rescan" THEN Release(w) ELSE UNCHANGED locks
    <2>1. PICK to \in {"rescan", "create"} :
                /\ MarkerOf(w) = IF to = "rescan" THEN "writ" ELSE "blank"
                /\ proc' = [proc EXCEPT ![w].pc = to]
                /\ IF to = "rescan" THEN Release(w) ELSE UNCHANGED locks
      BY <1>4
    <2>2. /\ proc' = [proc EXCEPT ![w] = proc'[w]]
          /\ proc'[w] = [q EXCEPT !.pc = to]
      BY <1>1, <2>1 DEF SqlInd, WritersOK
    <2>3. /\ ProcShape(proc'[w]) /\ proc'[w].pc = to /\ proc'[w].conn = q.conn
          /\ proc'[w].op = q.op /\ proc'[w].attempt = q.attempt /\ proc'[w].again = q.again
          /\ proc'[w].outcome = q.outcome
      BY <1>1, <2>2 DEF ProcShape
    <2>4. ProcTyped(w)'
      BY <1>1, <2>3, ProcFacts DEF ProcTyped
    <2>5. LocksKept(w)
      BY <2>1, LockFacts DEF SqlInd
    <2>6. LockHeld(w)'
      BY <1>1, <1>2, <2>1, <2>3, ProcFacts
      DEF LockHeld, WriterOK, LockFor, Postgres
    <2>7. SchemaSeen(w)'
      BY <1>1, <1>2, <2>1, <2>3, ProcFacts, MarkerFacts
      DEF SchemaSeen, WriterOK, Opened, SqlInd
    <2>8. WriterOK(w)'
      BY <1>1, <1>2, <2>3, <2>6, <2>7, ProcFacts
      DEF WriterOK, RecordBuilt, NotRecorded, Building, Unrecorded
    <2> QED BY <1>2, <2>2, <2>4, <2>5, <2>8, FaultFacts, ProcMoves DEF SqlInd
  <1> QED BY <1>3, <1>4 DEF SchemaCheck

\* A call begins: nothing is on the ledger under its number yet.
LEMMA BeginKeeps ==
    ASSUME SqlInd, NEW w \in Writers, Begin(w)
    PROVE  SqlInd'
  <1>1. PICK q : q = proc[w] /\ ProcShape(q)
    BY ProcFacts
  <1>2. /\ UNCHANGED <<backend, isolation, format, rows, locks, acked, scan, faults>>
        /\ q.pc = "idle" /\ q.op < MaxOps
        /\ proc' = [proc EXCEPT ![w] = proc'[w]]
        /\ proc'[w] = [q EXCEPT !.pc = "tip", !.op = q.op + 1, !.attempt = 0,
                                !.outcome = "none"]
    <2>1. /\ proc' = [proc EXCEPT ![w].pc = "tip", ![w].op = @ + 1, ![w].attempt = 0,
                                  ![w].outcome = "none"]
          /\ UNCHANGED <<backend, isolation, format, rows, locks, acked, scan, faults>>
          /\ q.pc = "idle" /\ q.op < MaxOps
      BY <1>1 DEF Begin, dbVars
    <2>2. proc' = [proc EXCEPT ![w] = [q EXCEPT !.pc = "tip", !.op = q.op + 1, !.attempt = 0,
                                                !.outcome = "none"]]
      BY <1>1, <2>1 DEF SqlInd, WritersOK, ProcShape
    <2> QED BY <2>1, <2>2 DEF SqlInd, WritersOK
  <1>3. /\ ProcShape(proc'[w]) /\ proc'[w].pc = "tip" /\ proc'[w].op = q.op + 1
        /\ proc'[w].attempt = 0 /\ proc'[w].outcome = "none"
        /\ proc'[w].conn = q.conn /\ proc'[w].again = q.again
    BY <1>1, <1>2 DEF ProcShape
  <1>4. q.op \in 0..MaxOps /\ MaxOps \in Nat /\ MaxRetries \in Nat
    BY <1>1, ProcFacts, SqlAssumption DEF ProcTyped, SqlAssumption
  <1>5. ProcTyped(w)'
    BY <1>1, <1>2, <1>3, <1>4, ProcFacts DEF ProcTyped
  <1>6. LockHeld(w)' /\ SchemaSeen(w)' /\ RecordBuilt(w)'
    <2>1. LockHeld(w)' /\ SchemaSeen(w)'
      BY <1>1, <1>2, <1>3, ProcFacts DEF WriterOK, LockHeld, SchemaSeen, Opened
    <2>2. RecordBuilt(w)'
      BY <1>3, <1>4 DEF RecordBuilt, Building
    <2> QED BY <2>1, <2>2
  <1>7. NotRecorded(w)'
    <2>1. \A n \in Nat : n > q.op => NoRow(rows, <<w, n>>)
      BY <1>1, ProcFacts DEF WriterOK, NotRecorded
    <2>2. PICK o : o = q.op + 1 /\ o \in Nat /\ \A n \in Nat : n >= o => NoRow(rows, <<w, n>>)
      BY <1>4, <2>1
    <2> QED BY <1>2, <1>3, <2>2 DEF NotRecorded
  <1> QED BY <1>2, <1>3, <1>5, <1>6, <1>7, LockFacts, FaultFacts, ProcMoves
          DEF SqlInd, WriterOK

\* A process that goes on with its call.
LEMMA RecordMoves ==
    ASSUME SqlInd, NEW w \in Writers,
           UNCHANGED <<backend, isolation, format, rows, acked, scan, faults>>,
           LocksKept(w), proc' = [proc EXCEPT ![w] = proc'[w]],
           ProcShape(proc'[w]), ProcTyped(w)',
           proc[w].pc \in Unrecorded, proc'[w].pc \in Unrecorded,
           proc'[w].op = proc[w].op, proc'[w].outcome = proc[w].outcome,
           LockHeld(w)', RecordBuilt(w)'
    PROVE  SqlInd'
  <1>1. SchemaSeen(w)'
    BY ProcFacts DEF WriterOK, SchemaSeen, Opened, Unrecorded
  <1>2. NotRecorded(w)'
    BY ProcFacts DEF WriterOK, NotRecorded
  <1>3. WriterOK(w)'
    BY <1>1, <1>2 DEF WriterOK
  <1> QED BY <1>3, FaultFacts, ProcMoves DEF SqlInd

\* tip() and the building of the record.
LEMMA ReadTipKeeps ==
    ASSUME SqlInd, NEW w \in Writers, ReadTip(w)
    PROVE  SqlInd'
  <1>1. PICK q, r : /\ q = proc[w] /\ ProcShape(q)
                    /\ r = Finalize(Len(rows), <<w, q.op>>, TipHash(rows))
    BY ProcFacts
  <1>2. /\ UNCHANGED <<backend, isolation, format, rows, locks, acked, scan, faults>>
        /\ q.pc = "tip"
        /\ proc' = [proc EXCEPT ![w] = proc'[w]]
        /\ proc'[w] = [q EXCEPT !.pc = "begin", !.conn = TRUE, !.rec = r]
    BY <1>1 DEF ReadTip, TipRow, dbVars, SqlInd, WritersOK
  <1>3. /\ ProcShape(proc'[w]) /\ proc'[w].pc = "begin" /\ proc'[w].conn = TRUE
        /\ proc'[w].rec = r /\ proc'[w].op = q.op /\ proc'[w].attempt = q.attempt
        /\ proc'[w].outcome = q.outcome /\ proc'[w].again = q.again
    BY <1>1, <1>2 DEF ProcShape
  <1>4. r = Finalize(r.index, <<w, q.op>>, r.prev_hash) /\ r.index \in Nat
    BY <1>1, SeqFacts DEF Finalize, SqlInd, TypeOK
  <1>5. RecordBuilt(w)'
    BY <1>1, <1>2, <1>3, <1>4, ProcFacts DEF WriterOK, RecordBuilt, Building
  <1>6. ProcTyped(w)'
    BY <1>1, <1>3, ProcFacts DEF ProcTyped
  <1>7. LockHeld(w)'
    BY <1>3 DEF LockHeld
  <1> QED BY <1>1, <1>2, <1>3, <1>5, <1>6, <1>7, LockFacts, RecordMoves
          DEF Unrecorded, SqlInd

\* BEGIN, with one reconnect.
LEMMA BeginTxKeeps ==
    ASSUME SqlInd, NEW w \in Writers, BeginTx(w)
    PROVE  SqlInd'
  <1>1. PICK q : q = proc[w] /\ ProcShape(q)
    BY ProcFacts
  <1>2. /\ UNCHANGED <<backend, isolation, format, rows, locks, acked, scan, faults>>
        /\ q.pc = "begin"
    BY <1>1 DEF BeginTx, dbVars
  <1>3. CASE Fails(w, "idle", "error")
    <2>1. q.pc \in Opened /\ NoRow(rows, <<w, q.op>>)
      BY <1>1, <1>2, ProcFacts DEF Opened, WriterOK, NotRecorded, Unrecorded
    <2> QED BY <1>1, <1>2, <1>3, <2>1, FailsKeeps, LockFacts, FaultFacts DEF SqlInd
  <1>4. CASE \/ proc' = [proc EXCEPT ![w].pc = "lock"]
             \/ proc' = [proc EXCEPT ![w].conn = TRUE, ![w].again = TRUE]
    <2>1. /\ proc' = [proc EXCEPT ![w] = proc'[w]]
          /\ \/ proc'[w] = [q EXCEPT !.pc = "lock"]
             \/ proc'[w] = [q EXCEPT !.conn = TRUE, !.again = TRUE]
      BY <1>1, <1>4 DEF SqlInd, WritersOK, ProcShape
    <2>2. /\ ProcShape(proc'[w]) /\ proc'[w].pc \in {"lock", "begin"}
          /\ proc'[w].rec = q.rec /\ proc'[w].op = q.op /\ proc'[w].attempt = q.attempt
          /\ proc'[w].outcome = q.outcome
          /\ proc'[w].conn \in {q.conn, TRUE} /\ proc'[w].again \in {q.again, TRUE}
      BY <1>1, <1>2, <2>1 DEF ProcShape
    <2>3. RecordBuilt(w)'
      BY <1>1, <1>2, <2>2, ProcFacts DEF WriterOK, RecordBuilt, Building
    <2>4. ProcTyped(w)'
      BY <1>1, <2>2, ProcFacts DEF ProcTyped
    <2>5. LockHeld(w)'
      BY <2>2 DEF LockHeld
    <2> QED BY <1>1, <1>2, <2>1, <2>2, <2>3, <2>4, <2>5, LockFacts, RecordMoves
            DEF Unrecorded, SqlInd
  <1> QED BY <1>1, <1>3, <1>4 DEF BeginTx

\* The append lock is granted.
LEMMA TakeLockKeeps ==
    ASSUME SqlInd, NEW w \in Writers, TakeLock(w)
    PROVE  SqlInd'
  <1>1. PICK q : q = proc[w] /\ ProcShape(q)
    BY ProcFacts
  <1>2. /\ UNCHANGED <<backend, isolation, format, rows, acked, scan, faults>>
        /\ q.pc = "lock"
        /\ locks["append"] = Nobody /\ locks' = [locks EXCEPT !["append"] = w]
        /\ proc' = [proc EXCEPT ![w] = proc'[w]]
        /\ proc'[w] = [q EXCEPT !.pc = "check"]
    BY <1>1 DEF TakeLock, SqlInd, WritersOK
  <1>3. LocksKept(w) /\ locks'["append"] = w
    BY <1>2, LockFacts DEF SqlInd
  <1>4. /\ ProcShape(proc'[w]) /\ proc'[w].pc = "check" /\ proc'[w].conn = q.conn
        /\ proc'[w].op = q.op /\ proc'[w].attempt = q.attempt /\ proc'[w].again = q.again
        /\ proc'[w].outcome = q.outcome /\ proc'[w].rec = q.rec
    BY <1>1, <1>2 DEF ProcShape
  <1>5. RecordBuilt(w)'
    BY <1>1, <1>2, <1>4, ProcFacts DEF WriterOK, RecordBuilt, Building
  <1>6. ProcTyped(w)'
    BY <1>1, <1>4, ProcFacts DEF ProcTyped
  <1>7. LockHeld(w)'
    BY <1>3, <1>4 DEF LockHeld
  <1> QED BY <1>1, <1>2, <1>3, <1>4, <1>5, <1>6, <1>7, RecordMoves DEF Unrecorded

\* The tip is re-read under the lock.
LEMMA CheckTipKeeps ==
    ASSUME SqlInd, NEW w \in Writers, CheckTip(w)
    PROVE  SqlInd'
  <1>1. PICK q : q = proc[w] /\ ProcShape(q)
    BY ProcFacts
  <1>2. /\ UNCHANGED <<backend, isolation, format, rows, acked, scan, faults>>
        /\ q.pc = "check" /\ q.conn
    BY <1>1 DEF CheckTip
  <1>3. CASE Fails(w, "idle", "race") /\ Release(w)
    <2>1. q.pc \in Opened /\ NoRow(rows, <<w, q.op>>)
      BY <1>1, <1>2, ProcFacts DEF Opened, WriterOK, NotRecorded, Unrecorded
    <2> QED BY <1>1, <1>2, <1>3, <2>1, FailsKeeps, LockFacts, FaultFacts DEF SqlInd
  <1>4. CASE /\ Extends(proc[w].rec) /\ UNCHANGED locks
             /\ proc' = [proc EXCEPT ![w].pc = "insert"]
    <2>1. /\ proc' = [proc EXCEPT ![w] = proc'[w]]
          /\ proc'[w] = [q EXCEPT !.pc = "insert"]
      BY <1>1, <1>4 DEF SqlInd, WritersOK
    <2>2. /\ ProcShape(proc'[w]) /\ proc'[w].pc = "insert" /\ proc'[w].conn = q.conn
          /\ proc'[w].op = q.op /\ proc'[w].attempt = q.attempt /\ proc'[w].again = q.again
          /\ proc'[w].outcome = q.outcome /\ proc'[w].rec = q.rec
      BY <1>1, <2>1 DEF ProcShape
    <2>3. RecordBuilt(w)'
      BY <1>1, <1>2, <1>4, <2>2, ProcFacts
      DEF WriterOK, RecordBuilt, Building, Extends, TipRow
    <2>4. ProcTyped(w)'
      BY <1>1, <2>2, ProcFacts DEF ProcTyped
    <2>5. LockHeld(w)'
      BY <1>1, <1>2, <1>4, <2>2, ProcFacts DEF WriterOK, LockHeld
    <2> QED BY <1>1, <1>2, <1>4, <2>1, <2>2, <2>3, <2>4, <2>5, LockFacts, RecordMoves
            DEF Unrecorded, SqlInd
  <1>5. CASE /\ RetriesLeft(w) /\ Release(w)
             /\ proc' = [proc EXCEPT ![w].pc = "tip", ![w].attempt = @ + 1,
                                     ![w].rec = NoRec, ![w].again = FALSE]
    <2>0. PICK t : t = q.attempt + 1 /\ t \in 0..MaxRetries
      BY <1>1, <1>5, ProcFacts, SqlAssumption DEF RetriesLeft, ProcTyped, SqlAssumption
    <2>1. /\ proc' = [proc EXCEPT ![w] = proc'[w]]
          /\ proc'[w] = [q EXCEPT !.pc = "tip", !.attempt = t, !.rec = NoRec, !.again = FALSE]
      <3>1. proc' = [proc EXCEPT ![w] = [q EXCEPT !.pc = "tip", !.attempt = t,
                                                  !.rec = NoRec, !.again = FALSE]]
        BY <1>1, <1>5, <2>0 DEF SqlInd, WritersOK, ProcShape
      <3> QED BY <3>1 DEF SqlInd, WritersOK
    <2>2. /\ ProcShape(proc'[w]) /\ proc'[w].pc = "tip" /\ proc'[w].conn = q.conn
          /\ proc'[w].op = q.op /\ proc'[w].attempt = t /\ proc'[w].again = FALSE
          /\ proc'[w].outcome = q.outcome
      BY <1>1, <2>1 DEF ProcShape
    <2>3. RecordBuilt(w)'
      BY <1>1, <1>2, <2>2, ProcFacts DEF WriterOK, RecordBuilt, Building
    <2>4. ProcTyped(w)'
      BY <1>1, <2>0, <2>2, ProcFacts DEF ProcTyped
    <2>5. LockHeld(w)'
      BY <2>2 DEF LockHeld
    <2> QED BY <1>1, <1>2, <1>5, <2>1, <2>2, <2>3, <2>4, <2>5, LockFacts, RecordMoves
            DEF Unrecorded, SqlInd
  <1> QED BY <1>3, <1>4, <1>5 DEF CheckTip

\* INSERT: the trigger accepts what the check under the lock has accepted.
LEMMA InsertKeeps ==
    ASSUME SqlInd, NEW w \in Writers, Insert(w)
    PROVE  SqlInd'
  <1>1. PICK q : q = proc[w] /\ ProcShape(q)
    BY ProcFacts
  <1>2. /\ UNCHANGED <<backend, isolation, format, rows, acked, scan, faults>>
        /\ q.pc = "insert" /\ q.conn
    BY <1>1 DEF Insert
  <1>3. GuardAccepts(proc[w].rec)
    BY <1>1, <1>2, ProcFacts DEF WriterOK, RecordBuilt, GuardAccepts
  <1>4. UNCHANGED locks /\ proc' = [proc EXCEPT ![w].pc = "commit"]
    BY <1>3 DEF Insert
  <1>5. /\ proc' = [proc EXCEPT ![w] = proc'[w]]
        /\ proc'[w] = [q EXCEPT !.pc = "commit"]
    BY <1>1, <1>4 DEF SqlInd, WritersOK
  <1>6. /\ ProcShape(proc'[w]) /\ proc'[w].pc = "commit" /\ proc'[w].conn = q.conn
        /\ proc'[w].op = q.op /\ proc'[w].attempt = q.attempt /\ proc'[w].again = q.again
        /\ proc'[w].outcome = q.outcome /\ proc'[w].rec = q.rec
    BY <1>1, <1>5 DEF ProcShape
  <1>7. RecordBuilt(w)'
    BY <1>1, <1>2, <1>6, ProcFacts DEF WriterOK, RecordBuilt, Building
  <1>8. ProcTyped(w)'
    BY <1>1, <1>6, ProcFacts DEF ProcTyped
  <1>9. LockHeld(w)'
    BY <1>1, <1>2, <1>4, <1>6, ProcFacts DEF WriterOK, LockHeld
  <1> QED BY <1>1, <1>2, <1>4, <1>5, <1>6, <1>7, <1>8, <1>9, LockFacts, RecordMoves
          DEF Unrecorded, SqlInd

\* The links are checked, and the store is open.
LEMMA RescanKeeps ==
    ASSUME SqlInd, NEW w \in Writers, Rescan(w)
    PROVE  SqlInd'
  <1>1. PICK q : q = proc[w] /\ ProcShape(q)
    BY ProcFacts
  <1>2. UNCHANGED <<backend, isolation, format, rows, locks, acked, scan, faults>>
        /\ q.pc = "rescan"
    BY <1>1 DEF Rescan, dbVars
  <1>3. CASE Fails(w, "closed", "corrupt")
    BY <1>2, <1>3, FailsKeeps, LockFacts, FaultFacts DEF SqlInd
  <1>4. CASE proc' = [proc EXCEPT ![w].pc = "idle", ![w].outcome = "opened"]
    <2>1. /\ proc' = [proc EXCEPT ![w] = proc'[w]]
          /\ proc'[w] = [q EXCEPT !.pc = "idle", !.outcome = "opened"]
      BY <1>1, <1>4 DEF SqlInd, WritersOK, ProcShape
    <2>2. /\ ProcShape(proc'[w]) /\ proc'[w].pc = "idle" /\ proc'[w].conn = q.conn
          /\ proc'[w].op = q.op /\ proc'[w].attempt = q.attempt /\ proc'[w].again = q.again
          /\ proc'[w].outcome = "opened"
      BY <1>1, <2>1 DEF ProcShape
    <2>3. ProcTyped(w)'
      BY <1>1, <2>2, ProcFacts DEF ProcTyped
    <2>4. LockHeld(w)' /\ SchemaSeen(w)' /\ RecordBuilt(w)'
      BY <1>1, <1>2, <2>2, ProcFacts
      DEF WriterOK, LockHeld, SchemaSeen, RecordBuilt, Opened, Building
    <2>5. NotRecorded(w)'
      BY <1>1, <1>2, <2>2, ProcFacts DEF WriterOK, NotRecorded, Unrecorded, Errors
    <2> QED BY <1>2, <2>1, <2>2, <2>3, <2>4, <2>5, LockFacts, FaultFacts, ProcMoves
            DEF SqlInd, WriterOK
  <1> QED BY <1>3, <1>4 DEF Rescan

\* The errors of an open or of a call.
LEMMA ErrorKeeps ==
    ASSUME SqlInd, NEW w \in Writers,
           ConnectRefused(w) \/ ReconnectRefused(w) \/ LockTimeout(w) \/ CommitFails(w)
           \/ Broken(w)
    PROVE  SqlInd'
  <1>1. /\ UNCHANGED <<backend, isolation, format, rows, acked, scan>>
        /\ UNCHANGED locks \/ Release(w)
        /\ UNCHANGED faults \/ Fault("fail")
    BY DEF ConnectRefused, ReconnectRefused, LockTimeout, CommitFails, Broken, dbVars
  <1>2. LocksKept(w) /\ FaultsGrow
    BY <1>1, LockFacts, FaultFacts DEF SqlInd
  <1>3. \E where \in {"closed", "idle"}, how \in {"refused", "busy", "unknown", "error"} :
           /\ Fails(w, where, how)
           /\ where = "idle" => proc[w].pc \in Unrecorded
    BY DEF ConnectRefused, ReconnectRefused, LockTimeout, CommitFails, Broken, Unrecorded
  <1>4. proc[w].pc \in Unrecorded =>
           proc[w].pc \in Opened /\ NoRow(rows, <<w, proc[w].op>>)
    BY ProcFacts DEF WriterOK, NotRecorded, Unrecorded, Opened
  <1> QED BY <1>1, <1>2, <1>3, <1>4, FailsKeeps

\* A killed process is closed, and its transaction gone.
LEMMA KillKeeps ==
    ASSUME SqlInd, NEW w \in Writers, Kill(w)
    PROVE  SqlInd'
  <1>1. PICK q : q = proc[w] /\ ProcShape(q)
    BY ProcFacts
  <1>2. /\ UNCHANGED <<backend, isolation, format, rows, acked, scan>>
        /\ Fault("kill") /\ Release(w)
        /\ proc' = [proc EXCEPT ![w] = proc'[w]]
        /\ proc'[w] = [Closed EXCEPT !.op = q.op]
    BY <1>1 DEF Kill, SqlInd, WritersOK
  <1>3. /\ ProcShape(proc'[w]) /\ proc'[w].pc = "closed" /\ proc'[w].conn = TRUE
        /\ proc'[w].op = q.op /\ proc'[w].attempt = 0 /\ proc'[w].again = FALSE
        /\ proc'[w].outcome = "none"
    BY <1>2 DEF ProcShape, Closed
  <1>4. ProcTyped(w)'
    <2>1. proc'[w].op \in 0..MaxOps
      BY <1>1, <1>3, ProcFacts DEF ProcTyped
    <2>2. 0 \in 0..MaxRetries
      BY SqlAssumption DEF SqlAssumption
    <2>3. proc'[w].conn \in BOOLEAN /\ proc'[w].again \in BOOLEAN
      BY <1>3
    <2> QED BY <1>3, <2>1, <2>2, <2>3 DEF ProcTyped
  <1>5. LockHeld(w)' /\ SchemaSeen(w)' /\ RecordBuilt(w)'
    BY <1>3 DEF LockHeld, SchemaSeen, RecordBuilt, Opened, Building
  <1>6. NotRecorded(w)'
    BY <1>1, <1>2, <1>3, ProcFacts DEF WriterOK, NotRecorded, Unrecorded
  <1> QED BY <1>2, <1>3, <1>4, <1>5, <1>6, LockFacts, FaultFacts, ProcMoves
          DEF SqlInd, WriterOK

\* The schema is created by the one that holds the schema lock and has found
\* the database blank.
LEMMA SchemaCreateKeeps ==
    ASSUME SqlInd, NEW w \in Writers, SchemaCreate(w)
    PROVE  SqlInd'
  <1>1. PICK q : q = proc[w] /\ ProcShape(q)
    BY ProcFacts
  <1>2. UNCHANGED <<backend, isolation, rows, acked, scan, faults>>
        /\ q.pc = "create" /\ q.conn /\ Release(w)
    BY <1>1 DEF SchemaCreate
  <1>3. format = "blank" /\ locks[LockFor("schema")] = w
    BY <1>1, <1>2, ProcFacts DEF WriterOK, SchemaSeen, LockHeld
  <1>4. format' = "writ" /\ proc' = [proc EXCEPT ![w].pc = "rescan"]
    BY <1>3 DEF SchemaCreate
  <1>5. /\ proc' = [proc EXCEPT ![w] = proc'[w]]
        /\ proc'[w] = [q EXCEPT !.pc = "rescan"]
        /\ proc' = [v \in Writers |-> proc'[v]]
        /\ \A v \in Writers : v # w => proc'[v] = proc[v]
    BY <1>1, <1>4 DEF SqlInd, WritersOK
  <1>6. /\ ProcShape(proc'[w]) /\ proc'[w].pc = "rescan" /\ proc'[w].conn = q.conn
        /\ proc'[w].op = q.op /\ proc'[w].attempt = q.attempt /\ proc'[w].again = q.again
        /\ proc'[w].outcome = q.outcome
    BY <1>1, <1>5 DEF ProcShape
  <1>7. LocksKept(w)
    BY <1>2, LockFacts DEF SqlInd
  <1>8. TypeOK'
    <2>1. ProcTyped(w)'
      BY <1>1, <1>6, ProcFacts DEF ProcTyped
    <2>2. \A v \in Writers : ProcTyped(v)'
      BY <1>5, <2>1, ProcFacts DEF ProcTyped
    <2> QED BY <1>2, <1>4, <1>7, <2>2 DEF SqlInd, TypeOK, ProcTyped, LocksKept
  <1>9. WriterOK(w)'
    <2>1. LockHeld(w)' /\ SchemaSeen(w)' /\ RecordBuilt(w)'
      BY <1>1, <1>4, <1>6, ProcFacts
      DEF WriterOK, LockHeld, SchemaSeen, RecordBuilt, Opened, Building
    <2>2. NotRecorded(w)'
      BY <1>1, <1>2, <1>6, ProcFacts DEF WriterOK, NotRecorded, Unrecorded
    <2> QED BY <1>6, <2>1, <2>2 DEF WriterOK
  <1>10. ASSUME NEW v \in Writers, v # w PROVE WriterOK(v)'
    <2>1. proc'[v] = proc[v] /\ WriterOK(v)
      BY <1>5, <1>10, ProcFacts
    <2>2. LockHeld(v)'
      BY <1>2, <1>7, <1>10, <2>1, LockFacts
      DEF LocksKept, WriterOK, LockHeld, LockFor, Postgres, SqlInd
    <2>3. SchemaSeen(v)'
      BY <1>3, <1>4, <1>10, <2>1 DEF WriterOK, SchemaSeen, LockHeld
    <2>4. RecordBuilt(v)' /\ NotRecorded(v)'
      BY <1>2, <2>1 DEF WriterOK, RecordBuilt, NotRecorded
    <2> QED BY <2>1, <2>2, <2>3, <2>4 DEF WriterOK
  <1>11. WritersOK'
    BY <1>5, <1>9, <1>10 DEF WritersOK
  <1>12. RowsOK' /\ FaultsOK' /\ AckedOK' /\ ScansOK' /\ SqlChainIntact'
    BY <1>2, <1>4 DEF SqlInd, RowsOK, FaultsOK, AckedOK, Acknowledged, ScansOK, ScanOK,
                      SqlChainIntact
  <1> QED BY <1>8, <1>11, <1>12 DEF SqlInd
-----------------------------------------------------------------------------
(***************************************************************************)
(* Steps that add a row                                                    *)
(***************************************************************************)
\* A row is added at the tip.
RowAdded(b) == rows' = Append(rows, Finalize(Len(rows), b, TipHash(rows)))

\* The ledger, what was acknowledged and what the cursors have fetched.
LEMMA RowsGrow ==
    ASSUME SqlInd, NEW b, RowAdded(b), format = "writ", FaultsGrow,
           UNCHANGED <<backend, isolation, format, acked, scan>>,
           \A n \in Nat : n >= faults'.stray => b # <<"stray", n>>
    PROVE  /\ IsSeq(rows') /\ Len(rows) \in Nat /\ Len(rows') = Len(rows) + 1
           /\ \A c : NoRow(rows, c) /\ c # b => NoRow(rows', c)
           /\ RowsOK' /\ AckedOK' /\ ScansOK' /\ SqlChainIntact'
  <1> DEFINE r == Finalize(Len(rows), b, TipHash(rows))
  <1>0. IsSeq(rows) /\ r.body = b
    BY FinalizeFacts DEF SqlInd, TypeOK
  <1>1. /\ IsSeq(rows') /\ Len(rows) \in Nat /\ Len(rows') = Len(rows) + 1
        /\ \A i \in 1..Len(rows) : rows'[i] = rows[i]
        /\ rows'[Len(rows) + 1] = r
    BY <1>0, AppendFacts, SeqFacts DEF RowAdded
  <1>2. SqlChainIntact'
    BY <1>0, AppendIntact DEF SqlInd, SqlChainIntact, RowAdded
  <1> HIDE DEF r
  <1>3. ASSUME NEW c, NoRow(rows, c), c # b PROVE NoRow(rows', c)
    <2> SUFFICES ASSUME NEW i \in 1..Len(rows') PROVE rows'[i].body # c
      BY DEF NoRow
    <2>1. CASE i \in 1..Len(rows)
      BY <1>1, <1>3, <2>1 DEF NoRow
    <2>2. CASE i = Len(rows) + 1
      BY <1>0, <1>1, <1>3, <2>2
    <2> QED BY <1>1, <2>1, <2>2
  <1>4. RowsOK'
    <2>1. ASSUME NEW n \in Nat, n >= faults'.stray PROVE NoRow(rows', <<"stray", n>>)
      <3>1. n >= faults.stray
        BY <2>1 DEF SqlInd, FaultsGrow, FaultsOK
      <3>2. NoRow(rows, <<"stray", n>>)
        BY <3>1 DEF SqlInd, RowsOK
      <3> QED BY <1>3, <2>1, <3>2
    <2> QED BY <2>1 DEF RowsOK
  <1>5. AckedOK'
    <2>1. AckedOK /\ acked' = acked /\ Acknowledged' = Acknowledged
      BY DEF SqlInd, Acknowledged
    <2>2. ASSUME NEW x \in acked PROVE x.index + 1 \in 1..Len(rows')
      <3>1. x.index + 1 \in 1..Len(rows)
        BY <2>1 DEF AckedOK
      <3> QED BY <1>1, <3>1
    <2> QED BY <2>1, <2>2 DEF AckedOK
  <1>6. ASSUME NEW n \in 0..Len(rows) PROVE SubSeq(rows', 1, n) = SubSeq(rows, 1, n)
    <2>1. PICK s, t : s = SubSeq(rows', 1, n) /\ t = SubSeq(rows, 1, n)
      OBVIOUS
    <2>2. n \in 0..Len(rows')
      BY <1>1
    <2>3. /\ IsSeq(s) /\ Len(s) = n /\ \A i \in 1..n : s[i] = rows'[i]
          /\ IsSeq(t) /\ Len(t) = n /\ \A i \in 1..n : t[i] = rows[i]
      BY <1>0, <1>1, <2>1, <2>2, PrefixFacts
    <2>4. s = t
      BY <1>1, <2>3, SeqEqual
    <2> QED BY <2>1, <2>4
  <1>7. ASSUME NEW v \in Readers PROVE ScanOK(v)'
    <2>1. PICK s : s = scan[v] /\ s = scan'[v] /\ ScanOK(v)
      BY DEF SqlInd, ScansOK
    <2>2. s.next \in 0..Len(rows) /\ s.from \in 0..Len(rows)
      BY <2>1 DEF ScanOK
    <2>3. s.next \in 0..Len(rows') /\ s.from \in 0..Len(rows')
      BY <1>1, <2>2
    <2>4. s.got = SubSeq(rows', 1, s.next)
      BY <1>6, <2>1, <2>2 DEF ScanOK
    <2>5. faults.restart > 0 => faults'.restart > 0
      BY DEF FaultsGrow, SqlInd, FaultsOK
    <2> QED BY <2>1, <2>3, <2>4, <2>5 DEF ScanOK
  <1>8. ScansOK'
    BY <1>7 DEF SqlInd, ScansOK
  <1> QED BY <1>1, <1>2, <1>3, <1>4, <1>5, <1>8

\* A process that does not hold the append lock, and whose call is not the
\* one recorded, does not notice.
LEMMA OtherWriterStays ==
    ASSUME SqlInd, NEW v \in Writers, NEW b, RowAdded(b),
           UNCHANGED <<backend, format>>, proc'[v] = proc[v],
           locks.append # v, \A l \in {"schema", "append"} : locks[l] = v => locks'[l] = v,
           \A n \in Nat : b # <<v, n>>,
           Len(rows) \in Nat, Len(rows') = Len(rows) + 1,
           \A c : NoRow(rows, c) /\ c # b => NoRow(rows', c)
    PROVE  WriterOK(v)'
  <1>1. WriterOK(v) /\ ProcTyped(v) /\ ProcShape(proc[v])'
    BY ProcFacts
  <1>2. ~(proc[v].conn /\ proc[v].pc \in {"check", "insert", "commit"})
    BY <1>1 DEF WriterOK, LockHeld
  <1>3. LockHeld(v)'
    BY <1>1, <1>2 DEF WriterOK, LockHeld, LockFor, Postgres
  <1>4. SchemaSeen(v)'
    BY <1>1 DEF WriterOK, SchemaSeen
  <1>5. RecordBuilt(v)'
    BY <1>1, <1>2 DEF WriterOK, RecordBuilt, Building
  <1>6. NotRecorded(v)'
    <2>1. proc[v].op \in Nat
      BY <1>1, SqlAssumption DEF ProcTyped, SqlAssumption
    <2>2. \A n \in Nat : NoRow(rows, <<v, n>>) => NoRow(rows', <<v, n>>)
      OBVIOUS
    <2> QED BY <1>1, <2>1, <2>2 DEF WriterOK, NotRecorded
  <1> QED BY <1>1, <1>3, <1>4, <1>5, <1>6 DEF WriterOK

\* COMMIT: the record that was checked under the lock, which is still held.
LEMMA CommitKeeps ==
    ASSUME SqlInd, NEW w \in Writers, Commit(w)
    PROVE  /\ SqlInd'
           /\ RowAdded(<<w, proc[w].op>>) /\ NoRow(rows, <<w, proc[w].op>>)
           /\ <<w, proc[w].op>> \in Writers \X (1..MaxOps) /\ UNCHANGED acked
  <1>1. PICK q, b : q = proc[w] /\ ProcShape(q) /\ b = <<w, q.op>>
    BY ProcFacts
  <1>2. /\ UNCHANGED <<backend, isolation, format, acked, scan, faults>>
        /\ q.pc = "commit" /\ q.conn /\ Release(w) /\ rows' = Append(rows, q.rec)
        /\ proc' = [proc EXCEPT ![w] = proc'[w]]
        /\ proc'[w] = [q EXCEPT !.pc = "reply"]
        /\ proc' = [v \in Writers |-> proc'[v]]
        /\ \A v \in Writers : v # w => proc'[v] = proc[v]
    BY <1>1 DEF Commit, SqlInd, WritersOK
  <1>3. /\ ProcShape(proc'[w]) /\ proc'[w].pc = "reply" /\ proc'[w].conn = q.conn
        /\ proc'[w].op = q.op /\ proc'[w].attempt = q.attempt /\ proc'[w].again = q.again
        /\ proc'[w].outcome = q.outcome /\ proc'[w].rec = q.rec
    BY <1>1, <1>2 DEF ProcShape
  <1>4. /\ locks.append = w /\ format = "writ" /\ NoRow(rows, b)
        /\ q.rec = Finalize(q.rec.index, b, q.rec.prev_hash)
        /\ q.rec.index = Len(rows) /\ q.rec.prev_hash = TipHash(rows) /\ q.op > 0
    BY <1>1, <1>2, ProcFacts
    DEF WriterOK, LockHeld, SchemaSeen, Opened, NotRecorded, Unrecorded, RecordBuilt, Building
  <1>5. RowAdded(b)
    BY <1>2, <1>4 DEF RowAdded
  <1>6. LocksKept(w) /\ FaultsGrow
    BY <1>2, LockFacts, FaultFacts DEF SqlInd
  <1>7. q.op \in 1..MaxOps /\ b \in Writers \X (1..MaxOps)
    BY <1>1, <1>4, ProcFacts, SqlAssumption DEF ProcTyped, SqlAssumption
  <1>8. \A n : b # <<"stray", n>>
    BY <1>1, SqlAssumption DEF SqlAssumption
  <1>9. /\ IsSeq(rows') /\ Len(rows) \in Nat /\ Len(rows') = Len(rows) + 1
        /\ \A c : NoRow(rows, c) /\ c # b => NoRow(rows', c)
        /\ RowsOK' /\ AckedOK' /\ ScansOK' /\ SqlChainIntact'
    BY <1>2, <1>4, <1>5, <1>6, <1>8, RowsGrow
  <1>10. ASSUME NEW v \in Writers, v # w PROVE WriterOK(v)'
    <2>1. \A n \in Nat : b # <<v, n>>
      BY <1>1, <1>10
    <2>2. /\ proc'[v] = proc[v] /\ locks.append # v
          /\ \A l \in {"schema", "append"} : locks[l] = v => locks'[l] = v
      BY <1>2, <1>4, <1>6, <1>10 DEF LocksKept
    <2> QED BY <1>2, <1>5, <1>9, <2>1, <2>2, OtherWriterStays
  <1>11. ProcTyped(w)'
    BY <1>1, <1>3, ProcFacts DEF ProcTyped
  <1>12. WriterOK(w)'
    <2>1. LockHeld(w)' /\ SchemaSeen(w)'
      BY <1>1, <1>2, <1>3, <1>4, ProcFacts DEF WriterOK, LockHeld, SchemaSeen, Opened
    <2>2. RecordBuilt(w)'
      BY <1>1, <1>2, <1>3, <1>4, <1>9, ProcFacts DEF WriterOK, RecordBuilt, Building
    <2>3. NotRecorded(w)'
      <3>1. ASSUME NEW n \in Nat, n > q.op PROVE NoRow(rows', <<w, n>>)
        <4>1. <<w, n>> # b
          BY <1>1, <1>7, <3>1
        <4>2. NoRow(rows, <<w, n>>)
          BY <1>1, <3>1, ProcFacts DEF WriterOK, NotRecorded
        <4> QED BY <1>9, <4>1, <4>2
      <3> QED BY <1>3, <3>1 DEF NotRecorded, Unrecorded
    <2> QED BY <1>3, <2>1, <2>2, <2>3 DEF WriterOK
  <1>13. TypeOK'
    <2>1. \A v \in Writers : ProcTyped(v)'
      BY <1>2, <1>11, ProcFacts DEF ProcTyped
    <2> QED BY <1>2, <1>6, <1>9, <2>1 DEF SqlInd, TypeOK, ProcTyped, LocksKept
  <1>14. WritersOK'
    BY <1>2, <1>10, <1>12 DEF WritersOK
  <1> QED BY <1>1, <1>2, <1>4, <1>5, <1>6, <1>7, <1>9, <1>13, <1>14 DEF SqlInd, FaultsGrow

\* The insert of another tool: the trigger lets it in at the tip only.
LEMMA StrayKeeps ==
    ASSUME SqlInd, StrayInsert
    PROVE  /\ SqlInd'
           /\ RowAdded(<<"stray", faults.stray>>) /\ NoRow(rows, <<"stray", faults.stray>>)
           /\ faults.stray \in 0..MaxFaults /\ UNCHANGED acked
  <1>1. PICK b : b = <<"stray", faults.stray>>
    OBVIOUS
  <1>2. /\ UNCHANGED <<backend, isolation, format, locks, proc, acked, scan>>
        /\ format = "writ" /\ locks.append = Nobody /\ Fault("stray")
    BY DEF StrayInsert
  <1>3. RowAdded(b)
    <2>1. PICK i \in 0..Len(rows),
               prev \in {GENESIS_HASH} \cup {rows[j].record_hash : j \in 1..Len(rows)} :
             /\ GuardAccepts(Finalize(i, b, prev))
             /\ rows' = Append(rows, Finalize(i, b, prev))
      BY <1>1 DEF StrayInsert
    <2>2. i = Len(rows) /\ prev = TipHash(rows)
      BY <2>1, FinalizeFacts DEF GuardAccepts
    <2> QED BY <2>1, <2>2 DEF RowAdded
  <1>4. /\ FaultsGrow /\ faults'.stray = faults.stray + 1 /\ faults.stray \in 0..MaxFaults
    BY <1>2, FaultFacts DEF SqlInd
  <1>5. faults.stray \in Nat
    BY <1>4, SqlAssumption DEF SqlAssumption
  <1>6. NoRow(rows, b)
    BY <1>1, <1>5 DEF SqlInd, RowsOK
  <1>7. \A n \in Nat : n >= faults'.stray => b # <<"stray", n>>
    BY <1>1, <1>4, <1>5
  <1>8. /\ IsSeq(rows') /\ Len(rows) \in Nat /\ Len(rows') = Len(rows) + 1
        /\ \A c : NoRow(rows, c) /\ c # b => NoRow(rows', c)
        /\ RowsOK' /\ AckedOK' /\ ScansOK' /\ SqlChainIntact'
    BY <1>2, <1>3, <1>4, <1>7, RowsGrow
  <1>9. ASSUME NEW v \in Writers PROVE WriterOK(v)'
    <2>1. \A n \in Nat : b # <<v, n>>
      BY <1>1, SqlAssumption DEF SqlAssumption
    <2>2. locks.append # v
      BY <1>2, SqlAssumption DEF SqlAssumption, Nobody
    <2> QED BY <1>2, <1>3, <1>8, <2>1, <2>2, OtherWriterStays
  <1>10. WritersOK'
    BY <1>2, <1>9 DEF WritersOK, SqlInd
  <1>11. TypeOK'
    BY <1>2, <1>8 DEF SqlInd, TypeOK
  <1> QED BY <1>1, <1>2, <1>3, <1>4, <1>6, <1>8, <1>10, <1>11 DEF SqlInd, FaultsGrow
-----------------------------------------------------------------------------
(***************************************************************************)
(* The answer to COMMIT                                                    *)
(***************************************************************************)
\* An acknowledged record is on the ledger; an unanswered one may be.
LEMMA ReplyKeeps ==
    ASSUME SqlInd, NEW w \in Writers, Reply(w)
    PROVE  /\ SqlInd' /\ UNCHANGED rows
           /\ UNCHANGED acked
              \/ \E n \in 1..Len(rows) : Acknowledged' = Acknowledged \cup {n}
  <1>1. PICK q : q = proc[w] /\ ProcShape(q)
    BY ProcFacts
  <1>2. /\ UNCHANGED <<backend, isolation, format, rows, locks, scan, faults>>
        /\ q.pc = "reply"
    BY <1>1 DEF Reply, dbVars
  <1>3. LocksKept(w) /\ FaultsGrow
    BY <1>2, LockFacts, FaultFacts DEF SqlInd
  <1>4. CASE ~q.conn
    <2>1. Fails(w, "idle", "unknown") /\ UNCHANGED acked
      BY <1>1, <1>4 DEF Reply
    <2> QED BY <1>1, <1>2, <1>3, <2>1, FailsKeeps DEF Opened, Errors
  <1>5. CASE q.conn
    <2>1. acked' = acked \cup {q.rec} /\ Fails(w, "idle", "ok")
      BY <1>1, <1>5 DEF Reply
    <2>2. /\ proc' = [proc EXCEPT ![w] = proc'[w]]
          /\ proc'[w] = [q EXCEPT !.pc = "idle", !.outcome = "ok", !.rec = NoRec,
                                  !.again = FALSE]
          /\ proc' = [v \in Writers |-> proc'[v]]
          /\ \A v \in Writers : v # w => proc'[v] = proc[v]
      BY <1>1, <2>1 DEF Fails, SqlInd, WritersOK
    <2>3. /\ ProcShape(proc'[w]) /\ proc'[w].pc = "idle" /\ proc'[w].outcome = "ok"
          /\ proc'[w].conn = q.conn /\ proc'[w].op = q.op /\ proc'[w].attempt = q.attempt
          /\ proc'[w].again = FALSE
      BY <1>1, <2>2 DEF ProcShape
    <2>4. /\ q.rec.index \in Nat /\ q.rec.index < Len(rows) /\ Len(rows) \in Nat
      BY <1>1, <1>2, ProcFacts, SeqFacts DEF WriterOK, RecordBuilt, Building, SqlInd, TypeOK
    <2>5. PICK n \in 1..Len(rows) : n = q.rec.index + 1
      BY <2>4
    <2>6. Acknowledged' = Acknowledged \cup {n}
      BY <2>1, <2>5 DEF Acknowledged
    <2>7. AckedOK'
      <3>1. \A r \in acked' : r.index + 1 \in 1..Len(rows)'
        BY <1>2, <2>1, <2>5 DEF AckedOK, SqlInd
      <3>2. \A k \in Acknowledged : k \in 1..Len(rows)
        BY DEF AckedOK, SqlInd, Acknowledged
      <3>3. \E m \in Acknowledged' : \A k \in Acknowledged' : k <= m
        <4>1. CASE acked = {}
          <5>1. Acknowledged' = {n}
            BY <2>6, <4>1 DEF Acknowledged
          <5> QED BY <5>1
        <4>2. CASE acked # {}
          <5>1. PICK m \in Acknowledged : \A k \in Acknowledged : k <= m
            BY <4>2 DEF AckedOK, SqlInd
          <5>2. CASE n <= m
            <6>1. m \in Acknowledged' /\ \A k \in Acknowledged' : k <= m
              BY <2>6, <5>1, <5>2
            <6> QED BY <6>1
          <5>3. CASE ~(n <= m)
            <6>1. n \in Acknowledged' /\ \A k \in Acknowledged' : k <= n
              BY <2>4, <2>6, <3>2, <5>1, <5>3
            <6> QED BY <6>1
          <5> QED BY <5>2, <5>3
        <4> QED BY <4>1, <4>2
      <3> QED BY <3>1, <3>3 DEF AckedOK
    <2>8. TypeOK'
      <3>1. \A v \in Writers : ProcTyped(v)'
        BY <1>1, <2>2, <2>3, ProcFacts DEF ProcTyped
      <3>2. \A r \in acked' : r.index \in Nat
        BY <2>1, <2>4 DEF SqlInd, TypeOK
      <3> QED BY <1>2, <3>1, <3>2 DEF SqlInd, TypeOK, ProcTyped
    <2>9. ASSUME NEW v \in Writers PROVE WriterOK(v)'
      <3>1. CASE v # w
        <4>1. proc'[v] = proc[v] /\ WriterOK(v)
          BY <2>2, <3>1, ProcFacts
        <4> QED BY <1>2, <4>1 DEF WriterOK, LockHeld, LockFor, Postgres, SchemaSeen,
                                  RecordBuilt, NotRecorded
      <3>2. CASE v = w
        <4>1. LockHeld(w)' /\ SchemaSeen(w)' /\ RecordBuilt(w)'
          BY <1>1, <1>2, <2>3, ProcFacts
          DEF WriterOK, LockHeld, SchemaSeen, RecordBuilt, Opened, Building
        <4>2. NotRecorded(w)'
          BY <1>1, <1>2, <2>3, ProcFacts DEF WriterOK, NotRecorded, Unrecorded, Errors
        <4> QED BY <2>3, <3>2, <4>1, <4>2 DEF WriterOK
      <3> QED BY <3>1, <3>2
    <2>10. WritersOK'
      BY <2>2, <2>9 DEF WritersOK
    <2>11. RowsOK' /\ FaultsOK' /\ ScansOK' /\ SqlChainIntact'
      BY <1>2 DEF SqlInd, RowsOK, FaultsOK, ScansOK, ScanOK, SqlChainIntact
    <2> QED BY <1>2, <2>6, <2>7, <2>8, <2>10, <2>11 DEF SqlInd
  <1> QED BY <1>2, <1>4, <1>5
-----------------------------------------------------------------------------
(***************************************************************************)
(* Cursors                                                                 *)
(***************************************************************************)
\* A step of one cursor.
LEMMA ScanMoves ==
    ASSUME SqlInd, NEW v \in Readers,
           UNCHANGED <<backend, isolation, format, rows, locks, proc, acked, faults>>,
           scan' = [scan EXCEPT ![v] = scan'[v]], ScanOK(v)',
           scan'[v].pc \in {"idle", "scan"}, scan'[v].conn \in BOOLEAN
    PROVE  SqlInd'
  <1>1. /\ scan' = [u \in Readers |-> scan'[u]]
        /\ \A u \in Readers : u # v => scan'[u] = scan[u]
    BY DEF SqlInd, ScansOK
  <1>2. ASSUME NEW u \in Readers, u # v PROVE ScanOK(u)'
    BY <1>1, <1>2 DEF SqlInd, ScansOK, ScanOK
  <1>3. ScansOK'
    BY <1>1, <1>2 DEF ScansOK
  <1>4. TypeOK'
    <2>1. \A u \in Readers : scan'[u].pc \in {"idle", "scan"} /\ scan'[u].conn \in BOOLEAN
      BY <1>1 DEF SqlInd, TypeOK
    <2> QED BY <2>1 DEF SqlInd, TypeOK
  <1>5. WritersOK'
    BY DEF SqlInd, WritersOK, WriterOK, LockHeld, LockFor, Postgres, SchemaSeen,
           RecordBuilt, NotRecorded
  <1>6. RowsOK' /\ FaultsOK' /\ AckedOK' /\ SqlChainIntact'
    BY DEF SqlInd, RowsOK, FaultsOK, AckedOK, Acknowledged, SqlChainIntact
  <1> QED BY <1>3, <1>4, <1>5, <1>6 DEF SqlInd

\* A cursor starts with nothing fetched, behind what is committed.
LEMMA StartScanKeeps ==
    ASSUME SqlInd, NEW v \in Readers, StartScan(v)
    PROVE  SqlInd'
  <1>1. IsSeq(rows) /\ Len(rows) \in Nat
    BY SeqFacts DEF SqlInd, TypeOK
  <1>2. PICK kind \in {"verify", "iter"} :
           scan' = [scan EXCEPT ![v] = [NoScan EXCEPT !.pc = "scan", !.kind = kind,
                                          !.snap = Len(rows), !.from = Len(rows)]]
    BY DEF StartScan
  <1>3. /\ scan' = [scan EXCEPT ![v] = scan'[v]]
        /\ scan'[v] = [pc |-> "scan", kind |-> kind, snap |-> Len(rows),
                       from |-> Len(rows), next |-> 0, got |-> <<>>, conn |-> TRUE,
                       report |-> "none"]
    BY <1>2 DEF NoScan, SqlInd, ScansOK
  <1>4. SubSeq(rows, 1, 0) = <<>>
    BY <1>1
  <1>5. UNCHANGED <<backend, isolation, format, rows, locks, proc, acked, faults>>
    BY DEF StartScan, dbVars
  <1>6. ScanOK(v)'
    BY <1>1, <1>3, <1>4, <1>5 DEF ScanOK, ScanShape
  <1>7. scan'[v].pc \in {"idle", "scan"} /\ scan'[v].conn \in BOOLEAN
    BY <1>3
  <1> QED BY <1>3, <1>5, <1>6, <1>7, ScanMoves

\* A page: the rows that follow those already fetched, as far as the cursor
\* sees; a page that is not full reaches that far.
LEMMA PageFacts ==
    ASSUME SqlInd, NEW v \in Readers, scan[v].pc = "scan"
    PROVE  \E m \in scan[v].next..Len(rows) :
              /\ Len(Page(v)) = m - scan[v].next
              /\ scan[v].got \o Page(v) = SubSeq(rows, 1, m)
              /\ scan[v].kind = "verify" => m <= scan[v].snap
              /\ LastPage(Page(v)) => m >= scan[v].from
  <1>1. PICK s : s = scan[v] /\ ScanOK(v)
    BY DEF SqlInd, ScansOK
  <1>2. IsSeq(rows) /\ Len(rows) \in Nat
    BY SeqFacts DEF SqlInd, TypeOK
  <1>3. /\ s.next \in 0..Len(rows) /\ s.from \in 0..Len(rows) /\ s.snap = s.from
        /\ s.got = SubSeq(rows, 1, s.next) /\ s.kind \in {"verify", "iter"}
        /\ s.kind = "verify" => s.next <= s.snap
    BY <1>1 DEF ScanOK
  <1>4. PICK sees : /\ sees = Sees(v) /\ sees \in s.next..Len(rows)
                    /\ sees >= s.from
                    /\ s.kind = "verify" => sees = s.snap
    BY <1>1, <1>2, <1>3 DEF Sees
  <1>5. PAGE_SIZE \in Nat \ {0}
    BY SqlAssumption DEF SqlAssumption
  <1>6. PICK m \in s.next..Len(rows) :
           /\ m = IF sees < s.next + PAGE_SIZE THEN sees ELSE s.next + PAGE_SIZE
           /\ m <= sees
           /\ m - s.next < PAGE_SIZE => m = sees
    BY <1>2, <1>3, <1>4, <1>5
  <1>7. Page(v) = SubSeq(rows, s.next + 1, m)
    BY <1>1, <1>4, <1>6 DEF Page
  <1>8. Len(Page(v)) = m - s.next /\ s.got \o Page(v) = SubSeq(rows, 1, m)
    <2>1. PICK n \in 0..Len(rows) : n = s.next
      BY <1>3
    <2>2. m \in n..Len(rows)
      BY <2>1
    <2>3. /\ Len(SubSeq(rows, n + 1, m)) = m - n
          /\ SubSeq(rows, 1, n) \o SubSeq(rows, n + 1, m) = SubSeq(rows, 1, m)
      BY <1>2, <2>2, PrefixContinued
    <2> QED BY <1>3, <1>7, <2>1, <2>3
  <1>9. LastPage(Page(v)) => m >= s.from
    BY <1>2, <1>4, <1>6, <1>8 DEF LastPage
  <1>10. s.kind = "verify" => m <= s.snap
    BY <1>4, <1>6
  <1> QED BY <1>1, <1>6, <1>8, <1>9, <1>10

LEMMA FillKeeps ==
    ASSUME SqlInd, NEW v \in Readers, Fill(v)
    PROVE  SqlInd'
  <1>1. PICK s : s = scan[v] /\ ScanOK(v) /\ s.pc = "scan" /\ s.conn
    BY DEF SqlInd, ScansOK, Fill
  <1>2. PICK m \in s.next..Len(rows) :
              /\ Len(Page(v)) = m - s.next
              /\ s.got \o Page(v) = SubSeq(rows, 1, m)
              /\ s.kind = "verify" => m <= s.snap
              /\ LastPage(Page(v)) => m >= s.from
    BY <1>1, PageFacts
  <1>3. /\ s.next \in 0..Len(rows) /\ s.from \in 0..Len(rows) /\ s.snap = s.from
        /\ s.kind \in {"verify", "iter"} /\ s.report = "none" /\ ScanShape(s)
    BY <1>1 DEF ScanOK
  <1>4. IsSeq(rows) /\ Len(rows) \in Nat /\ m \in 0..Len(rows)
    BY <1>3, SeqFacts DEF SqlInd, TypeOK
  <1>5. verify_chain(SubSeq(rows, 1, m)).intact = TRUE
    BY <1>4, PrefixIntact DEF verify_chain, SqlInd, SqlChainIntact
  <1>6. s.next + Len(Page(v)) = m
    BY <1>2, <1>3, <1>4
  <1>7. scan' = [scan EXCEPT ![v].got = SubSeq(rows, 1, m), ![v].next = m,
                      ![v].pc = IF LastPage(Page(v)) THEN "idle" ELSE "scan",
                      ![v].report = IF LastPage(Page(v)) THEN "intact" ELSE "none"]
    <2>1. PICK p : p = Page(v)
      OBVIOUS
    <2>2. scan' = [scan EXCEPT ![v].got = scan[v].got \o p, ![v].next = @ + Len(p),
                      ![v].pc = IF LastPage(p) THEN "idle" ELSE @,
                      ![v].report = IF ~LastPage(p) THEN @
                                    ELSE IF verify_chain(scan[v].got \o p).intact THEN "intact"
                                    ELSE "broken"]
      BY <2>1 DEF Fill
    <2> QED BY <1>1, <1>2, <1>3, <1>5, <1>6, <2>1, <2>2 DEF SqlInd, ScansOK
  <1>8. PICK pc, report : /\ pc = IF LastPage(Page(v)) THEN "idle" ELSE "scan"
                          /\ report = IF LastPage(Page(v)) THEN "intact" ELSE "none"
    OBVIOUS
  <1>9. /\ scan' = [scan EXCEPT ![v] = scan'[v]]
        /\ scan'[v] = [s EXCEPT !.got = SubSeq(rows, 1, m), !.next = m, !.pc = pc,
                                !.report = report]
    BY <1>1, <1>7, <1>8 DEF SqlInd, ScansOK
  <1>10. scan'[v] = [pc |-> pc, kind |-> s.kind, snap |-> s.snap, from |-> s.from,
                     next |-> m, got |-> SubSeq(rows, 1, m), conn |-> s.conn,
                     report |-> report]
    BY <1>3, <1>9 DEF ScanShape
  <1>11. UNCHANGED <<backend, isolation, format, rows, locks, proc, acked, faults>>
    BY DEF Fill, dbVars
  <1>12. scan'[v].conn = TRUE /\ scan'[v].conn \in BOOLEAN
    BY <1>1, <1>10 DEF SqlInd, TypeOK
  <1>13. ScanOK(v)'
    BY <1>2, <1>3, <1>4, <1>8, <1>10, <1>11, <1>12 DEF ScanOK, ScanShape
  <1> QED BY <1>8, <1>9, <1>10, <1>11, <1>12, <1>13, ScanMoves

LEMMA FillBrokenKeeps ==
    ASSUME SqlInd, NEW v \in Readers, FillBroken(v)
    PROVE  SqlInd'
  <1>1. PICK s : s = scan[v] /\ ScanOK(v) /\ s.pc = "scan" /\ ~s.conn
    BY DEF SqlInd, ScansOK, FillBroken
  <1>2. faults.restart > 0
    BY <1>1 DEF ScanOK
  <1>3. /\ scan' = [scan EXCEPT ![v] = scan'[v]]
        /\ scan'[v] = IF s.kind = "iter" THEN [s EXCEPT !.conn = TRUE]
                      ELSE [s EXCEPT !.pc = "idle", !.report = "unreadable"]
    BY <1>1 DEF FillBroken, SqlInd, ScansOK
  <1>4. UNCHANGED <<backend, isolation, format, rows, locks, proc, acked, faults>>
    BY DEF FillBroken, dbVars
  <1>5. CASE s.kind = "iter"
    <2>1. scan'[v] = [pc |-> "scan", kind |-> s.kind, snap |-> s.snap, from |-> s.from,
                      next |-> s.next, got |-> s.got, conn |-> TRUE, report |-> s.report]
      BY <1>1, <1>3, <1>5 DEF ScanOK, ScanShape
    <2>2. ScanOK(v)' /\ scan'[v].pc \in {"idle", "scan"} /\ scan'[v].conn \in BOOLEAN
      BY <1>1, <1>4, <2>1 DEF ScanOK, ScanShape
    <2> QED BY <1>3, <1>4, <2>2, ScanMoves
  <1>6. CASE s.kind # "iter"
    <2>1. scan'[v] = [pc |-> "idle", kind |-> s.kind, snap |-> s.snap, from |-> s.from,
                      next |-> s.next, got |-> s.got, conn |-> s.conn,
                      report |-> "unreadable"]
      BY <1>1, <1>3, <1>6 DEF ScanOK, ScanShape
    <2>2. s.conn \in BOOLEAN
      BY <1>1 DEF SqlInd, TypeOK
    <2>3. ScanOK(v)'
      BY <1>1, <1>2, <1>4, <2>1 DEF ScanOK, ScanShape
    <2> QED BY <1>3, <1>4, <2>1, <2>2, <2>3, ScanMoves
  <1> QED BY <1>5, <1>6
-----------------------------------------------------------------------------
(***************************************************************************)
(* A restart of the server                                                 *)
(***************************************************************************)
\* Every connection and every lock is gone; nothing that was committed is.
LEMMA ServerRestartKeeps ==
    ASSUME SqlInd, ServerRestart
    PROVE  SqlInd'
  <1>1. /\ UNCHANGED <<backend, isolation, format, rows, acked>> /\ Fault("restart")
        /\ locks' = [l \in DOMAIN locks |-> Nobody]
        /\ proc' = [w \in Writers |-> [proc[w] EXCEPT !.conn = FALSE]]
        /\ scan' = [v \in Readers |-> [scan[v] EXCEPT !.conn = (@ /\ scan[v].pc = "idle")]]
    BY DEF ServerRestart
  <1>2. FaultsGrow /\ faults'.restart > 0 /\ faults'.stray >= faults.stray
    BY <1>1, FaultFacts DEF SqlInd, FaultsGrow
  <1>3. ASSUME NEW w \in Writers PROVE WriterOK(w)' /\ ProcTyped(w)'
    <2>1. PICK q : q = proc[w] /\ ProcShape(q) /\ WriterOK(w) /\ ProcTyped(w)
      BY ProcFacts
    <2>2. proc'[w] = [q EXCEPT !.conn = FALSE]
      BY <1>1, <2>1
    <2>3. /\ ProcShape(proc'[w]) /\ proc'[w].pc = q.pc /\ proc'[w].conn = FALSE
          /\ proc'[w].op = q.op /\ proc'[w].attempt = q.attempt /\ proc'[w].again = q.again
          /\ proc'[w].outcome = q.outcome /\ proc'[w].rec = q.rec
      BY <2>1, <2>2 DEF ProcShape
    <2>4. ProcTyped(w)'
      BY <2>1, <2>3 DEF ProcTyped
    <2>5. LockHeld(w)' /\ SchemaSeen(w)'
      BY <1>1, <2>1, <2>3 DEF WriterOK, LockHeld, SchemaSeen
    <2>6. RecordBuilt(w)' /\ NotRecorded(w)'
      BY <1>1, <2>1, <2>3 DEF WriterOK, RecordBuilt, NotRecorded
    <2> QED BY <2>3, <2>4, <2>5, <2>6 DEF WriterOK
  <1>4. WritersOK'
    BY <1>1, <1>3 DEF WritersOK
  <1>5. ASSUME NEW v \in Readers
        PROVE  ScanOK(v)' /\ scan'[v].pc \in {"idle", "scan"} /\ scan'[v].conn \in BOOLEAN
    <2>1. PICK s : /\ s = scan[v] /\ ScanOK(v)
                   /\ s.pc \in {"idle", "scan"} /\ s.conn \in BOOLEAN
      BY DEF SqlInd, ScansOK, TypeOK
    <2>2. PICK c \in BOOLEAN : c = (s.conn /\ s.pc = "idle")
      OBVIOUS
    <2>3. scan'[v] = [s EXCEPT !.conn = c]
      BY <1>1, <2>1, <2>2
    <2>4. scan'[v] = [pc |-> s.pc, kind |-> s.kind, snap |-> s.snap, from |-> s.from,
                      next |-> s.next, got |-> s.got, conn |-> c, report |-> s.report]
      BY <2>1, <2>3 DEF ScanOK, ScanShape
    <2>5. ScanOK(v)'
      BY <1>1, <1>2, <2>1, <2>4 DEF ScanOK, ScanShape
    <2> QED BY <2>1, <2>2, <2>4, <2>5
  <1>6. ScansOK'
    BY <1>1, <1>5 DEF ScansOK
  <1>7. TypeOK'
    <2>1. locks' \in [{"schema", "append"} -> Writers \cup {Nobody}]
      BY <1>1 DEF SqlInd, TypeOK
    <2>2. \A w \in Writers : ProcTyped(w)'
      BY <1>3
    <2> QED BY <1>1, <1>5, <2>1, <2>2 DEF SqlInd, TypeOK, ProcTyped
  <1>8. RowsOK' /\ AckedOK' /\ SqlChainIntact'
    <2>1. \A n \in Nat : n >= faults'.stray => n >= faults.stray
      BY <1>2 DEF SqlInd, FaultsGrow, FaultsOK
    <2> QED BY <1>1, <2>1 DEF SqlInd, RowsOK, AckedOK, Acknowledged, SqlChainIntact
  <1> QED BY <1>2, <1>4, <1>6, <1>7, <1>8 DEF SqlInd, FaultsGrow
-----------------------------------------------------------------------------
(***************************************************************************)
(* The invariant                                                           *)
(***************************************************************************)
LEMMA SqlIndInit == Init => SqlInd
  <1> SUFFICES ASSUME Init PROVE SqlInd
    OBVIOUS
  <1>1. rows = <<>> /\ Len(rows) = 0 /\ acked = {} /\ format # "writ"
    BY DEF Init
  <1>2. IsSeq(rows)
    <2>1. rows \in Seq({})
      BY <1>1
    <2> QED BY <2>1, IsSeqIntro
  <1>3. 0 \in 0..MaxOps /\ 0 \in 0..MaxRetries
    BY SqlAssumption DEF SqlAssumption
  <1>4. ASSUME NEW w \in Writers PROVE proc[w] = Closed /\ WriterOK(w) /\ ProcTyped(w)
    <2>1. proc[w] = Closed
      BY DEF Init
    <2>2. ProcTyped(w)
      BY <1>3, <2>1 DEF Closed, ProcTyped
    <2>3. NotRecorded(w)
      BY <1>1, <2>1 DEF Closed, NotRecorded, NoRow, Unrecorded
    <2>4. ProcShape(proc[w]) /\ LockHeld(w) /\ SchemaSeen(w) /\ RecordBuilt(w)
      BY <2>1 DEF Closed, ProcShape, LockHeld, SchemaSeen, RecordBuilt, Opened, Building
    <2> QED BY <2>1, <2>2, <2>3, <2>4 DEF WriterOK
  <1>5. ASSUME NEW v \in Readers
        PROVE  ScanOK(v) /\ scan[v].pc \in {"idle", "scan"} /\ scan[v].conn \in BOOLEAN
    <2>1. scan[v] = NoScan
      BY DEF Init
    <2>2. SubSeq(rows, 1, 0) = <<>>
      BY <1>1
    <2> QED BY <1>1, <2>1, <2>2 DEF NoScan, ScanOK, ScanShape
  <1>6. TypeOK
    <2>1. \A w \in Writers : ProcTyped(w)
      BY <1>4
    <2> QED BY <1>1, <1>2, <1>5, <2>1 DEF Init, TypeOK, ProcTyped, Postgres
  <1>7. WritersOK /\ ScansOK
    BY <1>4, <1>5 DEF WritersOK, ScansOK, Init
  <1>8. RowsOK /\ AckedOK /\ SqlChainIntact
    BY <1>1 DEF RowsOK, AckedOK, Acknowledged, NoRow, SqlChainIntact, VerifyIntact
  <1>9. FaultsOK
    BY SqlAssumption DEF Init, FaultsOK, SqlAssumption
  <1> QED BY <1>6, <1>7, <1>8, <1>9 DEF SqlInd

LEMMA SqlIndStutter ==
    ASSUME SqlInd, UNCHANGED vars
    PROVE  SqlInd'
  <1>1. TypeOK' /\ RowsOK' /\ FaultsOK' /\ SqlChainIntact'
    BY DEF SqlInd, vars, TypeOK, RowsOK, FaultsOK, SqlChainIntact
  <1>2. WritersOK'
    BY DEF SqlInd, vars, WritersOK, WriterOK, LockHeld, LockFor, Postgres, SchemaSeen,
           RecordBuilt, NotRecorded
  <1>3. ScansOK' /\ AckedOK'
    BY DEF SqlInd, vars, ScansOK, ScanOK, AckedOK, Acknowledged
  <1> QED BY <1>1, <1>2, <1>3 DEF SqlInd

LEMMA SqlIndStep ==
    ASSUME SqlInd, [Next]_vars
    PROVE  SqlInd'
  <1>1. ASSUME NEW w \in Writers, Open(w) PROVE SqlInd'
    BY <1>1, ConnectKeeps, ErrorKeeps, SchemaLockKeeps, SchemaCheckKeeps,
       SchemaCreateKeeps, RescanKeeps DEF Open
  <1>2. ASSUME NEW w \in Writers, Record(w) PROVE SqlInd'
    BY <1>2, BeginKeeps, ReadTipKeeps, ErrorKeeps, BeginTxKeeps, TakeLockKeeps,
       CheckTipKeeps, InsertKeeps, CommitKeeps, ReplyKeeps DEF Record
  <1>3. ASSUME NEW v \in Readers, Scan(v) PROVE SqlInd'
    BY <1>3, StartScanKeeps, FillKeeps, FillBrokenKeeps DEF Scan
  <1> QED BY <1>1, <1>2, <1>3, KillKeeps, ServerRestartKeeps, StrayKeeps, SqlIndStutter
          DEF Next

LEMMA SqlIndInvariant == Spec => []SqlInd
  <1> QED BY SqlIndInit, SqlIndStep, PTL DEF Spec

\* Whoever appends - any number of stores on any number of hosts, and other
\* tools - and whatever is killed or restarted between two statements, the
\* committed rows are one chain verify_chain accepts.
THEOREM RowsChain == Spec => []SqlChainIntact
  <1>1. SqlInd => SqlChainIntact
    BY DEF SqlInd
  <1> QED BY <1>1, SqlIndInvariant, PTL

\* init_or_check_schema: a database is made a ledger at most once, by a
\* process that holds the schema lock, and nothing is written to any other.
THEOREM SchemaSafe == Spec => []SchemaOK
  <1>1. SqlInd => SchemaOK
    <2> SUFFICES ASSUME SqlInd PROVE CreatedOnce
      BY DEF SqlInd, SchemaOK
    <2>1. \A w \in Writers : SchemaSeen(w)
      BY ProcFacts DEF WriterOK
    <2> QED BY <2>1 DEF SqlInd, RowsOK, CreatedOnce, SchemaSeen
  <1> QED BY <1>1, SqlIndInvariant, PTL

\* An error of append that is not about COMMIT means the call is not on the
\* ledger; a finished scan is a prefix of the ledger with everything that was
\* committed when it began; only a lost snapshot is reported unreadable.
THEOREM ReportsTrue == Spec => []ReportsHonest
  <1>1. SqlInd => ReportsHonest
    <2> SUFFICES ASSUME SqlInd PROVE ErrorsAreHonest /\ ScansComplete
      BY DEF ReportsHonest
    <2>1. ErrorsAreHonest
      <3>1. \A w \in Writers : NotRecorded(w)
        BY ProcFacts DEF WriterOK
      <3> QED BY <3>1 DEF ErrorsAreHonest, NotRecorded, NoRow, Errors
    <2>2. ASSUME NEW v \in Readers, scan[v].pc = "idle", scan[v].report # "none"
          PROVE  \/ scan[v].report = "unreadable" /\ faults.restart > 0
                 \/ /\ scan[v].report = "intact"
                    /\ Len(scan[v].got) >= scan[v].from
                    /\ scan[v].got = SubSeq(rows, 1, Len(scan[v].got))
      <3>1. PICK s : s = scan[v] /\ ScanOK(v)
        BY DEF SqlInd, ScansOK
      <3>2. IsSeq(rows) /\ s.next \in 0..Len(rows) /\ s.got = SubSeq(rows, 1, s.next)
        BY <3>1 DEF SqlInd, TypeOK, ScanOK
      <3>3. Len(s.got) = s.next
        BY <3>2, PrefixFacts
      <3> QED BY <2>2, <3>1, <3>2, <3>3 DEF ScanOK
    <2> QED BY <2>1, <2>2 DEF ScansComplete
  <1> QED BY <1>1, SqlIndInvariant, PTL
-----------------------------------------------------------------------------
(***************************************************************************)
(* The abstract ledger                                                     *)
(***************************************************************************)
\* The largest element; what SqlRefinement maps `durable' to.
Top(S) == IF S = {} THEN 0 ELSE CHOOSE n \in S : \A k \in S : k <= n

LEMMA TopFacts ==
    ASSUME NEW L \in Nat, NEW S \in SUBSET (1..L),
           S # {} => \E n \in S : \A k \in S : k <= n
    PROVE  /\ Top(S) \in 0..L
           /\ \A k \in S : k <= Top(S)
           /\ S # {} => Top(S) \in S
  <1>1. CASE S = {}
    BY <1>1 DEF Top
  <1>2. CASE S # {}
    <2>1. PICK n \in S : \A k \in S : k <= n
      BY <1>2
    <2>2. Top(S) \in S /\ \A k \in S : k <= Top(S)
      BY <1>2, <2>1 DEF Top
    <2>3. \A k \in S : k \in 0..L
      OBVIOUS
    <2> QED BY <2>2, <2>3
  <1> QED BY <1>1, <1>2

LEMMA TopGrows ==
    ASSUME NEW L \in Nat, NEW S \in SUBSET (1..L), NEW n \in 1..L, NEW T,
           T = S \cup {n},
           S # {} => \E m \in S : \A k \in S : k <= m,
           T # {} => \E m \in T : \A k \in T : k <= m
    PROVE  Top(T) = IF n <= Top(S) THEN Top(S) ELSE n
  <1>1. /\ Top(S) \in 0..L /\ \A k \in S : k <= Top(S)
        /\ S # {} => Top(S) \in S
    BY TopFacts
  <1>2. T \in SUBSET (1..L) /\ T # {}
    OBVIOUS
  <1>3. Top(T) \in T /\ Top(T) \in 0..L /\ \A k \in T : k <= Top(T)
    BY <1>2, TopFacts
  <1>4. CASE n <= Top(S)
    <2>1. S # {}
      BY <1>4 DEF Top
    <2>2. Top(S) \in T /\ \A k \in T : k <= Top(S)
      BY <1>1, <1>4, <2>1
    <2> QED BY <1>1, <1>3, <1>4, <2>2
  <1>5. CASE ~(n <= Top(S))
    <2>1. n \in T /\ \A k \in T : k <= n
      BY <1>1, <1>5
    <2> QED BY <1>3, <1>5, <2>1
  <1> QED BY <1>4, <1>5

\* A commit, or a stray row, is an append; an answer makes what it
\* acknowledges durable, unless a later record already is; nothing else
\* touches the ledger or what was acknowledged of it.
LEMMA SqlStepRefines ==
    ASSUME SqlInd, [Next]_vars
    PROVE  [Abs!Next]_(Abs!vars)
  <1>1. ASSUME UNCHANGED <<rows, acked>> PROVE UNCHANGED Abs!vars
    BY <1>1 DEF Abs!vars, Acknowledged
  <1>2. ASSUME NEW w \in Writers, Commit(w) PROVE Abs!Next
    <2>1. /\ RowAdded(<<w, proc[w].op>>) /\ NoRow(rows, <<w, proc[w].op>>)
          /\ <<w, proc[w].op>> \in Writers \X (1..MaxOps) /\ UNCHANGED acked
      BY <1>2, CommitKeeps
    <2>2. Acknowledged' = Acknowledged
      BY <2>1 DEF Acknowledged
    <2>3. Abs!AppendRecord(<<w, proc[w].op>>)
      BY <2>1, <2>2 DEF Abs!AppendRecord, RowAdded, NoRow, Finalize, Abs!Finalize,
                                TipHash, Abs!TipHash, GENESIS_HASH, Abs!GENESIS_HASH
    <2> QED BY <2>1, <2>3 DEF Abs!Next
  <1>3. ASSUME StrayInsert PROVE Abs!Next
    <2>1. /\ RowAdded(<<"stray", faults.stray>>) /\ NoRow(rows, <<"stray", faults.stray>>)
          /\ faults.stray \in 0..MaxFaults /\ UNCHANGED acked
      BY <1>3, StrayKeeps
    <2>2. Acknowledged' = Acknowledged
      BY <2>1 DEF Acknowledged
    <2>3. Abs!AppendRecord(<<"stray", faults.stray>>)
      BY <2>1, <2>2 DEF Abs!AppendRecord, RowAdded, NoRow, Finalize, Abs!Finalize,
                                TipHash, Abs!TipHash, GENESIS_HASH, Abs!GENESIS_HASH
    <2>4. <<"stray", faults.stray>> \in {"stray"} \X (0..MaxFaults)
      BY <2>1
    <2> QED BY <2>3, <2>4 DEF Abs!Next
  <1>4. ASSUME NEW w \in Writers, Reply(w) PROVE [Abs!Next]_(Abs!vars)
    <2>1. SqlInd' /\ UNCHANGED rows
      BY <1>4, ReplyKeeps
    <2>2. CASE UNCHANGED acked
      BY <1>1, <2>1, <2>2
    <2>3. CASE \E n \in 1..Len(rows) : Acknowledged' = Acknowledged \cup {n}
      <3>1. PICK n \in 1..Len(rows) : Acknowledged' = Acknowledged \cup {n}
        BY <2>3
      <3>2. PICK L \in Nat : L = Len(rows)
        BY SeqFacts DEF SqlInd, TypeOK
      <3>3. PICK S, T : S = Acknowledged /\ T = Acknowledged'
        OBVIOUS
      <3>4. /\ S \in SUBSET (1..L)
            /\ S # {} => \E m \in S : \A k \in S : k <= m
        BY <3>2, <3>3 DEF SqlInd, AckedOK, Acknowledged
      <3>5. T # {} => \E m \in T : \A k \in T : k <= m
        BY <2>1, <3>3 DEF SqlInd, AckedOK, Acknowledged
      <3>6. Top(T) = IF n <= Top(S) THEN Top(S) ELSE n
        <4>1. n \in 1..L /\ T = S \cup {n}
          BY <3>1, <3>2, <3>3
        <4> QED BY <3>4, <3>5, <4>1, TopGrows
      <3>7. CASE n <= Top(S)
        <4>1. Top(T) = Top(S)
          BY <3>6, <3>7
        <4> QED BY <2>1, <3>3, <4>1 DEF Abs!vars, Top
      <3>8. CASE ~(n <= Top(S))
        <4>1. Top(T) = n /\ Top(S) \in 0..L
          BY <3>2, <3>4, <3>6, <3>8, TopFacts
        <4>2. Top(T) \in (Top(S) + 1)..Len(rows)
          BY <3>1, <3>2, <3>8, <4>1
        <4>3. Abs!MakeDurable
          BY <2>1, <3>3, <4>2 DEF Abs!MakeDurable, Top
        <4> QED BY <4>3 DEF Abs!Next
      <3> QED BY <3>7, <3>8
    <2> QED BY <1>4, <2>2, <2>3, ReplyKeeps
  <1>5. ASSUME NEW w \in Writers, Open(w) \/ Kill(w) PROVE UNCHANGED <<rows, acked>>
    BY <1>5 DEF Open, Kill, Connect, ConnectRefused, SchemaLock, SchemaCheck, SchemaCreate,
                Rescan, dbVars
  <1>6. ASSUME NEW w \in Writers, Record(w)
        PROVE  UNCHANGED <<rows, acked>> \/ Commit(w) \/ Reply(w)
    BY <1>6 DEF Record, Begin, ReadTip, ReconnectRefused, BeginTx, TakeLock, LockTimeout,
                CheckTip, Insert, CommitFails, Broken, dbVars
  <1>7. ASSUME NEW v \in Readers, Scan(v) PROVE UNCHANGED <<rows, acked>>
    BY <1>7 DEF Scan, StartScan, Fill, FillBroken, dbVars
  <1>8. ASSUME ServerRestart \/ UNCHANGED vars PROVE UNCHANGED <<rows, acked>>
    BY <1>8 DEF ServerRestart, vars
  <1> QED BY <1>1, <1>2, <1>3, <1>4, <1>5, <1>6, <1>7, <1>8 DEF Next

\* The database stores implement AppendOnlyLedger: every record_* call is
\* recorded at most once, although its rebuilds and a lost answer to COMMIT
\* leave it sent more than once, and what was acknowledged stays in place.
THEOREM SqlImplementsLedger == Spec => SqlRefinement
  <1>1. Init => Abs!Init
    BY DEF Init, Abs!Init, Acknowledged
  <1>2. SqlInd /\ [Next]_vars => [Abs!Next]_(Abs!vars)
    BY SqlStepRefines
  <1> QED BY <1>1, <1>2, SqlIndInvariant, PTL DEF Spec, SqlRefinement, Abs!Spec
==============================================================================
