----------------------------- MODULE SqlLedger ------------------------------
(***************************************************************************)
(* SqliteLedgerStore and PostgresLedgerStore                               *)
(* (crates/writ-ledger/src/sqlite.rs, postgres.rs): the ledger in a        *)
(* database, appended to by any number of processes or hosts.              *)
(*                                                                         *)
(* The two stores go through the same steps and differ in what can go      *)
(* wrong: a SQLite handle has no server that can drop its connection, a    *)
(* Postgres one has; SQLite has one write lock, Postgres an advisory lock  *)
(* for the schema and the marker row for appends.  A statement is a step;  *)
(* the rows of an uncommitted transaction are seen by nobody else and are  *)
(* gone when the connection is.  Key and JSON column of a row are one      *)
(* record: the tables' CHECK ties them together.                           *)
(***************************************************************************)
EXTENDS LedgerChain, FiniteSets

CONSTANTS
    Backends,      \* the stores in use, of "sqlite" and "postgres"
    Isolations,    \* the server's default isolation, of "committed", "repeatable"
    Writers,       \* processes appending to the ledger
    Readers,       \* scans of it: `writ verify' and LedgerStore::iter
    MaxOps,        \* bound: record_* calls per process
    MaxRetries,    \* APPEND_RETRIES
    PAGE_SIZE,     \* rows per query of a RowCursor
    MaxFaults      \* bound: server restarts, processes killed, failing commits,
                   \* connects and lock waits, rows inserted by other tools

ASSUME SqlAssumption ==
    /\ Backends \subseteq {"sqlite", "postgres"}
    /\ Isolations \subseteq {"committed", "repeatable"}
    /\ MaxOps \in Nat /\ MaxRetries \in Nat /\ PAGE_SIZE \in Nat \ {0}
    /\ MaxFaults \in Nat
    /\ Writers \cap {"nobody", "stray"} = {}

VARIABLES
    backend,    \* which store this ledger is in
    isolation,  \* what a plain BEGIN gives on this server
    format,     \* what the database holds: nothing, a ledger, something else
    rows,       \* the committed rows, by key
    locks,      \* who holds the schema lock and the append lock
    proc,       \* each process: its connection, handle and current call
    acked,      \* records whose append returned Ok
    scan,       \* each reader's cursor
    faults      \* faults so far, by kind (MaxFaults in all)

dbVars == <<backend, isolation, format, rows, locks>>
vars == <<backend, isolation, format, rows, locks, proc, acked, scan, faults>>

Nobody == "nobody"
NoRec  == [index |-> -1]

Postgres == backend = "postgres"

\* A process without a store: pc is where it is, conn whether the server
\* still knows its connection, seen what its transaction's snapshot shows of
\* the format, again whether append has reconnected once.
Closed == [pc |-> "closed", conn |-> TRUE, seen |-> "blank", again |-> FALSE,
           rec |-> NoRec, op |-> 0, attempt |-> 0, outcome |-> "none"]

NoScan == [pc |-> "idle", kind |-> "iter", snap |-> 0, from |-> 0, next |-> 0,
           got |-> <<>>, conn |-> TRUE, report |-> "none"]

Init ==
    /\ backend \in Backends
    /\ isolation \in (IF Postgres THEN Isolations ELSE {"committed"})
    /\ format \in {"blank", "foreign"}
    /\ rows = <<>>
    /\ locks = [schema |-> Nobody, append |-> Nobody]
    /\ proc = [w \in Writers |-> Closed]
    /\ acked = {}
    /\ scan = [v \in Readers |-> NoScan]
    /\ faults = [restart |-> 0, kill |-> 0, fail |-> 0, stray |-> 0]

\* SQLite's BEGIN IMMEDIATE takes the one write lock whatever it is for.
LockFor(what) == IF Postgres THEN what ELSE "append"

\* A transaction ends, by commit or rollback, and so does its lock.
Release(w) == locks' = [l \in DOMAIN locks |-> IF locks[l] = w THEN Nobody ELSE locks[l]]

\* A call is over; the store stays open (or, of open itself, does not open).
Fails(w, where, how) ==
    proc' = [proc EXCEPT ![w].pc = where, ![w].outcome = how,
                         ![w].rec = NoRec, ![w].again = FALSE]

Fault(kind) ==
    /\ faults.restart + faults.kill + faults.fail + faults.stray < MaxFaults
    /\ faults' = [faults EXCEPT ![kind] = @ + 1]
-----------------------------------------------------------------------------
(***************************************************************************)
(* open: connect, create or check the schema under a lock, check the links *)
(***************************************************************************)

\* connect_target / Connection::open.  The schema transaction begins; its
\* snapshot is what it is before the lock is granted.
Connect(w) ==
    /\ proc[w].pc = "closed"
    /\ proc' = [proc EXCEPT ![w].pc = "schema", ![w].conn = TRUE, ![w].seen = format]
    /\ UNCHANGED <<dbVars, acked, scan, faults>>

\* The server is away, of another encoding or too old; SQLite refuses WAL.
ConnectRefused(w) ==
    /\ proc[w].pc = "closed"
    /\ Fault("fail")
    /\ Fails(w, "closed", "refused")
    /\ UNCHANGED <<dbVars, acked, scan>>

\* Mutant: BEGIN DEFERRED, the format is read before the write lock is taken.
SchemaLockDeferred(w) ==
    /\ proc[w].pc = "schema" /\ proc[w].conn
    /\ proc' = [proc EXCEPT ![w].pc = "format"]
    /\ UNCHANGED <<dbVars, acked, scan, faults>>

\* pg_advisory_xact_lock / BEGIN IMMEDIATE.
SchemaLock(w) ==
    /\ proc[w].pc = "schema" /\ proc[w].conn
    /\ locks[LockFor("schema")] = Nobody
    /\ locks' = [locks EXCEPT ![LockFor("schema")] = w]
    /\ proc' = [proc EXCEPT ![w].pc = "format"]
    /\ UNCHANGED <<backend, isolation, format, rows, acked, scan, faults>>

\* SQLite: application_id and user_version, read under the lock.
check_format == format

\* Postgres: the marker row as the transaction sees it.  to_regclass looks at
\* the catalogue as it is now; only the row goes through the snapshot, and in
\* a snapshot older than the table it is missing.
marker_state(w) ==
    IF isolation = "repeatable" /\ proc[w].seen = "blank" /\ format = "writ"
    THEN "foreign" ELSE format

MarkerOf(w) == IF Postgres THEN marker_state(w) ELSE check_format

\* A ledger is used, a blank database gets one, anything else is refused.
SchemaCheck(w) ==
    /\ proc[w].pc = "format" /\ proc[w].conn
    /\ \/ /\ MarkerOf(w) = "writ"
          /\ proc' = [proc EXCEPT ![w].pc = "rescan"]
          /\ Release(w)
       \/ /\ MarkerOf(w) = "blank"
          /\ proc' = [proc EXCEPT ![w].pc = "create"]
          /\ UNCHANGED locks
       \/ /\ MarkerOf(w) = "foreign"
          /\ Fails(w, "closed", "foreign")
          /\ Release(w)
    /\ UNCHANGED <<backend, isolation, format, rows, acked, scan, faults>>

\* schema_sql and the markers, committed together.  A second CREATE of the
\* same tables fails.
SchemaCreate(w) ==
    /\ proc[w].pc = "create" /\ proc[w].conn
    /\ IF format = "blank"
       THEN /\ format' = "writ"
            /\ proc' = [proc EXCEPT ![w].pc = "rescan"]
       ELSE /\ Fails(w, "closed", "twice")
            /\ UNCHANGED format
    /\ Release(w)
    /\ UNCHANGED <<backend, isolation, rows, acked, scan, faults>>

\* The links rescan checks, in one snapshot.
Linked(s) ==
    \A i \in 1..Len(s) :
        /\ s[i].index = i - 1
        /\ s[i].prev_hash = (IF i = 1 THEN GENESIS_HASH ELSE s[i - 1].record_hash)

Rescan(w) ==
    /\ proc[w].pc = "rescan" /\ proc[w].conn
    /\ IF Linked(rows)
       THEN proc' = [proc EXCEPT ![w].pc = "idle", ![w].outcome = "opened"]
       ELSE Fails(w, "closed", "corrupt")
    /\ UNCHANGED <<dbVars, acked, scan, faults>>
-----------------------------------------------------------------------------
(***************************************************************************)
(* LedgerWriter::record_* under retry_append, and append.                  *)
(***************************************************************************)
Begin(w) ==
    /\ proc[w].pc = "idle" /\ proc[w].op < MaxOps
    /\ proc' = [proc EXCEPT ![w].pc = "tip", ![w].op = @ + 1, ![w].attempt = 0,
                            ![w].outcome = "none"]
    /\ UNCHANGED <<dbVars, acked, scan, faults>>

\* tip_record, decode_row: what a new record is built on.
TipRow == [index |-> Len(rows), prev_hash |-> TipHash(rows)]

\* tip(): no lock.  read() reconnects once if the server has hung up.
ReadTip(w) ==
    /\ proc[w].pc = "tip"
    /\ proc' = [proc EXCEPT ![w].pc = "begin", ![w].conn = TRUE,
                  ![w].rec = Finalize(TipRow.index, <<w, proc[w].op>>, TipRow.prev_hash)]
    /\ UNCHANGED <<dbVars, acked, scan, faults>>

\* The reconnect of read(), or of append, is refused.
ReconnectRefused(w) ==
    /\ proc[w].pc \in {"tip", "begin"} /\ ~proc[w].conn
    /\ Fault("fail")
    /\ Fails(w, "idle", "refused")
    /\ UNCHANGED <<dbVars, acked, scan>>

\* BEGIN.  When it fails because the connection is gone nothing has been
\* sent that could have written: reconnect and try once more.
BeginTx(w) ==
    /\ proc[w].pc = "begin"
    /\ \/ /\ proc[w].conn
          /\ proc' = [proc EXCEPT ![w].pc = "lock"]
       \/ /\ ~proc[w].conn /\ ~proc[w].again
          /\ proc' = [proc EXCEPT ![w].conn = TRUE, ![w].again = TRUE]
       \/ /\ ~proc[w].conn /\ proc[w].again
          /\ Fails(w, "idle", "error")
    /\ UNCHANGED <<dbVars, acked, scan, faults>>

\* SELECT ... FOR UPDATE of the marker row / BEGIN IMMEDIATE.
TakeLock(w) ==
    /\ proc[w].pc = "lock" /\ proc[w].conn
    /\ locks.append = Nobody
    /\ locks' = [locks EXCEPT !.append = w]
    /\ proc' = [proc EXCEPT ![w].pc = "check"]
    /\ UNCHANGED <<backend, isolation, format, rows, acked, scan, faults>>

\* lock_timeout, busy_timeout: not a race, so not retried.
LockTimeout(w) ==
    /\ proc[w].pc \in {"schema", "lock"} /\ proc[w].conn
    /\ locks[LockFor(IF proc[w].pc = "schema" THEN "schema" ELSE "append")] # Nobody
    /\ Fault("fail")
    /\ Fails(w, IF proc[w].pc = "schema" THEN "closed" ELSE "idle", "busy")
    /\ UNCHANGED <<dbVars, acked, scan>>

\* What append demands of a record, given the tip it has just read.
Extends(r) == r.index = TipRow.index /\ r.prev_hash = TipRow.prev_hash

\* Mutant: any link to the chain will do.
GuardAcceptsFork(r) ==
    /\ r.index = Len(rows)
    /\ r.prev_hash \in {GENESIS_HASH} \cup {rows[j].record_hash : j \in 1..Len(rows)}

\* What the BEFORE INSERT trigger demands of any row, whoever inserts it.
GuardAccepts(r) == r.index = Len(rows) /\ r.prev_hash = TipHash(rows)

RetriesLeft(w) == proc[w].attempt < MaxRetries

\* The tip is re-read under the lock.  A record that was overtaken is
\* rejected and rolled back; retry_append rebuilds it on the new tip.
CheckTip(w) ==
    /\ proc[w].pc = "check" /\ proc[w].conn
    /\ \/ /\ Extends(proc[w].rec)
          /\ proc' = [proc EXCEPT ![w].pc = "insert"]
          /\ UNCHANGED locks
       \/ /\ ~Extends(proc[w].rec) /\ RetriesLeft(w)
          /\ proc' = [proc EXCEPT ![w].pc = "tip", ![w].attempt = @ + 1,
                                  ![w].rec = NoRec, ![w].again = FALSE]
          /\ Release(w)
       \/ /\ ~Extends(proc[w].rec) /\ ~RetriesLeft(w)
          /\ Fails(w, "idle", "race")
          /\ Release(w)
    /\ UNCHANGED <<backend, isolation, format, rows, acked, scan, faults>>

\* INSERT: the row trigger checks the same again; its error is no race.
Insert(w) ==
    /\ proc[w].pc = "insert" /\ proc[w].conn
    /\ \/ /\ GuardAccepts(proc[w].rec)
          /\ proc' = [proc EXCEPT ![w].pc = "commit"]
          /\ UNCHANGED locks
       \/ /\ ~GuardAccepts(proc[w].rec)
          /\ Fails(w, "idle", "error")
          /\ Release(w)
    /\ UNCHANGED <<backend, isolation, format, rows, acked, scan, faults>>

\* COMMIT, in the database: synchronous, so what others see is durable.
Commit(w) ==
    /\ proc[w].pc = "commit" /\ proc[w].conn
    /\ rows' = Append(rows, proc[w].rec)
    /\ Release(w)
    /\ proc' = [proc EXCEPT ![w].pc = "reply"]
    /\ UNCHANGED <<backend, isolation, format, acked, scan, faults>>

\* "commit append: ...": the caller cannot tell it from a lost answer.
CommitFails(w) ==
    /\ proc[w].pc = "commit" /\ proc[w].conn
    /\ Fault("fail")
    /\ Fails(w, "idle", "unknown")
    /\ Release(w)
    /\ UNCHANGED <<backend, isolation, format, rows, acked, scan>>

\* Mutant: a lost answer is retried like a lost race.
ReplyRetried(w) ==
    /\ proc[w].pc = "reply"
    /\ IF proc[w].conn
       THEN /\ acked' = acked \cup {proc[w].rec}
            /\ Fails(w, "idle", "ok")
       ELSE /\ proc' = [proc EXCEPT ![w].pc = "tip", ![w].rec = NoRec]
            /\ UNCHANGED acked
    /\ UNCHANGED <<dbVars, scan, faults>>

\* The answer to COMMIT.  If it is lost the caller gets an error and the
\* record stays: nothing is retried.
Reply(w) ==
    /\ proc[w].pc = "reply"
    /\ IF proc[w].conn
       THEN /\ acked' = acked \cup {proc[w].rec}
            /\ Fails(w, "idle", "ok")
       ELSE /\ Fails(w, "idle", "unknown")
            /\ UNCHANGED acked
    /\ UNCHANGED <<dbVars, scan, faults>>

\* A statement on a connection the server has dropped.
Broken(w) ==
    /\ ~proc[w].conn
    /\ proc[w].pc \in {"schema", "format", "create", "rescan", "lock", "check",
                       "insert", "commit"}
    /\ Fails(w, IF proc[w].pc \in {"schema", "format", "create", "rescan"}
                THEN "closed" ELSE "idle",
                IF proc[w].pc = "commit" THEN "unknown" ELSE "error")
    /\ UNCHANGED <<dbVars, acked, scan, faults>>
-----------------------------------------------------------------------------
(***************************************************************************)
(* Scans.  verify reads one snapshot, iter whatever is there page by page. *)
(***************************************************************************)
StartScan(v) ==
    /\ scan[v].pc = "idle" /\ format = "writ"
    /\ \E kind \in {"verify", "iter"} :
         scan' = [scan EXCEPT ![v] = [NoScan EXCEPT !.pc = "scan", !.kind = kind,
                                        !.snap = Len(rows), !.from = Len(rows)]]
    /\ UNCHANGED <<dbVars, proc, acked, faults>>

\* How far the cursor's transaction sees: BEGIN DEFERRED or REPEATABLE READ
\* for verify, each statement its own for iter.
Sees(v) == IF scan[v].kind = "verify" THEN scan[v].snap ELSE Len(rows)

\* RowCursor::fill: the next PAGE_SIZE rows from key next_idx on.
Page(v) ==
    LET end == scan[v].next + PAGE_SIZE
    IN  SubSeq(rows, scan[v].next + 1, IF Sees(v) < end THEN Sees(v) ELSE end)

\* Mutant: a full page is taken for the last one.
LastPageFull(page) == Len(page) <= PAGE_SIZE

\* A page that is not full is the last.
LastPage(page) == Len(page) < PAGE_SIZE

Fill(v) ==
    /\ scan[v].pc = "scan" /\ scan[v].conn
    /\ LET got == scan[v].got \o Page(v)
       IN  scan' = [scan EXCEPT ![v].got = got, ![v].next = @ + Len(Page(v)),
                      ![v].pc = IF LastPage(Page(v)) THEN "idle" ELSE @,
                      ![v].report = IF ~LastPage(Page(v)) THEN @
                                    ELSE IF verify_chain(got).intact THEN "intact"
                                    ELSE "broken"]
    /\ UNCHANGED <<dbVars, proc, acked, faults>>

\* The connection is gone between two pages.  iter goes through read() and
\* reconnects; a snapshot cannot, the cursor yields an error, and
\* verify_records reports the record at that position as unverifiable.
FillBroken(v) ==
    /\ scan[v].pc = "scan" /\ ~scan[v].conn
    /\ scan' = [scan EXCEPT ![v] =
                  IF @.kind = "iter" THEN [@ EXCEPT !.conn = TRUE]
                  ELSE [@ EXCEPT !.pc = "idle", !.report = "unreadable"]]
    /\ UNCHANGED <<dbVars, proc, acked, faults>>
-----------------------------------------------------------------------------
(***************************************************************************)
(* The environment                                                         *)
(***************************************************************************)

\* A restart or failover: open transactions are rolled back.
ServerRestart ==
    /\ Postgres
    /\ Fault("restart")
    /\ locks' = [l \in DOMAIN locks |-> Nobody]
    /\ proc' = [w \in Writers |-> [proc[w] EXCEPT !.conn = FALSE]]
    /\ scan' = [v \in Readers |-> [scan[v] EXCEPT !.conn = (@ /\ scan[v].pc = "idle")]]
    /\ UNCHANGED <<backend, isolation, format, rows, acked>>

Kill(w) ==
    /\ proc[w].pc # "closed"
    /\ Fault("kill")
    /\ proc' = [proc EXCEPT ![w] = [Closed EXCEPT !.op = proc[w].op]]
    /\ Release(w)
    /\ UNCHANGED <<backend, isolation, format, rows, acked, scan>>

\* Another tool inserts a row (of a record with its own hash): the trigger
\* takes the append lock and checks it.
StrayInsert ==
    /\ format = "writ" /\ locks.append = Nobody
    /\ Fault("stray")
    /\ \E i \in 0..Len(rows), prev \in {GENESIS_HASH} \cup {rows[j].record_hash : j \in 1..Len(rows)} :
         LET r == Finalize(i, <<"stray", faults.stray>>, prev)
         IN  GuardAccepts(r) /\ rows' = Append(rows, r)
    /\ UNCHANGED <<backend, isolation, format, locks, proc, acked, scan>>
-----------------------------------------------------------------------------
Open(w) ==
    \/ Connect(w) \/ ConnectRefused(w) \/ SchemaLock(w) \/ SchemaCheck(w)
    \/ SchemaCreate(w) \/ Rescan(w)

Record(w) ==
    \/ Begin(w) \/ ReadTip(w) \/ ReconnectRefused(w) \/ BeginTx(w) \/ TakeLock(w)
    \/ LockTimeout(w) \/ CheckTip(w) \/ Insert(w) \/ Commit(w) \/ CommitFails(w)
    \/ Reply(w) \/ Broken(w)

Scan(v) == StartScan(v) \/ Fill(v) \/ FillBroken(v)

Next ==
    \/ \E w \in Writers : Open(w) \/ Record(w) \/ Kill(w)
    \/ \E v \in Readers : Scan(v)
    \/ ServerRestart
    \/ StrayInsert

Spec == Init /\ [][Next]_vars
-----------------------------------------------------------------------------
(***************************************************************************)
(* Properties                                                              *)
(***************************************************************************)
TypeOK ==
    /\ backend \in Backends /\ isolation \in Isolations \cup {"committed"}
    /\ format \in {"blank", "writ", "foreign"}
    /\ IsSeq(rows)
    /\ locks \in [{"schema", "append"} -> Writers \cup {Nobody}]
    /\ \A w \in Writers :
          /\ proc[w].pc \in {"closed", "schema", "format", "create", "rescan", "idle",
                             "tip", "begin", "lock", "check", "insert", "commit", "reply"}
          /\ proc[w].conn \in BOOLEAN /\ proc[w].again \in BOOLEAN
          /\ proc[w].op \in 0..MaxOps /\ proc[w].attempt \in 0..MaxRetries
    /\ \A v \in Readers : scan[v].pc \in {"idle", "scan"} /\ scan[v].conn \in BOOLEAN
    /\ \A r \in acked : r.index \in Nat

\* Whoever appends - stores on several hosts, another tool's INSERT - and
\* whatever is killed or restarted, the rows are one chain `writ verify'
\* accepts.
SqlChainIntact == VerifyIntact(rows)

\* The database stores implement the same append-only ledger as the file:
\* no call is recorded twice, although a lost answer to COMMIT leaves its
\* caller not knowing, and what was acknowledged stays in its place.
Acknowledged == {r.index + 1 : r \in acked}

Abs == INSTANCE AppendOnlyLedger WITH
          log <- rows,
          durable <- IF Acknowledged = {} THEN 0
                     ELSE CHOOSE n \in Acknowledged : \A k \in Acknowledged : k <= n,
          Body <- (Writers \X (1..MaxOps)) \cup ({"stray"} \X (0..MaxFaults))

SqlRefinement == Abs!Spec

\* An error of append that is not about COMMIT is the truth: the call is not
\* on the ledger, however often it was rebuilt and whichever connection it
\* went over.
ErrorsAreHonest ==
    \A w \in Writers :
        proc[w].pc = "idle" /\ proc[w].outcome \in {"race", "busy", "refused", "error"}
          => \A i \in 1..Len(rows) : rows[i].body # <<w, proc[w].op>>

\* Opening never writes to a database that is not a ledger, and two
\* processes opening a new one at a time never both create it.
CreatedOnce ==
    /\ \A w \in Writers : proc[w].outcome # "twice"
    /\ format # "writ" => rows = <<>>
    /\ \A w \in Writers : proc[w].pc = "create" /\ proc[w].conn => format = "blank"

\* A finished scan has every row that was committed when it began, in order
\* and without gaps, although pages are read while others append; and a
\* verification that did not lose its connection reports an intact chain.
ScansComplete ==
    \A v \in Readers :
        scan[v].pc = "idle" /\ scan[v].report # "none" =>
            \/ scan[v].report = "unreadable" /\ faults.restart > 0
            \/ /\ scan[v].report = "intact"
               /\ Len(scan[v].got) >= scan[v].from
               /\ scan[v].got = SubSeq(rows, 1, Len(scan[v].got))

\* Processes that open a new database at the same time end up with one
\* ledger in it, and never write to one that is something else
\* (init_or_check_schema of both stores).
SchemaOK == TypeOK /\ CreatedOnce

\* What the stores tell their callers is true: an error of append, the rows
\* of a scan and the report of a verification, beside writers and after
\* connections were lost.
ReportsHonest == ErrorsAreHonest /\ ScansComplete
=============================================================================
