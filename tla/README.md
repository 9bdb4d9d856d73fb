# A TLA+ model of writ

writ puts a policy, a human approver and an append-only ledger between an AI
agent and its tools. An agent's tool call is decided by a policy engine, asked
about if the policy says so, and recorded: one `Decision` record per call, one
`Execution` record per call that ran. Around that core are the ways in which
calls reach it (hooks, SDK clients, an MCP proxy), the boundaries that hold an
agent that goes around it (sandboxes, `writ run`), and the receipts that show
later that the ledger was not changed. This directory models the parts of writ
where the order of steps decides whether these promises hold, checks them with
TLC, and proves with TLAPS, for any number of processes, most of what it checks
of the ledgers, the gateways, the approvals, the proxy and the boundaries.

## Inventory

| Component | State | Operations | Shares / talks to | Module |
|---|---|---|---|---|
| Hash chain (`writ-core/src/ledger.rs`) | – | `compute_hash`, `LedgerWriter::record_*`, `verify_chain` | pure | `LedgerChain` |
| JSONL ledger store (`writ-ledger/src/file_store.rs`) | file, `<ledger>.lock`, per handle `ChainState` | `open`, `lock`, `refresh`, `repair_tail`, `append`, `tip`, `iter`, `retry_append` | the file, among any number of processes | `FileLedger` |
| Ledger verification (`verify.rs`) | – | `verify`, `verify_jsonl` | reads the file without the lock | `FileLedger` |
| SQLite and Postgres stores (`sqlite.rs`, `postgres.rs`) | a database, per handle a connection | `open` with schema creation, `append`, `tip`, scans | the database, among processes and hosts | `SqlLedger` |
| Hook gateway (`writ-cli/src/hook.rs`) | none between requests | `decide`, `resolve`, `complete`; `PreToolUse`, `PostToolUse` | the ledger, the console's files | `HookGateway` |
| Hooks of Codex, Gemini, Cursor, Windsurf (`hook/agents.rs`) | none between hooks | a pre and a post hook each | the ledger, the console's files, the agent | `HookAgents` |
| Console approvals (`ui/approvals.rs`, `ui.rs`) | request, decision and heartbeat files | `await_decision`, `api_decide`, heartbeat, `gc_decisions` | the file system, the clock | `UiApprovals` |
| Decision pipeline (`pipeline.rs`, `approver.rs`) | – | `handle_call`, `resolve_approval` | policy, approver, ledger | inside the gateways |
| Policy engines (`writ-policy`, `-rego`, `-cedar`) | a policy and the code generated from it | `from_source`, `evaluate`, `reload` | regorus and cedar-policy | `PolicyEngines` |
| MCP proxy over HTTP (`writ-mcp/src/http`) | sessions, `Inflight`, a job channel, legacy `pending` | accept, intercept, forward, relay, resume, delete | agents, upstream server, ledger | `McpGateway` |
| SDK adapters (`adapters/python`, `adapters/typescript`) | a child gateway, pending requests, the hooks' maps | `decide`, `resolve`, `complete`, respawn, `close`, the guard, Claude Agent SDK hooks | the child's pipes, the program's tools | `SdkClient` |
| Sandboxes (`writ-sandbox`, `writ-sandbox-docker`) | prepared sandboxes, temp directories, profiles, containers | `prepare`, `exec`, `teardown`, `Drop` | the kernel, the docker daemon | `Sandbox`, `KernelBoundary` |
| `writ run` (`run.rs`, `interactive.rs`) | control directory, labels, the child | decide, wire, spawn, forward signals, wait, record | the kernel, the ledger, the agent's hooks | `WritRun`, `KernelBoundary` |
| `writ integrate` (`integrate.rs`) | – | merge, `write_atomic` | the agent's configuration files | `Integrate` |
| Receipts (`writ-receipts`, `receipt.rs`) | receipt file, anchor log | create, verify, prove, anchor | the ledger, Rekor | `Receipts` |
| Replay, console views, TUI, telemetry, WASM, CLI parsing | various | – | – | not modelled |

What is hard in this code:

* every `writ check` is a process of its own, so everything is shared through
  files; the ledger is read without a lock and written under one, and checks
  are made on a scan of it and acted on later;
* processes are killed by their agents, in the middle of a line too; a lock
  wait times out and leaves a thread behind; a database commits and the answer
  is lost; a connection is gone when the next call uses it;
* a human's answer races a deadline, and a hook that answers too late lets the
  tool run;
* the proxy matches responses to requests by ids that agents choose, over
  streams that break and are replayed;
* callers share one child process, and it may die under several of them;
* what the kernel can enforce differs between machines, and writ reports it;
* three interpreters of one policy must not differ.

`PROJECT.json` lists these hazards line by line.

What makes each part correct: a store keeps one unforked chain, never loses a
record whose append returned `Ok`, never adds one twice; a gateway dispatches
nothing and records nothing as run without authority on record, and shows
nothing of a redacted output; an approval queue fails closed, and in time; a
client strands no caller and retries nothing that may have been done; a
boundary is what its report says and leaves nothing behind; an integration
keeps what is not its own; a receipt accepts the ledger it was made over, with
what was appended since, and nothing else; the engines agree.

## Modules

### Ledger

`LedgerChain` – records, hashes and `verify_chain`. SHA-256 is an ideal
commitment (a hash *is* the tuple it is computed over); the fields no check of
the chain reads one by one are one opaque `body`.

`AppendOnlyLedger` – the abstract specification: what a `LedgerStore` promises.
A record is added at the tip, at most once per `record_*` call; a prefix is
durable; a power loss takes at most what is not.

`FileLedger` – the JSONL store. A process of `Writers` goes through
`open` (`OpenRead`, `TryLock`, `OpenRepair`) and then through calls of
`record_*` under `retry_append`: `Begin`, `ReadTip` (no lock), `TryLock` /
`Granted`, `CheckTip` (refresh, check, repair under the lock), `WriteLine` (any
prefix of the line can be seen by others), `SyncOk`. Faults are `LockTimeout`
with its orphaned helper thread (`OrphanGranted`, `OrphanReleases`), `IoError`,
`Crash`, `PowerLoss`. `Readers` run `verify_jsonl` without the lock. The file
is its complete lines and at most one unterminated chunk; `read_until` reads a
torn chunk in two steps, because the file may change between its two reads.

`SqlLedger` – both SQL stores: they go through the same steps and differ in
what can go wrong. `open` creates the schema under a lock (SQLite's write lock,
Postgres' advisory lock) and refuses a foreign database; `append` is a
transaction that locks (in Postgres the marker row), re-reads the tip, inserts
and commits, a statement being a step. Faults, bounded together: a server
restart, a kill, a failed commit, connect or lock wait, a commit whose answer
is lost, a row inserted by another tool. A scan pages by key with
`PAGE_SIZE` rows a query. The module implements `AppendOnlyLedger` as well.

### Gateways and clients

`HookGateway` – `writ check` processes over a shared ledger, an append being
one step (`FileLedger` refines that). A request is a `Start…` step, a scan
(`LocateRef`, `LocateCall`), which may fail, and an answer; other processes run in between.
Clients pass any ref they hold to any request, in any order. `Tick` is the
clock; `recorded_at` loses the part below a second, as its RFC 3339 form does.

`HookAgents` – one session of Codex, Gemini, Cursor or Windsurf. `PreDecide`
decides a call and each of its candidates, `PreAnswer` and `PreConsole` answer
by JSON, exit code and stderr as that agent takes them for blocking, `AgentActs`
is what the agent makes of the answer; `PostLocate` finds the decision again by
id or by looks, `PostRecord` records the execution and answers the output to be
shown. Either hook may be lost, and another hook may change the input before the
tool runs (`Altered`): the post hook is then asked about another input than the
pre hook decided. What a post hook compares is what the code compares: a tool's
name is the sequence of the parts between its hyphens, because Cursor's post hook
accepts a decided tool whose name ends, after a hyphen, the name of the one that
ran; `path` and `paths` are left out as `same_call` does, also where the agent sent
them; Codex's post hook compares the tool and `command`.

`UiApprovals` – what `AwaitConsole` of `HookGateway` abstracts: the request,
decision and heartbeat files, gateways that poll, consoles that are started,
answer, and are killed between the deadline check and the write.

`McpGateway` – the HTTP proxy. A connection thread accepts a request, has the
interceptor decide it, registers it in `Inflight`, and relays what the upstream
answers: as one body, as a stream that may break off and be resumed elsewhere,
or over the one shared connection of a legacy server (`Connect`, `Register`,
`Send`, `Deliver`, `Receive`). `Complete` records the execution, `Mask` answers.
`OpenGet`, `DeleteSession`, `Fallback`, `LinkDown` and `Stop` (the interceptor's
end) may come at any time. A Streamable server hands out sessions or does not;
agents without one have the empty session in common, and so one space of keys in
`Inflight` (`session_of`). On a GET only a response is looked up; whatever else is
sent or replayed there is relayed as it is. A job of the interceptor is one step: it serves one
at a time.

`SdkClient` – callers in one program, the client they share and its child
gateways. Every caller goes through decide, approver and resolve, the tool,
complete; the child may crash, answer garbage, time out or fail to start, the
client be closed, a task be cancelled. Python's threads and TypeScript's event
loop differ in where others may step in.

`PolicyEngines` – the native evaluation, and what the two code generators make
of the same policy, run by interpreters that are modelled by how they are used
(marked external): regorus' undefined and negation, Cedar's three-valued
errors, attributes that are not there. Each engine lowers letters in its own way,
the native one and Cedar in ASCII, regorus' `lower()` in Unicode; the texts have a
capital in ASCII, one outside it, and one outside it whose small letter is in ASCII
(the Kelvin sign). `reload` replaces the engine or leaves it.

### Boundaries and files

`KernelBoundary` – what a machine can enforce (Landlock ABI, seccomp,
AppContainer, firewall, Low integrity token), what the plan then reports, and
what a confined child can still write and open. That includes what writ neither grants
nor can take away on Windows: objects that grant ALL APPLICATION PACKAGES write
access (`appPackages`), LocalLow (`localLow`) and volumes without labels
(`noLabels`, and `onFat` for what of the run's own places lies on one). `Sandbox` – the batch backends
over it: `PrepareLocal`/`PrepareDocker`, `ExecStart`, polling with a timeout,
draining the pipes, teardown and drop, programs that fork and outlive their
leader, a daemon that does not confirm, an AppContainer that is prepared halfway.
`WritRun` – `writ run` from the launch decision to the execution record, with
signals and failures at every step, SIGKILL of writ (`KillWrit`) and a wait that
fails and drops its child (`DropUnwaited`) among them, and the labels that Windows
runs leave behind, set one after the other (`LabelsFirst`). `Integrate` – the read-merge-write of
an agent's configuration, beside other runs and the user's edits; a write is
truncate, write and rename of a temporary file; on Windows a command line that
would need quoting is refused (`OnWindows`). `Receipts` – Merkle roots and
inclusion paths as in the code, `create`, `verify`, `prove`, `anchor` as
commands that read the ledger while it is written, and an alteration of the
ledger or of the receipt.

### Proofs and model checking

The proofs of a module are in a module of their own: `AppendOnlyLedgerProofs`,
`FileLedgerProofs`, `SqlLedgerProofs`, `HookGatewayProofs` for `HookGateway` and
`HookAgents`, `McpGatewayProofs`, `ApprovalsProofs` for `UiApprovals` and
`SdkClient`, and `BoundaryProofs` for `WritRun`, `Sandbox` and `Integrate`;
`LedgerChainLemmas` has the lemmas on sequences and chains they share.
`MCFileLedger`, `MCSqlLedger`, `MCHookGateway`, `MCUiApprovals`,
`MCMcpGateway` add symmetry sets and constants. `MCPolicyEngines` enumerates
policies and calls. `MCGateway` (`HookGateway`, `PolicyEngines`), `MCApprovals`
(`UiApprovals`, `SdkClient`) and `MCComponents` (`Sandbox`, `WritRun`,
`HookAgents`, `Integrate`, `Receipts`) put modules that share no state into one run, each
explored on its own from the initial state that names it (`side`, `focus`); the
properties of a module range over its own variables, so the others cannot
weaken them. Most properties
are conjunctions of named parts, each stated and commented on its own in the
module; `CallsOnRecord`, for one, is `OnlyDecidedForwarded`, `OneExecution` and
`ExecutionAttributed`. Operators commented
`Mutant:` are wrong versions of the definition that follows them: with one in
its place, the property named in `PROJECT.json` fails.

How the modules compose: `FileLedger` and `SqlLedger` implement
`AppendOnlyLedger`, which is what the gateways' "an append is one step" relies
on; `UiApprovals` is the detail of one action of `HookGateway`, and
`HookGateway` the detail of a child of `SdkClient`; `Sandbox` and `WritRun`
build on `KernelBoundary`.

## Runs

| Run | Question | Bounds |
|---|---|---|
| `ledger_faults` | Is the file one chain, are acknowledged records kept, does the store implement `AppendOnlyLedger`, whatever interleaves and fails? | 2 writers, 2 calls each, 1 retry, 1 kill, 1 power loss, 1 I/O error, 1 lock timeout |
| `ledger_readers` | Without crashes, does a reader ever report a line being written as corruption? Does every call return? | 2 writers, 1 verifier, 1 lock timeout; fairness |
| `ledger_repair` | The same with a killed writer: **violated** | 1 kill |
| `sql_ledgers` | One chain, no call twice, errors that say what happened, the schema created once, complete scans, and `AppendOnlyLedger` implemented, in either database? | 2 writers, 1 call each, 1 scan, 1 retry, pages of 1 row, 2 faults of any kind; SQLite, and Postgres with repeatable reads by default |
| `gateway` | Is every dispatch and every execution authorised by someone who really approved it; are timeouts never late, redacted outputs masked? Do the three engines agree, also after failed reloads? | at once: 2 processes in `deny`, `defer` or `ui` mode, 1 decision; in turn: `defer`, 2 decisions of one call, 3 records, 3 instants in 2 seconds; about 1300 policies of up to 2 rules, 24 calls, 2 reloads |
| `gateway_double` | Two completes at a time: **violated** | 2 processes |
| `approvals_races` | Are approvals in time, is an answer honoured, does a vanished console end the wait, does a hook of Claude Code answer within the wait for the lock and the cap? Is no SDK caller stranded, nothing retried, nothing run or returned without its record? | 1 ask, 2 consoles, 4 instants; five programs of 2 callers, 1–2 faults, 1 restart, `TrackCap` 1 |
| `approvals_cap` | The hook's answer when recording waited for the lock: **violated** | 1 console, lock wait of 2 |
| `mcp_http` | Is every call through the proxy decided and recorded once and rightly, is every answer its own request's, is nothing of a redacted call unmasked? | 2 connections, 2 agents, 2 ids, 2 requests, 2 links, both kinds of server; inflight cap 1 where agents have sessions, 2 where they share one |
| `mcp_legacy` | The last question when two agents of a legacy server use one id: **violated** | 2 agents, 1 id |
| `components` | Is a sandbox what its report says, and over when it has answered (`SandboxSafe`, `OwnProfileKept`)? Is the boundary of `writ run` as announced and its end accounted for (`BoundarySafe`, `LaunchAccounted`)? Does no blocked call of the other agents run, and does a post hook record and mask its own call (`BlockedNeverRuns`, `PostHooksRight`)? Does `writ integrate` lose no edit it has read and write where the agent looks (`ConfigKept`), and leave other hooks as they were and its own once (`HooksKept`)? Do receipts, proofs and anchors accept exactly what was signed (`ReceiptsExact`)? | 2 sandboxes, 2 execs, 7 machines; 12 command lines, 4 machines, 2 runs at a time on Windows, the first with its temporary directory in the folder granted to the second; 8 calls of 4 agents, 2 in a session (a call with an id alone), 1 changed input, 3 ask modes; 3 runs and 1 edit, 5 agents; ledgers of up to 3 records, 3 commands of 2 processes, 1 alteration |
| `policy_nested` | Do the engines agree on a `not` inside a `not`: **violated** | 32 policies, 24 calls |

Why the bounds are enough. In the ledgers a conflict needs two writers and a
record overtaken once; two calls each let a writer meet its own earlier record
and the other's, one retry separates "retried" from "given up", and one fault
of every kind meets each of them in any order (they combine in one run). A page
of one row puts every record on a page boundary. Read committed differs from
repeatable reads only in the marker an opening process sees, and then it sees
what SQLite shows. In the gateway all conflicts
are between two requests about one decision; two decisions of one call id are
the case `PostToolUse` could confuse. In the approval queue asks only meet
through the clock and the heartbeat; two consoles can overwrite each other's
answer. The times keep the order of the real ones (heartbeat < staleness ≤ cap
< hook timeout ≤ default timeout, and cap + lock wait > hook timeout in
`approvals_cap`). In the
proxy two requests are enough for one to take the other's entry, id, stream or
place under the cap, and two links for a reply on the old one. A client of two
callers has one whose request is in flight when the other's fails. Two
sandboxes are one to be confused with the other; two calls that look alike are
what correlation by looks can confuse, and one changed input makes a call look
like another; a call with an id is found by it alone. Merkle trees of up to three leaves have
balanced and unbalanced splits, odd and lone leaves. Policies combine every
operator, with operands that set the interpreters apart (a missing field, `*`,
case, an empty list, a pattern over the size cap), under `not`, `and` and `or`.

Deadlock is not checked where all calls being done is the normal end;
`ledger_readers` checks it, its verifier can always run.

Fairness (`FileLedger!FairSpec`): a process that is inside a call takes its
next step, and helper threads run: the operating system schedules runnable
threads. Nobody has to open the ledger, start a call or verify. Lock waits end
because holders release, not because `flock` is fair: weak fairness on the
waiter is enough here because the other process makes a bounded number of calls.
`prompt` in `UiApprovals` is a history variable, not an assumption: the two
properties about time are stated for behaviours in which the gateway was
scheduled in every clock unit. No other run assumes fairness; what they say of
"nobody is stranded" or "nothing is left behind" is said of states in which
nothing more is coming.

## What the violations show

1. `ledger_repair`: `read_until` needs a second `read` to see end of file after
   a torn tail. If that tail is a dead writer's, another process may truncate
   it and append in between; the reader then sees old bytes joined to a new
   line and reports corruption. The comment of `record_iter` says it cannot.
   The file itself is intact (`ledger_faults`), and so is the next read.
2. `gateway_double`: `complete` checks that a decision has no execution on an
   unlocked scan; two concurrent completes both pass and both append.
3. `approvals_cap`: the 55 s cap bounds the wait, not the hook. A decision that
   waited for the ledger's lock (up to 10 s) first is answered after 60 s.
4. `mcp_legacy`: behind a legacy HTTP+SSE server the proxy knows its requests
   by the agents' JSON-RPC ids alone. When two agents use one id, the response
   to one's redacted call is recorded as the other's and shown unmasked. The
   same happens behind a Streamable server that hands out no sessions
   (`session_of` in `gateway.rs` gives such agents `""`): the answers reach their
   askers there, but the second call has taken the first one's entry.
5. `policy_nested`: the Rego code generator takes a helper rule's name before
   it generates the operand, so a `not` in the operand of a `not` takes the
   same name and the helper depends on itself. The model takes regorus to fail
   the evaluation then, which writ turns into a denial; were the recursion
   refused when the policy is loaded, or read as undefined, the verdicts would
   differ from the native engine's as well.

Seen while modelling and not stated as a violated property, because no document
decides it or a property already makes the exception. In the first four the
documentation says otherwise, and the exception is what the code makes of it:

* A post hook of Cursor's for an MCP tool takes the newest open decision with
  these params on any tool whose name, after a hyphen, ends the one that ran;
  Gemini's takes one whose `path` or `paths` differ
  (`docs/integrations/cursor.md:60-62`, `gemini.md:59-61`: the same tool, server,
  args). The lookalikes of `OwnDecisionFound`.
* Codex's post hook compares no input but `command`, so the output of another tool
  whose input was changed after the decision is let through
  (`docs/integrations/codex.md:62-65` has it withheld).
* Rego's `lower()` also makes a capital outside ASCII match an entry in ASCII, the
  Kelvin sign `k` (`writ-policy-rego/src/lib.rs:38-39`: observable only for entries
  outside ASCII). `LoweredApart` of `VerdictsAgree`.
* A notification of a redacted call that is replayed on a resumed stream is not
  masked: the GET has no call (`docs/mcp-http.md:74` masks those of the stream of
  the call). `OnGet` of `RedactedNeverShown`.

* `resolve` leaves no trace, so a rejected ref can be resolved again.
* Until the gateway's next poll a second answer in the console replaces the
  first, also an acknowledged denial by an approval; a request left by a killed
  gateway stays in `pending/`, answerable until its deadline.
* The proxy forgets calls that its inflight cap evicts or whose session was
  deleted; a late response to one passes unmasked (`RedactedNeverShown` of
  `McpGateway` excepts them). The hooks of the TypeScript client have the same
  exception under `MAX_TRACKED`; and the exception a redacted tool raises
  reaches the program with its text.
* The Python client's next caller closes a crashed child, so callers that wait
  on it may get `WritClosed` where `WritGatewayCrashed` is documented.
* The receipts' reader of the ledger reads on after a torn tail, and may call a
  line that is just being completed unreadable; `create` may sign a record that
  is not yet synced; concurrent `anchor` and `create` can lose each other's
  update of the receipt; a killed `anchor` leaves part of a line, to which the
  next is joined.
* `x in [...]` over a field outside the vocabulary runs into an `unreachable!`
  of the Rego code generator when the policy is loaded (`ReloadPanics`).

## What is proved

Every theorem is for any value of the constants: any number of processes,
calls, retries, faults, instants, and any of the modelled machines, policies of
wait, command lines. All are safety properties: `Spec => []Inv`,
`Spec => [][A]_vars`, or a refinement. In each module one inductive invariant,
or one that stands on another, carries the theorems; it was checked by TLC on a
small instance first.

| Theorems | State | From |
|---|---|---|
| `LedgerIntact`, `DurablePrefixKept` | the abstract ledger verifies; what is durable keeps its place and content | – |
| `TypeCorrect`, `ChainNeverForks`, `AcknowledgedStays`, `LinesUndisturbed` | `TypeOK`, `ChainIntact`, `AckedKept`, `LineUndisturbed` of `FileLedger` | `Ind` |
| `HandlesStayOnChain`, `RefreshNeverRejects` | `HandleOnChain`; a refresh never finds a broken link | `HandleInd` |
| `LostRacesAreProgress` | `RacesAreProgress` of `FileLedger` | `RaceInd` |
| `NoFalseAlarm` | `NoFalseCorruption` of `FileLedger`, when nothing is killed or fails (`NoKills`) | `ReaderInd` |
| `StoreImplementsLedger` | `FileLedger` implements `AppendOnlyLedger` | `CallInd` |
| `RowsChain`, `SchemaSafe`, `ReportsTrue` | `SqlChainIntact`, `SchemaOK`, `ReportsHonest` of `SqlLedger` | `SqlInd` |
| `SqlImplementsLedger` | `SqlLedger` implements `AppendOnlyLedger` | `SqlInd` |
| `GatewayTypeCorrect`, `ExecutionsJustified`, `DispatchesJustified`, `TimeoutsNeverLate`, `RedactedStaysMasked` | the five invariants of `HookGateway` | `GatewayInd` |
| `BlockedCallsStayBlocked`, `PostHooksStayRight` | `BlockedNeverRuns`, `PostHooksRight` of `HookAgents` | `HookInd` |
| `ApprovalsTypeCorrect`, `ApprovalsInTime`, `ConsoleLossDenies`, `HookAnswersInTime`, `AnswersDecide` | the four invariants of `UiApprovals`, and `AnswerDecidesWait` | `ApprovalsInd` |
| `NobodyIsStranded` | `NobodyStranded` of `SdkClient` | `ClientInd` |
| `CallsRunOnRecord` | `RunsOnRecord` of `SdkClient` | `ClientInd`, `RecordInd` |
| `ClientStaysInOrder` | `ClientOK` of `SdkClient` | `ClientInd` with `ChildrenOK`, `AssignedOK`, `SpawnsOK` |
| `BookInOrder`, `DecidedAndRecordedOnce` | `InflightOK`; only allowed calls are forwarded, and executed once (`McpGateway`) | `ProxyInd` |
| `RecordsAttributed`, `AnswersReachTheirAsker`, `RedactedStaysRedacted` | `CallsOnRecord`, `AnswersOwn`, `RedactedNeverShown` | `OwnInd` |
| `LaunchesAccounted`, `BoundariesHold` | `LaunchAccounted`, `BoundarySafe` of `WritRun` | `RunInd` |
| `SandboxesSafe`, `ProfilesKept` | `SandboxSafe`, `OwnProfileKept` of `Sandbox` | `SandboxInd` |
| `ConfigStaysKept` | `ConfigKept` of `Integrate` | `ConfigInd` |

Why the invariants are what they are:

* `FileLedger`. `ChainIntact` alone is not inductive: a write is safe only
  because the record was checked against the tip on disk *and nobody wrote
  since*. So `Ind` adds that whoever is between the check and the unlock holds
  the lock (`LockHeld`), that a record under construction is well-formed
  (`RecBuilt`), that while a process writes, its record extends the complete
  lines and the tail is its own (`Writing`), and that after the write that
  record is the last line (`Syncing`). Two processes cannot both be there, so
  every other action leaves the file alone or is itself the lock holder's.
  `HandleInd` adds what a handle remembers, and that who has refreshed under
  the lock is at the tip; `CallInd`, that no record of a call that has not
  written yet can be read, so that a write that becomes visible is the one
  append of its call.
  `RaceInd` counts: a record that waits to be checked extends what its handle
  has consumed, and what lies behind is other processes', so a check that fails
  has met a record that the count did not have yet. `ReaderInd` has the
  hypothesis `NoKills`. Then an unterminated line belongs to a process that is
  writing it (`TailOwned`), and a torn chunk that somebody has read is still
  there, torn or complete, when it reads on (`ChunkStands`). A killed writer's
  tail may be truncated in between: that is `ledger_repair`, so the theorem
  cannot do without the hypothesis.
* `SqlLedger`. `WritersOK` says that the append lock is held from the reading of
  the tip to the commit, that the record that waits extends that tip, and that a
  call that has not committed has no row: hence no call twice, and an error that
  says "not appended" is true. `ScansOK` says that what a scan has fetched is a
  prefix of the rows. Restarts, kills and lost answers end connections, and with
  them locks and transactions.
* `HookGateway`. A gateway checks on a scan and appends later. What makes this
  safe is that the ledger only grows: a record that was located is still there
  and an approval that was given stays given (`Grows`, `ProcsOK`). `ConsoleSaid`
  says that a decision file answers a request that was asked; `AnswersOK`, that
  every answer sent is backed by the ledger. What growth does not keep is the
  *absence* of an execution, and so `OneExecutionPerDecision` fails
  (`gateway_double`).
* `HookAgents`. The pre and the post hook of a call are two processes that share
  only the ledger. `HookInd` says of each record what it is about (`TrailOK`) and
  who is named in it (`NamedOK`), of each call how far it is and what that leaves
  on record (`TurnOK`), which decision a post hook has found (`FoundOK`) and what
  is masked (`MaskedOK`). `StrictestFacts` is why one verdict can stand for all
  candidates of a call.
* `UiApprovals`. `AsksOK` bounds the gateway's clocks by one another,
  `HandlersOK` says what a console has read before it writes, `PromptOK` how far
  time can have gone when the gateway was always scheduled.
  `HookAnswersInTime` has no hypothesis on the numbers: a hook that is scheduled
  answers within `LockWait + CLAUDE_CODE_CAP` of its start, whatever the rule's
  timeout. With the numbers in the code that sum, 65 s, is past the 60 s after
  which Claude Code lets the tool run, which is what `approvals_cap` shows.
* `SdkClient`. `ClientInd` makes the callers and the tables of the children
  agree (`TablesOK`): who waits is in the table of a child that was not given
  up, who is in a table waits for that child or was cancelled, and TypeScript
  has no child that is not given up but its current one. Each step of the client
  is shown to set, for one caller or for a whole table, what the two sides need
  (`Stepped`, `AllFailed`), and to send and deliver at most one line
  (`ClientMoves`). `RecordInd` stands on it. `LinesOK` says that a decision is
  asked for by one line over all children, dead ones included, and is not on the
  ledger while that line is unread: hence no second Decision. `AnswersOK` says
  that every answer, in a pipe or with its caller, is backed by the ledger and
  the policy. `CallOK` says at each step of a call what is on record, and what
  the hooks' maps can hold; an entry that makes room takes that knowledge with
  it and leaves `evicted`, the exception `RunsOnRecord` makes.
  For `ClientOK`, `ChildrenOK` says that the current child is the last one
  started and the only one that serves, and what `close` leaves of it;
  `AssignedOK`, that callers only know children there have been; `SpawnsOK`, that
  the starts that are remembered are one more than the restarts at most.
* `McpGateway`. `ProxyInd` knows that `Inflight`'s map and queue hold the same
  keys (`BookOK`), which step of a thread implies which record (`ThreadsOK`,
  `RecordsOK`), and that a call under way has no execution yet (`OnceOK`). For
  attribution, `OwnInd` adds that a key is one request's if no other request has
  its session and id (`Alone`), and that what a waiter is given is the answer to
  its own. No hypothesis is left: `CallsOnRecord`, `RedactedNeverShown` and, over
  the one stream of a legacy server, `AnswersOwn` speak of the calls that the
  proxy can tell apart; `mcp_legacy` shows what happens to the others.
* `WritRun`. `RunInd` is one conjunct per concern of a run: what is typed at
  each step, what binds the child (`RunBound`), what is left at the ends
  (`RunEnds`) and what the ledger has (`RunLogged`). Runs meet in the ledger,
  which grows (`Growth`), and in the labels, which only grow as well. The lemmas
  `Planned` and `PowerFields` say, for each operating system, what a plan
  enforces and what power it leaves the child. `BoundariesHold` makes the
  exceptions the threat model names (`Residue`: volumes without labels, LocalLow)
  and proves that none of the granted places is on such a volume;
  `LaunchesAccounted` those of a writ on Unix that is killed outright or drops its
  child: then the agent runs on.
* `Sandbox`. `SandboxInd` ties each box to what its host can enforce (`BoxOK`),
  each process to the box it was started in (`ProcOK`), and each exec to the
  processes that may outlive its leader (`CallOK`, `AnswerOK`); ids are unique.
  What an enforced AppContainer may write besides its own is `AppContainerResidue`
  and nothing more; the ACE a sandbox leaves on its workspace is nobody's when the
  sandbox is gone, because on Windows its processes are gone too.
* `Integrate`. A run reads, merges and renames without a lock. `ConfigInd` says
  that what is about to be renamed over a file has the edits that were read
  (`ScratchOK`), and that a run that chose Windsurf's legacy file did so when the
  current one was not there (`LegacyOK`).

Assumptions. The constants' `ASSUME`s say that bounds are naturals, that sets
of formats, backends and modes are subsets of those in the code, that the
durations that count are positive, and that the values that stand for
"nobody", "none" or "no machine" are none of the real ones, that an agent's
calls have the shape its hooks send (one candidate at most under `path` or a key
of its own; of Cursor's calls the MCP ones name a server), and that a project starts with texts of
the kinds `writ integrate` tells apart. TLC evaluates them
in every run. Besides, hashes are ideal (`LedgerChain`).

Only model-checked:

* `CallsReturn` of `FileLedger`: liveness under fairness is outside what TLAPS
  proves here;
* `NoFalseCorruption` is proved under `NoKills` only, because with a kill it is
  false: `ledger_repair` shows it of a reader, and with three calls per process
  it happens to the unlocked reads of `open` and `tip` as well. That no link is
  ever found broken is `RefreshNeverRejects`, with kills too;
* `EnginesAgree` and the verdicts, `ReceiptsExact`: expressions
  and Merkle trees are RECURSIVE operators, which the provers cannot unfold;
* `HooksKept` of `Integrate`: what is left of a list of hooks is a filter of
  filters, and a statement about its elements, their order and their number is
  one by induction over the list.

## Not modelled

* The DSL's parser and the YAML around it: whether a source compiles is a
  property of the source here. Masking by regular expressions: an output is
  masked or not.
* Payload formats, tool-name tables (`cc_call`, `map_claude_tool`, the adapters'
  maps), exit codes other than the hooks', the text of answers.
* Of the MCP proxy: the stdio transport, which is one client and one server in
  turn; the buffer in which a legacy server's own messages wait for a GET, and that
  one GET at a time has them; the statuses of a GET that fails. An error that a
  call answers with has no result to mask and is relayed as it is.
* On Windows: what brokers outside the sandbox (COM, RPC) do for a Low process,
  labels on SMB shares, and a crash of a batch process between `prepare` and
  `teardown`.
* What a tool does with arguments that writ's mapping does not name, and a tool of
  Cursor's that is not an MCP tool and is called like one.
* Of the adapters: the LangGraph and OpenAI wrappers, which pass a tool to the
  guard that is modelled; the search for the binary; `respawn: false`.
* Of receipts: `keygen`, the checks of the Rekor log's own signatures, times.
* Replay, which is one pass over a ledger at rest; console views, the policy
  editor and the web server; the TUI and its prompt; telemetry; the WASM build
  and benchmarks; argument parsing.
* Calendar arithmetic, and a wall clock that runs backwards: the gateway's and
  the console's clocks are one and monotone here.
* A file system that reorders writes within one file: `PowerLoss` keeps some
  prefix of what was written since the last sync.

## What could be proved next

`HooksKept` of `Integrate`, after lemmas on `SelectSeq` and `FlattenSeq`. Their
definitions are recursive over the list, and the library's induction theorems
take an operator, so each lemma would need the set of lengths at which it fails
and its least element written out.
