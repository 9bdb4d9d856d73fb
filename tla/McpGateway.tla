----------------------------- MODULE McpGateway -----------------------------
(***************************************************************************)
(* `writ proxy --mcp --transport http' (crates/writ-mcp/src/http): one     *)
(* thread per agent connection, one interceptor thread that decides,       *)
(* records and masks, and the upstream MCP server behind them.             *)
(*                                                                         *)
(* A request is its number in reqs.  What the agents and the upstream send *)
(* is abstract; what matters is which request a response answers, which    *)
(* call the gateway takes it for, and whether it was masked.  A job for    *)
(* the interceptor is one step of the thread that waits for it: the        *)
(* interceptor serves one job at a time.                                   *)
(*                                                                         *)
(* The upstream speaks Streamable HTTP, or the 2024-11-05 HTTP+SSE         *)
(* transport, over which every request of the proxy shares one session and *)
(* one stream.  An agent sends the Mcp-Session-Id that the upstream gave    *)
(* it, and none if it gave none, as a legacy upstream does and a Streamable *)
(* one may.                                                                *)
(***************************************************************************)
EXTENDS Integers, Sequences, FiniteSets, SequencesExt

CONSTANTS
    Conns,       \* connection threads
    Agents,
    Ids,         \* JSON-RPC ids; an agent never uses one twice
    NoSession,   \* no agent, and no Mcp-Session-Id header
    Requests,    \* what agents send and how they take the reply: a tools/call or a
                 \* tools/list; "sse", "json", or as part of a "batch"
    Servers,     \* the transports the upstream may speak
    InflightCaps,\* INFLIGHT_CAP, the values tried
    MaxReqs,     \* bound: requests
    MaxLinks     \* bound: legacy SSE connections opened

ASSUME McpAssumption ==
    /\ NoSession \notin Agents /\ Requests \subseteq {"call", "list"} \X {"sse", "json", "batch"}
    /\ Servers \subseteq {"streamable", "legacy"}
    /\ InflightCaps \subseteq Nat \ {0} /\ MaxReqs \in Nat /\ MaxLinks \in Nat

VARIABLES
    cap,         \* INFLIGHT_CAP
    server,      \* the transport the upstream speaks
    sessions,    \* the agents it gives an Mcp-Session-Id: all, or none
    mode,        \* AutoUpstream.mode; the forced transports skip "unknown"
    running,     \* the interceptor's loop is running
    reqs,        \* the requests: agent, id, kind, how it is read, verdict
    thread,      \* what each connection thread is doing
    inflight,    \* Inflight.map: (session, id) -> call, done
    order,       \* Inflight.order
    link,        \* legacy: the SSE connections, newest last
    pending,     \* legacy: LegacyConn.pending
    work,        \* requests the upstream has got, and on which connection
    replayable,  \* requests answered by a stream the agent may resume
    executions,  \* the Execution records
    shown,       \* what an agent was last shown
    evicted      \* calls whose inflight entry went with the cap or the session

vars == <<cap, server, sessions, mode, running, reqs, thread, inflight, order, link, pending,
          work, replayable, executions, shown, evicted>>
configVars == <<cap, server, sessions>>
upstreamVars == <<mode, link, pending, work>>
recordVars == <<executions, shown, evicted>>

Idle == [pc |-> "idle", req |-> 0, agent |-> NoSession, got |-> 0, note |-> FALSE,
         by |-> 0, gen |-> 0]

\* should_dispatch
Forwarded(n) == reqs[n].verdict \in {"allow", "redact"}

\* The thread waits for a request on its connection.
Free(c) == thread[c].pc = "idle"

\* An element of a batch is handled as a POST of its own; its reply, like that
\* to an agent that does not accept a stream, is collapsed into one body.
Batched(n) == reqs[n].reads = "batch"
Collapsed(n) == reqs[n].reads # "sse"

\* The Mcp-Session-Id header, or none: agents without one share a session.
session_of(a) == IF a \in sessions THEN a ELSE NoSession
Key(n) == <<session_of(reqs[n].agent), reqs[n].id>>

\* No other request has the key of n.
Alone(n) == \A m \in DOMAIN reqs : Key(m) = Key(n) => m = n

Gen == Cardinality({g \in 1..MaxLinks : link[g] # "none"})

NothingShown == [to |-> NoSession, for |-> 0, origin |-> 0, note |-> FALSE, masked |-> TRUE]

\* What was shown is an event of a GET stream other than a response.
OnGet == shown.note /\ shown.for = 0

Init ==
    /\ cap \in InflightCaps
    /\ server \in Servers /\ mode = "unknown"
    /\ sessions \in {{}, Agents} /\ (server = "legacy" => sessions = {})
    /\ running = TRUE
    /\ reqs = <<>> /\ thread = [c \in Conns |-> Idle]
    /\ inflight = <<>> /\ order = <<>>
    /\ link = [g \in 1..MaxLinks |-> "none"] /\ pending = {}
    /\ work = {} /\ replayable = {}
    /\ executions = {} /\ shown = NothingShown /\ evicted = {}

\* The one response to thread c's request: a refusal or an error of writ's own.
Done(c) == thread' = [thread EXCEPT ![c] = Idle]
-----------------------------------------------------------------------------
(***************************************************************************)
(* handle, post: a request comes in, and a tools/call is decided           *)
(***************************************************************************)
Accept(c) ==
    /\ Free(c) /\ Len(reqs) < MaxReqs
    /\ \E a \in Agents, i \in Ids, r \in Requests :
          /\ \A n \in DOMAIN reqs : reqs[n].id = i => reqs[n].agent # a
          /\ reqs' = Append(reqs, [agent |-> a, id |-> i, kind |-> r[1], reads |-> r[2],
                                   verdict |-> "none"])
          /\ thread' = [thread EXCEPT ![c] = [Idle EXCEPT
                !.pc = IF r[1] = "call" THEN "intercept" ELSE "post",
                !.req = Len(reqs) + 1, !.agent = a]]
    /\ UNCHANGED <<configVars, running, inflight, order, replayable, upstreamVars,
                   recordVars>>

\* handle_call with the fail-closed approver: a denial, an ask and a ledger
\* that fails are refusals.
Verdicts == {"allow", "redact", "refuse"}

\* The interceptor decides; a stopped interceptor's callers refuse.
Intercept(c) ==
    /\ thread[c].pc = "intercept"
    /\ \E v \in IF running THEN Verdicts ELSE {"refuse"} :
          /\ reqs' = [reqs EXCEPT ![thread[c].req].verdict = v]
          /\ thread' = [thread EXCEPT ![c] =
                IF v \in {"allow", "redact"} THEN [@ EXCEPT !.pc = "insert"] ELSE Idle]
    /\ UNCHANGED <<configVars, running, inflight, order, replayable, upstreamVars,
                   recordVars>>

\* VecDeque::retain: the elements in keep, in their order.
Retain(s, keep) ==
    LET kept   == {j \in DOMAIN s : s[j] \in keep}
        Nth(i) == CHOOSE j \in kept : Cardinality(kept \cap (1..j)) = i
    IN  [i \in 1..Cardinality(kept) |-> s[Nth(i)]]

\* Mutant: the queue keeps the key.
RemoveKeyOnlyMap(key) ==
    /\ inflight' = [k \in DOMAIN inflight \ {key} |-> inflight[k]]
    /\ UNCHANGED order

\* Inflight::remove
RemoveKey(key) ==
    /\ inflight' = [k \in DOMAIN inflight \ {key} |-> inflight[k]]
    /\ order' = Retain(order, Range(order) \ {key})

\* Inflight::insert replaces the entry of a key that is there, and evicts the
\* oldest keys past the cap.
Insert(c) ==
    LET n     == thread[c].req
        queue == IF Key(n) \in DOMAIN inflight THEN order ELSE Append(order, Key(n))
        drop  == IF Len(queue) > cap THEN Len(queue) - cap ELSE 0
        kept  == SubSeq(queue, drop + 1, Len(queue))
        gone  == {queue[j] : j \in 1..drop}
    IN  /\ thread[c].pc = "insert"
        /\ order' = kept
        /\ inflight' = [k \in Range(kept) |->
                          IF k = Key(n) THEN [call |-> n, done |-> FALSE] ELSE inflight[k]]
        /\ evicted' = evicted \cup {inflight[k].call : k \in gone \cap DOMAIN inflight}
                              \cup (IF Key(n) \in gone THEN {n} ELSE {})
        /\ thread' = [thread EXCEPT ![c].pc = "post"]
        /\ UNCHANGED <<configVars, running, reqs, replayable, upstreamVars, executions,
                       shown>>

\* upstream.post failed: a call's entry is removed, except in a batch, and the
\* agent gets -32044.
FailPost(c) ==
    LET n == thread[c].req IN
    /\ IF reqs[n].kind = "call" /\ ~Batched(n)
       THEN RemoveKey(Key(n)) ELSE UNCHANGED <<inflight, order>>
    /\ Done(c)
-----------------------------------------------------------------------------
(***************************************************************************)
(* StreamableUpstream                                                      *)
(***************************************************************************)
Streamable == server = "streamable"

\* Connecting, TLS or the wait for the headers failed: the upstream may have
\* got the request all the same, and is taken to have.
StreamableFails(c) ==
    /\ Streamable /\ thread[c].pc = "post"
    /\ work' = work \cup {<<thread[c].req, 0>>}
    /\ FailPost(c)
    /\ UNCHANGED <<configVars, mode, running, reqs, link, pending, replayable, recordVars>>

\* A complete body: the JSON-RPC response, or one that cannot be parsed, which
\* rewrite_full withholds from a tools/call.
StreamableFull(c) ==
    /\ Streamable /\ thread[c].pc = "post"
    /\ work' = work \cup {<<thread[c].req, 0>>}
    /\ mode' = "streamable"
    /\ \/ thread' = [thread EXCEPT ![c].pc = "sight", ![c].got = thread[c].req]
       \/ Done(c)
    /\ UNCHANGED <<configVars, running, reqs, inflight, order, link, pending, replayable,
                   recordVars>>

\* An event stream, which the upstream may replay from now on.
StreamableStream(c) ==
    /\ Streamable /\ thread[c].pc = "post"
    /\ work' = work \cup {<<thread[c].req, 0>>}
    /\ mode' = "streamable"
    /\ replayable' = replayable \cup {thread[c].req}
    /\ thread' = [thread EXCEPT ![c].pc = "stream"]
    /\ UNCHANGED <<configVars, running, reqs, inflight, order, link, pending, recordVars>>

\* process_event: the response, or a notification or request of the server's,
\* which is masked for a call.  An event that cannot be parsed is dropped.
StreamEvent(c) ==
    /\ thread[c].pc = "stream"
    /\ \/ thread' = [thread EXCEPT ![c].pc = "sight", ![c].got = thread[c].req]
       \/ /\ reqs[thread[c].req].kind = "call"
          /\ thread' = [thread EXCEPT ![c].pc = "mask", ![c].got = thread[c].req,
                                      ![c].note = TRUE, ![c].by = thread[c].req]
    /\ UNCHANGED <<configVars, running, reqs, inflight, order, replayable, upstreamVars,
                   recordVars>>

\* relay, collapse: the stream breaks or ends without the response, or the
\* agent goes away; it may ask for the rest with Last-Event-ID.
StreamEnds(c) ==
    /\ thread[c].pc = "stream"
    /\ Done(c)
    /\ UNCHANGED <<configVars, running, reqs, inflight, order, replayable, upstreamVars,
                   recordVars>>

\* GET: the server stream, on which a Streamable upstream replays what it sent
\* on the stream of a POST, and a legacy one sends what is no response.  Only a
\* response is looked up: the GET has no call, so a notification, a request of
\* the server's or an event that cannot be parsed is relayed as it is.  A
\* legacy upstream lets one GET at a time take its messages: here, each goes to
\* some agent.  An upstream that fails (502), refuses or is taken (409) shows
\* nothing.
OpenGet(c) ==
    /\ Free(c)
    /\ \E a \in Agents, n \in DOMAIN reqs :
          \/ /\ n \in replayable /\ reqs[n].agent = a
             /\ thread' = [thread EXCEPT ![c] = [Idle EXCEPT
                              !.pc = "sight", !.agent = a, !.got = n]]
             /\ UNCHANGED shown
          \/ /\ \/ n \in replayable /\ reqs[n].agent = a
                \/ \E g \in 1..MaxLinks : <<n, g>> \in work /\ link[g] # "none"
             /\ shown' = [to |-> a, for |-> 0, origin |-> n, note |-> TRUE, masked |-> FALSE]
             /\ UNCHANGED thread
    /\ UNCHANGED <<configVars, running, reqs, inflight, order, replayable, upstreamVars,
                   executions, evicted>>

\* DELETE, also while calls of the session are under way: drop_session, if the
\* upstream agrees.  A legacy upstream says 405.
DeleteSession(c) ==
    /\ Streamable /\ Free(c)
    /\ \E a \in Agents :
          LET dropped == {k \in DOMAIN inflight : k[1] = session_of(a)} IN
          /\ inflight' = [k \in DOMAIN inflight \ dropped |-> inflight[k]]
          /\ order' = Retain(order, Range(order) \ dropped)
          /\ evicted' = evicted \cup {inflight[k].call : k \in dropped}
    /\ UNCHANGED <<configVars, running, reqs, thread, replayable, upstreamVars, executions,
                   shown>>
-----------------------------------------------------------------------------
(***************************************************************************)
(* LegacySseUpstream                                                       *)
(***************************************************************************)
Legacy == server = "legacy"

\* AutoUpstream: the POST gets 400, 404 or 405 and no JSON-RPC error, so the
\* legacy transport is tried; if that fails too the reply is relayed.
Fallback(c) ==
    /\ Legacy /\ mode = "unknown" /\ thread[c].pc = "post"
    /\ \/ /\ mode' = "legacy" /\ UNCHANGED thread
       \/ /\ UNCHANGED mode /\ Done(c)
    /\ UNCHANGED <<configVars, running, reqs, inflight, order, link, pending, work,
                   replayable, recordVars>>

\* connect: the live connection, or a new one.
Connect(c) ==
    /\ Legacy /\ mode = "legacy" /\ thread[c].pc = "post"
    /\ \/ /\ \E g \in 1..MaxLinks : link[g] = "up"
          /\ thread' = [thread EXCEPT ![c].pc = "register", ![c].gen = Gen]
          /\ UNCHANGED <<link, inflight, order>>
       \/ /\ \A g \in 1..MaxLinks : link[g] # "up"
          /\ \/ /\ Gen < MaxLinks
                /\ link' = [link EXCEPT ![Gen + 1] = "up"]
                /\ thread' = [thread EXCEPT ![c].pc = "register", ![c].gen = Gen + 1]
                /\ UNCHANGED <<inflight, order>>
             \/ FailPost(c) /\ UNCHANGED link
    /\ UNCHANGED <<configVars, mode, running, reqs, pending, work, replayable, recordVars>>

\* Mutant: a response is for whoever waits.
WaitersAny(gen, id) == {w \in pending : w.gen = gen}

\* The waiters registered under (gen, id); HashMap::insert and remove know
\* no more of a waiter than that.
Waiters(gen, id) == {w \in pending : w.gen = gen /\ w.id = id}

Register(c) ==
    LET id == reqs[thread[c].req].id
        me == [gen |-> thread[c].gen, id |-> id, conn |-> c]
    IN  /\ thread[c].pc = "register"
        /\ pending' = (pending \ Waiters(thread[c].gen, id)) \cup {me}
        /\ thread' = [thread EXCEPT ![c].pc = "send"]
        /\ UNCHANGED <<configVars, mode, running, reqs, inflight, order, link, work,
                       replayable, recordVars>>

\* The POST of the message itself is accepted; or it fails; or it gets a status
\* that is no success, whose body is relayed, and looked at if it is a response.
\* The upstream may have got a request that failed.
Send(c) ==
    LET n == thread[c].req IN
    /\ thread[c].pc = "send"
    /\ \/ /\ work' = work \cup {<<n, thread[c].gen>>}
          /\ thread' = [thread EXCEPT ![c].pc = "wait"]
          /\ UNCHANGED <<pending, inflight, order>>
       \/ /\ work' \in {work, work \cup {<<n, thread[c].gen>>}}
          /\ pending' = pending \ Waiters(thread[c].gen, reqs[n].id)
          /\ \/ FailPost(c)
             \/ /\ \/ thread' = [thread EXCEPT ![c].pc = "sight", ![c].got = n]
                   \/ Done(c)
                /\ UNCHANGED <<inflight, order>>
    /\ UNCHANGED <<configVars, mode, running, reqs, link, replayable, recordVars>>

\* The reader thread gets a response and hands it to the waiter of its id;
\* a response nobody waits for is dropped.
Deliver(n, gen) ==
    /\ <<n, gen>> \in work /\ gen > 0 /\ link[gen] = "up"
    /\ work' = work \ {<<n, gen>>}
    /\ pending' = pending \ Waiters(gen, reqs[n].id)
    /\ thread' = [c \in Conns |-> IF \E w \in Waiters(gen, reqs[n].id) : w.conn = c
                                  THEN [thread[c] EXCEPT !.got = n] ELSE thread[c]]
    /\ UNCHANGED <<configVars, mode, running, reqs, inflight, order, link, replayable,
                   recordVars>>

\* recv_timeout: a message; else no sender is left; else the time is up.
Receive(c) ==
    /\ thread[c].pc = "wait"
    /\ \/ /\ thread[c].got > 0
          /\ thread' = [thread EXCEPT ![c].pc = "sight"]
          /\ UNCHANGED <<pending, inflight, order>>
       \/ /\ thread[c].got = 0
          /\ \/ UNCHANGED pending /\ \A w \in pending : w.conn # c
             \/ pending' = pending \ Waiters(thread[c].gen, reqs[thread[c].req].id)
          /\ FailPost(c)
    /\ UNCHANGED <<configVars, mode, running, reqs, link, work, replayable, recordVars>>

\* The stream ends: the reader clears alive, then drops the senders.
LinkDown(gen) ==
    /\ \/ link[gen] = "up" /\ link' = [link EXCEPT ![gen] = "closing"] /\ UNCHANGED pending
       \/ /\ link[gen] = "closing" /\ link' = [link EXCEPT ![gen] = "down"]
          /\ pending' = {w \in pending : w.gen # gen}
    /\ UNCHANGED <<configVars, mode, running, reqs, thread, inflight, order, work,
                   replayable, recordVars>>
-----------------------------------------------------------------------------
(***************************************************************************)
(* finish_response, and the interceptor's complete and mask                *)
(***************************************************************************)
\* What the agent of thread c is shown.  The call `by' gives the patterns.
Show(c, masked) ==
    shown' = [to |-> thread[c].agent, for |-> thread[c].req, origin |-> thread[c].got,
              note |-> thread[c].note, masked |-> masked]

\* After a notification the stream goes on; after a response it is over.
After(c) ==
    IF thread[c].note
    THEN thread' = [thread EXCEPT ![c].pc = "stream", ![c].got = 0, ![c].note = FALSE, ![c].by = 0]
    ELSE Done(c)

\* Mutant: the sighting does not mark the call done.
SightUnmarked(c, key) ==
    /\ thread[c].pc = "sight"
    /\ \/ /\ key \in DOMAIN inflight
          /\ thread' = [thread EXCEPT ![c].by = inflight[key].call, ![c].pc = "complete"]
          /\ UNCHANGED <<inflight, shown>>
       \/ /\ key \notin DOMAIN inflight
          /\ Show(c, FALSE) /\ After(c) /\ UNCHANGED inflight
    /\ UNCHANGED <<configVars, running, reqs, order, replayable, upstreamVars, executions,
                   evicted>>

\* The lock: the first sighting of a response marks its call done.
SightAt(c, key) ==
    /\ thread[c].pc = "sight"
    /\ \/ /\ key \in DOMAIN inflight
          /\ inflight' = [inflight EXCEPT ![key].done = TRUE]
          /\ thread' = [thread EXCEPT ![c].by = inflight[key].call,
                          ![c].pc = IF inflight[key].done THEN "mask" ELSE "complete"]
          /\ UNCHANGED shown
       \/ /\ key \notin DOMAIN inflight
          /\ Show(c, FALSE) /\ After(c) /\ UNCHANGED inflight
    /\ UNCHANGED <<configVars, running, reqs, order, replayable, upstreamVars, executions,
                   evicted>>

\* The key is the asking agent's session and the id of the response.
Sight(c) == SightAt(c, <<session_of(thread[c].agent), reqs[thread[c].got].id>>)

\* complete: the original result is recorded, if the ledger takes it, then
\* masked; an error, which has neither, is relayed.  Without an interceptor the
\* response is withheld.
Complete(c) ==
    /\ thread[c].pc = "complete"
    /\ \/ /\ running
          /\ executions' \in {executions, executions \cup
                {[call |-> thread[c].by, output |-> thread[c].got, conn |-> c]}}
          /\ Show(c, reqs[thread[c].by].verdict = "redact")
       \/ UNCHANGED <<executions, shown>>
    /\ After(c)
    /\ UNCHANGED <<configVars, running, reqs, inflight, order, replayable, upstreamVars,
                   evicted>>

\* Mutant: a response seen again is relayed as it is.
MaskRaw(c) ==
    /\ thread[c].pc = "mask"
    /\ Show(c, FALSE) /\ After(c)
    /\ UNCHANGED <<configVars, running, reqs, inflight, order, replayable, upstreamVars,
                   executions, evicted>>

\* mask: a response seen again, or a notification; without an interceptor it
\* is withheld, and notifications are dropped when the stream is collapsed.
Mask(c) ==
    /\ thread[c].pc = "mask"
    /\ IF running /\ (thread[c].note => ~Collapsed(thread[c].req))
       THEN Show(c, reqs[thread[c].by].verdict = "redact") ELSE UNCHANGED shown
    /\ After(c)
    /\ UNCHANGED <<configVars, running, reqs, inflight, order, replayable, upstreamVars,
                   executions, evicted>>

\* HttpProxy::run leaves its loop; jobs sent from now on fail.
Stop ==
    /\ running /\ running' = FALSE
    /\ UNCHANGED <<configVars, reqs, thread, inflight, order, replayable, upstreamVars,
                   recordVars>>

Next ==
    \/ \E c \in Conns :
          \/ Accept(c) \/ Intercept(c) \/ Insert(c) \/ StreamableFails(c) \/ StreamableFull(c)
          \/ StreamableStream(c) \/ StreamEvent(c) \/ StreamEnds(c) \/ OpenGet(c)
          \/ DeleteSession(c) \/ Fallback(c) \/ Connect(c) \/ Register(c) \/ Send(c)
          \/ Receive(c) \/ Sight(c) \/ Complete(c) \/ Mask(c)
    \/ \E n \in DOMAIN reqs, g \in 1..MaxLinks : Deliver(n, g)
    \/ \E g \in 1..MaxLinks : LinkDown(g)
    \/ Stop

Spec == Init /\ [][Next]_vars
-----------------------------------------------------------------------------
TypeOK ==
    /\ cap \in InflightCaps
    /\ server \in Servers /\ mode \in {"unknown", server} /\ running \in BOOLEAN
    /\ sessions \in {{}, Agents} /\ (server = "legacy" => sessions = {})
    /\ reqs \in Seq([agent : Agents, id : Ids, kind : {"call", "list"},
                     reads : {"sse", "json", "batch"},
                     verdict : {"none", "allow", "redact", "refuse"}])
    /\ \A k \in DOMAIN inflight : inflight[k] \in [call : DOMAIN reqs, done : BOOLEAN]
    /\ pending \subseteq [gen : 1..MaxLinks, id : Ids, conn : Conns]
    /\ work \subseteq (DOMAIN reqs) \X (0..MaxLinks)
    /\ replayable \subseteq DOMAIN reqs /\ evicted \subseteq DOMAIN reqs

(***************************************************************************)
(* Inflight's map and queue hold the same keys, each once, and no more     *)
(* than the cap: entries are replaced, removed, evicted and dropped with   *)
(* their session by threads in any order, and a key left in one of the two *)
(* would evict the wrong call later (gateway.rs, Inflight).                *)
(***************************************************************************)
InflightAgrees ==
    /\ Range(order) = DOMAIN inflight
    /\ Len(order) = Cardinality(DOMAIN inflight) /\ Len(order) <= cap

(***************************************************************************)
(* The upstream only ever gets a tools/call that was decided, recorded and *)
(* allowed, also when the interceptor stops while the call is on its way   *)
(* (gateway.rs: "Refused -> structured JSON-RPC refusal, never forwarded").*)
(***************************************************************************)
OnlyDecidedForwarded ==
    \A w \in work : reqs[w[1]].kind = "call" => Forwarded(w[1])

(***************************************************************************)
(* A call has at most one Execution record, though its response may be     *)
(* seen on the POST's stream and again on a resumed one, by two threads at *)
(* once (gateway.rs, finish_response).                                     *)
(***************************************************************************)
OneExecution ==
    \A x, y \in executions : x.call = y.call => x = y

(***************************************************************************)
(* An Execution record hashes the output of the call it is linked to, not  *)
(* that of another call whose response was taken for its own, unless the   *)
(* two have one session and one id: the proxy cannot tell those apart      *)
(* (gateway.rs, finish_response and Inflight).                             *)
(***************************************************************************)
ExecutionAttributed ==
    \A x \in executions : Alone(x.call) \/ Alone(x.output) => x.output = x.call

(***************************************************************************)
(* The response to a request is the upstream's answer to that request: no  *)
(* agent is handed what another one asked for, also when agents without a  *)
(* session use the same id; over the one stream of a legacy upstream, if   *)
(* no other request has the id (gateway.rs and the pending map of          *)
(* upstream.rs).                                                           *)
(***************************************************************************)
AnswersOwn ==
    shown.origin > 0 /\ ~OnGet /\ (Streamable \/ Alone(shown.origin)) =>
        shown.to = reqs[shown.origin].agent /\ shown.for \in {0, shown.origin}

(***************************************************************************)
(* What a call under a redact verdict returns, on the POST's stream or a   *)
(* resumed one, and what it notifies on the POST's stream, reaches an      *)
(* agent masked (docs/mcp-http.md: "Redact patterns are applied before     *)
(* anything reaches the agent"), unless another call has its session and   *)
(* id, or its entry was evicted by later calls or dropped with the session *)
(* while the call was under way.                                           *)
(***************************************************************************)
RedactedNeverShown ==
    shown.origin > 0 /\ ~OnGet /\ reqs[shown.origin].verdict = "redact"
        /\ Alone(shown.origin) =>
        shown.masked \/ shown.origin \in evicted

(***************************************************************************)
(* docs/mcp-http.md, step 4, of the response of any call that is still on  *)
(* the books: "Redact patterns are applied before anything reaches the     *)
(* agent".                                                                 *)
(***************************************************************************)
ResponsesRedacted ==
    shown.origin > 0 /\ ~shown.note /\ reqs[shown.origin].verdict = "redact" =>
        shown.masked \/ shown.origin \in evicted

(***************************************************************************)
(* The book of calls under way stays in order, whichever threads insert,   *)
(* mark, remove, evict and drop entries (gateway.rs, Inflight).            *)
(***************************************************************************)
InflightOK == TypeOK /\ InflightAgrees

(***************************************************************************)
(* What is forwarded and what comes back is on record: a call is decided   *)
(* before the upstream gets it, and has at most one Execution record,      *)
(* which is about its own output unless another call has its session and   *)
(* id (gateway.rs, intercept, finish_response).                            *)
(***************************************************************************)
CallsOnRecord == OnlyDecidedForwarded /\ OneExecution /\ ExecutionAttributed
=============================================================================
