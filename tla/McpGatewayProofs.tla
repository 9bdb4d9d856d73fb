-------------------------- MODULE McpGatewayProofs --------------------------
(***************************************************************************)
(* Safety of the HTTP proxy for any number of connections, agents,         *)
(* requests and links and any cap: the book of calls under way is in       *)
(* order, what is forwarded was decided, a call is recorded once, and      *)
(* every answer and every record is that of its own request, and redacted, *)
(* as far as the session and the id of a request tell it from the others.  *)
(***************************************************************************)
EXTENDS McpGateway, FiniteSetTheorems, SequenceTheorems, TLAPS

\* No element of s is there twice.
Distinct(s) == \A i, j \in 1..Len(s) : s[i] = s[j] => i = j

\* Each element that is kept has a place of its own among those kept.
LEMMA RanksOnto ==
    ASSUME NEW n \in Nat, NEW kept \in SUBSET (1..n)
    PROVE  /\ IsFiniteSet(kept) /\ Cardinality(kept) \in 0..n
           /\ \A i \in 1..Cardinality(kept) :
                 \E j \in kept : Cardinality(kept \cap (1..j)) = i
  <1> DEFINE K == Cardinality(kept)
             rank == [j \in kept |-> Cardinality(kept \cap (1..j))]
  <1>1. IsFiniteSet(kept) /\ K \in Nat /\ K <= n
    <2>1. IsFiniteSet(1..n) /\ Cardinality(1..n) = n
      BY FS_Interval
    <2>2. IsFiniteSet(kept) /\ K <= n
      BY <2>1, FS_Subset
    <2> QED BY <2>2, FS_CardinalityType
  <1>2. ASSUME NEW j \in kept
        PROVE  /\ IsFiniteSet(kept \cap (1..j))
               /\ Cardinality(kept \cap (1..j)) \in 1..K
    <2>1. kept \cap (1..j) \in SUBSET kept /\ kept \cap (1..j) # {}
      OBVIOUS
    <2>2. /\ IsFiniteSet(kept \cap (1..j))
          /\ Cardinality(kept \cap (1..j)) <= K
      BY <1>1, <2>1, FS_Subset
    <2>3. Cardinality(kept \cap (1..j)) \in Nat /\ Cardinality(kept \cap (1..j)) # 0
      BY <2>1, <2>2, FS_CardinalityType, FS_EmptySet
    <2> QED BY <1>1, <2>2, <2>3
  <1>3. ASSUME NEW i \in kept, NEW j \in kept, i < j
        PROVE  rank[i] # rank[j]
    <2>1. kept \cap (1..i) \in SUBSET (kept \cap (1..j)) /\ j \notin kept \cap (1..i)
      BY <1>3
    <2> QED BY <1>2, <2>1, FS_Subset
  <1>4. rank \in Injection(kept, 1..K)
    <2>1. rank \in [kept -> 1..K]
      BY <1>2
    <2>2. ASSUME NEW i \in kept, NEW j \in kept, rank[i] = rank[j] PROVE i = j
      <3> HIDE DEF rank
      <3>1. i < j \/ j < i \/ i = j
        OBVIOUS
      <3> QED BY <1>3, <2>2, <3>1
    <2> HIDE DEF rank
    <2> QED BY <2>1, <2>2 DEF Injection, IsInjective
  <1>5. IsFiniteSet(1..K) /\ Cardinality(1..K) = K
    <2> HIDE DEF K
    <2> QED BY <1>1, FS_Interval
  <1>6. rank \in Surjection(kept, 1..K)
    <2> HIDE DEF rank
    <2> QED BY <1>4, <1>5, FS_Injection
  <1>7. \A i \in 1..K : \E j \in kept : rank[j] = i
    <2> HIDE DEF rank, K
    <2> QED BY <1>6 DEF Surjection
  <1> QED BY <1>1, <1>7

\* retain keeps what it should, each once.
LEMMA RetainFacts ==
    ASSUME NEW S, NEW s \in Seq(S), Distinct(s), NEW keep
    PROVE  /\ Retain(s, keep) \in Seq(S) /\ Distinct(Retain(s, keep))
           /\ Range(Retain(s, keep)) = Range(s) \cap keep
           /\ Len(Retain(s, keep)) <= Len(s)
  <1> DEFINE kept == {j \in DOMAIN s : s[j] \in keep}
             Nth(i) == CHOOSE j \in kept : Cardinality(kept \cap (1..j)) = i
             t == [i \in 1..Cardinality(kept) |-> s[Nth(i)]]
  <1>1. Len(s) \in Nat /\ DOMAIN s = 1..Len(s) /\ \A i \in 1..Len(s) : s[i] \in S
    OBVIOUS
  <1>2. /\ Cardinality(kept) \in 0..Len(s)
        /\ \A i \in 1..Cardinality(kept) :
              Nth(i) \in kept /\ Cardinality(kept \cap (1..Nth(i))) = i
    <2>1. kept \in SUBSET (1..Len(s))
      BY <1>1
    <2> HIDE DEF kept
    <2>2. /\ Cardinality(kept) \in 0..Len(s)
          /\ \A i \in 1..Cardinality(kept) :
                \E j \in kept : Cardinality(kept \cap (1..j)) = i
      BY <1>1, <2>1, RanksOnto
    <2> QED BY <2>2
  <1>3. \A j \in kept : \E i \in 1..Cardinality(kept) : Nth(i) = j
    <2> SUFFICES ASSUME NEW j \in kept
                 PROVE  \E i \in 1..Cardinality(kept) : Nth(i) = j
      OBVIOUS
    <2> DEFINE i == Cardinality(kept \cap (1..j))
    <2>1. IsFiniteSet(kept) /\ kept \cap (1..j) \in SUBSET kept /\ j \in kept \cap (1..j)
      <3>1. kept \in SUBSET (1..Len(s)) /\ j \in Nat \ {0}
        BY <1>1
      <3> HIDE DEF kept
      <3> QED BY <1>1, <3>1, RanksOnto
    <2>2. i \in 1..Cardinality(kept)
      <3> HIDE DEF kept
      <3>1. IsFiniteSet(kept \cap (1..j)) /\ i <= Cardinality(kept)
        BY <2>1, FS_Subset
      <3>2. i \in Nat /\ i # 0
        BY <2>1, <3>1, FS_CardinalityType, FS_EmptySet
      <3> QED BY <1>2, <3>1, <3>2
    <2>3. Nth(i) \in kept /\ Cardinality(kept \cap (1..Nth(i))) = i
      <3> HIDE DEF i, kept, Nth
      <3> QED BY <1>2, <2>2
    <2>4. ASSUME NEW a \in kept, NEW b \in kept, a < b
          PROVE  Cardinality(kept \cap (1..a)) # Cardinality(kept \cap (1..b))
      <3>1. /\ kept \cap (1..a) \in SUBSET (kept \cap (1..b))
            /\ b \notin kept \cap (1..a) /\ b \in kept \cap (1..b)
        BY <1>1, <2>4
      <3>2. IsFiniteSet(kept \cap (1..b))
        <4> HIDE DEF kept
        <4> QED BY <2>1, FS_Intersection
      <3> HIDE DEF kept
      <3> QED BY <3>1, <3>2, FS_Subset
    <2>5. Nth(i) = j
      <3>1. Nth(i) \in Nat /\ j \in Nat
        BY <1>1, <2>3
      <3> HIDE DEF Nth, kept
      <3>2. ~(Nth(i) < j) /\ ~(j < Nth(i))
        BY <2>3, <2>4
      <3> QED BY <3>1, <3>2
    <2> HIDE DEF i, Nth, kept
    <2> QED BY <2>2, <2>5
  <1>4. Retain(s, keep) = t
    BY DEF Retain
  <1>5. t \in Seq(S) /\ Len(t) = Cardinality(kept) /\ Len(t) <= Len(s)
    <2>1. \A i \in 1..Cardinality(kept) : s[Nth(i)] \in S
      <3>1. \A j \in kept : s[j] \in S
        BY <1>1
      <3> HIDE DEF kept, Nth
      <3> QED BY <1>2, <3>1
    <2> HIDE DEF kept, Nth
    <2> QED BY <1>1, <1>2, <2>1
  <1>6. Distinct(t)
    <2> SUFFICES ASSUME NEW a \in 1..Cardinality(kept), NEW b \in 1..Cardinality(kept),
                        s[Nth(a)] = s[Nth(b)]
                 PROVE  a = b
      <3> HIDE DEF kept, Nth
      <3> QED BY <1>5 DEF Distinct
    <2>1. Nth(a) \in 1..Len(s) /\ Nth(b) \in 1..Len(s)
      BY <1>1, <1>2
    <2> HIDE DEF kept, Nth
    <2>2. Nth(a) = Nth(b)
      BY <2>1 DEF Distinct
    <2> QED BY <1>2, <2>2
  <1>7. Range(t) = Range(s) \cap keep
    <2>1. \A j \in kept : s[j] \in Range(s) \cap keep
      BY DEF Range
    <2>2. \A x \in Range(s) \cap keep : \E j \in kept : x = s[j]
      BY DEF Range
    <2> HIDE DEF kept, Nth
    <2>3. Range(t) = {s[Nth(i)] : i \in 1..Cardinality(kept)}
      BY DEF Range
    <2> QED BY <1>2, <1>3, <2>1, <2>2, <2>3
  <1> HIDE DEF t
  <1> QED BY <1>4, <1>5, <1>6, <1>7

\* A sequence of distinct elements is as long as its range is large.
LEMMA DistinctLen ==
    ASSUME NEW S, NEW s \in Seq(S), Distinct(s)
    PROVE  Len(s) = Cardinality(Range(s))
  <1>1. Len(s) \in Nat /\ s \in [1..Len(s) -> Range(s)] /\ Range(s) = {s[i] : i \in 1..Len(s)}
    BY DEF Range
  <1>2. s \in Bijection(1..Len(s), Range(s))
    BY <1>1 DEF Distinct, Bijection, Injection, IsInjective, Surjection
  <1>3. ExistsBijection(1..Len(s), Range(s))
    BY <1>2 DEF ExistsBijection
  <1> QED BY <1>1, <1>3, FS_CountingElements
-----------------------------------------------------------------------------

Keys == (Agents \cup {NoSession}) \X Ids
Pcs == {"idle", "intercept", "insert", "post", "stream", "register", "send", "wait",
        "sight", "complete", "mask"}

\* The thread's request has been decided, if it is a call.
Sending == {"post", "stream", "register", "send", "wait"}

\* The upstream has not answered the thread's request.
Asking == {"intercept", "insert", "post", "register", "send", "wait"}

IsCall(n) == n \in DOMAIN reqs /\ reqs[n].kind = "call" /\ Forwarded(n)

\* What a thread does fits its request: it sends what was decided, answers
\* its own agent, and masks by the patterns of a decided call.
ThreadOK(c) ==
    LET t == thread[c] IN
    /\ t = [pc |-> t.pc, req |-> t.req, agent |-> t.agent, got |-> t.got, note |-> t.note,
            by |-> t.by, gen |-> t.gen]
    /\ t.pc \in Pcs /\ t.note \in BOOLEAN
    /\ t.req \in {0} \cup DOMAIN reqs /\ t.got \in {0} \cup DOMAIN reqs
    /\ t.pc = "idle" => t.req = 0
    /\ t.req # 0 => t.agent = reqs[t.req].agent
    /\ t.req = 0 /\ t.pc # "idle" => t.pc \in {"sight", "complete", "mask"} /\ ~t.note
    /\ t.pc = "intercept" => reqs[t.req].kind = "call" /\ reqs[t.req].verdict = "none"
    /\ t.pc = "insert" => IsCall(t.req)
    /\ t.pc \in Sending => (reqs[t.req].kind = "call" => Forwarded(t.req))
    /\ t.pc \in {"register", "send", "wait"} => Legacy /\ t.gen \in 1..MaxLinks
    /\ t.pc \in {"sight", "complete", "mask"} =>
          t.agent \in Agents /\ t.got # 0
    /\ t.pc \in {"complete", "mask"} => IsCall(t.by)
    /\ t.pc \notin {"complete", "mask"} => t.by = 0 /\ ~t.note
    /\ t.note => t.pc = "mask" /\ IsCall(t.req)

ThreadsOK ==
    /\ thread = [c \in Conns |-> thread[c]]
    /\ \A c \in Conns : ThreadOK(c)
    /\ \A c, d \in Conns : thread[c].req = thread[d].req /\ thread[c].req # 0 => c = d

\* What is recorded and shown is of requests there are.
RecordsOK ==
    /\ \A x \in executions : x.call \in DOMAIN reqs /\ x.output \in DOMAIN reqs
    /\ shown.origin \in {0} \cup DOMAIN reqs
    /\ \A g \in 1..MaxLinks : link[g] \in {"none", "up", "closing", "down"}
    /\ link = [g \in 1..MaxLinks |-> link[g]]

\* The queue holds the keys of the map, each once.
BookOK ==
    /\ order \in Seq(Keys) /\ Len(order) <= cap
    /\ Range(order) = DOMAIN inflight
    /\ Distinct(order)
    /\ inflight = [k \in DOMAIN inflight |-> inflight[k]]
    /\ \A k \in DOMAIN inflight :
          /\ inflight[k] = [call |-> inflight[k].call, done |-> inflight[k].done]
          /\ IsCall(inflight[k].call) /\ k = Key(inflight[k].call)

\* Call n has not been seen in a response.
Unseen(n) ==
    /\ \A d \in Conns : thread[d].pc = "complete" => thread[d].by # n
    /\ \A x \in executions : x.call # n

\* A call that is not in the book yet has not been seen in a response, nor
\* has one that is in the book and not done; one that was seen is recorded
\* by one thread.
OnceOK ==
    /\ \A c \in Conns : thread[c].pc \in {"intercept", "insert"} =>
          /\ Unseen(thread[c].req)
          /\ \A k \in DOMAIN inflight : inflight[k].call # thread[c].req
    /\ \A k \in DOMAIN inflight : ~inflight[k].done => Unseen(inflight[k].call)
    /\ \A c, d \in Conns :
          thread[c].pc = "complete" /\ thread[d].pc = "complete" /\ thread[c].by = thread[d].by
            => c = d
    /\ \A c \in Conns : thread[c].pc = "complete" =>
          \A x \in executions : x.call # thread[c].by

ProxyInd ==
    /\ TypeOK /\ ThreadsOK /\ RecordsOK /\ BookOK /\ OnceOK
    /\ OnlyDecidedForwarded /\ OneExecution
-----------------------------------------------------------------------------
\* A waiter is a thread that waits, on its connection, for its id, and has
\* got nothing yet; there is one of a connection and an id.
WaitersOK ==
    /\ \A w \in pending :
          LET t == thread[w.conn] IN
          /\ t.pc \in {"send", "wait"} /\ t.got = 0
          /\ w.gen = t.gen /\ w.id = reqs[t.req].id
    /\ \A v, w \in pending : v.gen = w.gen /\ v.id = w.id => v = w

\* What a thread has got is an answer to its own request, or over the one
\* stream of a legacy upstream to one with its key, or one that the upstream
\* replays to its agent; the call it takes it for has the same key.
AnswerOwn(c) ==
    LET t == thread[c] IN
    /\ t.pc \in {"send", "wait"} /\ t.got # 0 => Key(t.got) = Key(t.req)
    /\ t.pc \in {"idle", "intercept", "insert", "post", "stream", "register"} => t.got = 0
    /\ t.pc \in {"sight", "complete", "mask"} =>
          /\ t.req = 0 => t.agent = reqs[t.got].agent
          /\ t.req # 0 => Key(t.got) = Key(t.req) /\ (Streamable => t.got = t.req)
    /\ t.pc \in {"complete", "mask"} => Key(t.by) = Key(t.got)

\* Nobody else has an answer to a request that was not answered, if no other
\* has its key.
Unanswered(c, n) ==
    /\ n \notin replayable
    /\ Alone(n) => /\ shown.origin = n => OnGet
                   /\ \A d \in Conns \ {c} : thread[d].got # n

AskingOK ==
    \A c \in Conns, n \in DOMAIN reqs :
        thread[c].pc \in Asking /\ thread[c].req = n => Unanswered(c, n)

\* The proxy has not forgotten redacted call n, whose key is its own, or the
\* cap or the end of the session made it forget.
Tracked(n) ==
    Alone(n) /\ reqs[n].verdict = "redact" => Key(n) \in DOMAIN inflight \/ n \in evicted

TrackedOK ==
    /\ \A n \in replayable : Tracked(n)
    /\ \A c \in Conns :
          /\ thread[c].pc \in Sending => Tracked(thread[c].req)
          /\ thread[c].pc = "sight" => Tracked(thread[c].got)
          /\ thread[c].pc = "stream" \/ thread[c].note => thread[c].req \in replayable

\* A record is about an output with the key of its call.
RecordsOwn == \A x \in executions : Key(x.call) = Key(x.output)

\* What was shown was asked for, or replayed to the agent that asked for it.
ShownOwn ==
    shown.origin > 0 /\ ~OnGet =>
        /\ shown.for = 0 => shown.to = reqs[shown.origin].agent
        /\ shown.for # 0 =>
              /\ shown.for \in DOMAIN reqs /\ shown.to = reqs[shown.for].agent
              /\ Key(shown.for) = Key(shown.origin)
              /\ Streamable => shown.for = shown.origin

OwnInd ==
    /\ WaitersOK /\ \A c \in Conns : AnswerOwn(c)
    /\ AskingOK /\ TrackedOK
    /\ RecordsOwn /\ ShownOwn /\ RedactedNeverShown
-----------------------------------------------------------------------------
\* A step of connection c moves no other thread.
Moves(c) == thread' = [d \in Conns |-> IF d = c THEN thread'[c] ELSE thread[d]]

\* The requests stay what they are; the one that c has decided gets a verdict.
ReqsKept(c) ==
    /\ server' = server /\ sessions' = sessions /\ DOMAIN reqs \subseteq DOMAIN reqs'
    /\ \A n \in DOMAIN reqs :
          /\ reqs'[n].agent = reqs[n].agent /\ reqs'[n].id = reqs[n].id
          /\ reqs'[n].kind = reqs[n].kind
          /\ reqs'[n].verdict # reqs[n].verdict =>
                n = thread[c].req /\ thread[c].pc = "intercept"

LEMMA ReqFacts ==
    ASSUME TypeOK
    PROVE  /\ Len(reqs) \in Nat /\ DOMAIN reqs = 1..Len(reqs)
           /\ \A n \in DOMAIN reqs :
                 /\ reqs[n].agent \in Agents /\ reqs[n].id \in Ids
                 /\ reqs[n].kind \in {"call", "list"}
                 /\ reqs[n].verdict \in {"none", "allow", "redact", "refuse"}
                 /\ Key(n) \in Keys
  <1> DEFINE T == [agent : Agents, id : Ids, kind : {"call", "list"},
                   reads : {"sse", "json", "batch"},
                   verdict : {"none", "allow", "redact", "refuse"}]
  <1>1. reqs \in Seq(T)
    BY DEF TypeOK
  <1>2. Len(reqs) \in Nat /\ DOMAIN reqs = 1..Len(reqs) /\ \A n \in DOMAIN reqs : reqs[n] \in T
    <2> HIDE DEF T
    <2> QED BY <1>1
  <1>3. \A n \in DOMAIN reqs : Key(n) \in Keys
    BY <1>2 DEF Key, session_of, Keys
  <1> QED BY <1>2, <1>3

\* Nothing changes about the requests.
LEMMA ReqsSame ==
    ASSUME TypeOK, UNCHANGED <<reqs, server, sessions>>, NEW c
    PROVE  ReqsKept(c)
  BY DEF ReqsKept

\* A decided call stays decided, under its key.
LEMMA KeptFacts ==
    ASSUME TypeOK, ThreadsOK, NEW c \in Conns, ReqsKept(c), NEW n \in DOMAIN reqs
    PROVE  /\ Key(n)' = Key(n) /\ n \in DOMAIN reqs'
           /\ Forwarded(n) => Forwarded(n)' /\ reqs'[n].verdict = reqs[n].verdict
           /\ IsCall(n) => IsCall(n)'
           /\ n # thread[c].req => reqs'[n].verdict = reqs[n].verdict
  <1>1. Key(n)' = Key(n) /\ n \in DOMAIN reqs'
    BY DEF ReqsKept, Key, session_of
  <1>2. \/ reqs'[n].verdict = reqs[n].verdict
        \/ n = thread[c].req /\ reqs[n].verdict = "none"
    <2>1. ThreadOK(c)
      BY DEF ThreadsOK
    <2> QED BY <2>1 DEF ReqsKept, ThreadOK
  <1>3. reqs'[n].kind = reqs[n].kind
    BY DEF ReqsKept
  <1> QED BY <1>1, <1>2, <1>3 DEF Forwarded, IsCall

LEMMA ThreadStep ==
    ASSUME TypeOK, ThreadsOK, NEW c \in Conns, Moves(c), ReqsKept(c), ThreadOK(c)',
           thread'[c].req \in {0, thread[c].req} \/ thread'[c].req \notin DOMAIN reqs
    PROVE  ThreadsOK'
  <1>1. thread' = [d \in Conns |-> thread'[d]]
        /\ \A d \in Conns \ {c} : thread'[d] = thread[d]
    BY DEF Moves
  <1>2. ASSUME NEW d \in Conns \ {c} PROVE ThreadOK(d)'
    <2>0. PICK t : t = thread[d]
      OBVIOUS
    <2>1. ThreadOK(d)
      BY DEF ThreadsOK
    <2>2. /\ DOMAIN reqs \subseteq DOMAIN reqs' /\ server' = server
          /\ t.req # 0 => /\ reqs'[t.req].agent = reqs[t.req].agent
                          /\ reqs'[t.req].kind = reqs[t.req].kind
      BY <2>0, <2>1 DEF ReqsKept, ThreadOK
    <2>3. t.req # 0 => reqs'[t.req].verdict = reqs[t.req].verdict
      <3>1. t.req # 0 => t.req # thread[c].req /\ t.req \in DOMAIN reqs
        BY <2>0, <2>1 DEF ThreadsOK, ThreadOK
      <3> QED BY <3>1, KeptFacts
    <2>4. /\ t.req \in DOMAIN reqs /\ IsCall(t.req) => IsCall(t.req)'
          /\ t.req \in DOMAIN reqs /\ Forwarded(t.req) => Forwarded(t.req)'
          /\ IsCall(t.by) => IsCall(t.by)'
      <3>1. IsCall(t.by) => t.by \in DOMAIN reqs
        BY DEF IsCall
      <3> QED BY <3>1, KeptFacts
    <2>5. t.req = 0 => t.pc \notin {"intercept", "insert"} \cup Sending
      BY <2>0, <2>1 DEF ThreadOK, Sending
    <2>6. thread'[d] = t
      BY <2>0, <1>1
    <2>7. t.pc = "intercept" => reqs'[t.req].kind = "call" /\ reqs'[t.req].verdict = "none"
      BY <2>0, <2>1, <2>2, <2>3, <2>5 DEF ThreadOK
    <2>8. t.pc = "insert" \/ t.note => IsCall(t.req)'
      BY <2>0, <2>1, <2>4, <2>5 DEF ThreadOK, IsCall
    <2>9. t.pc \in Sending => (reqs'[t.req].kind = "call" => Forwarded(t.req)')
      BY <2>0, <2>1, <2>2, <2>4, <2>5 DEF ThreadOK
    <2>10. t.pc \in {"complete", "mask"} => IsCall(t.by)'
      BY <2>0, <2>1, <2>4 DEF ThreadOK
    <2>11. /\ t.req \in {0} \cup DOMAIN reqs' /\ t.got \in {0} \cup DOMAIN reqs'
           /\ t.req # 0 => t.agent = reqs'[t.req].agent
           /\ t.pc \in {"register", "send", "wait"} => Legacy' /\ t.gen \in 1..MaxLinks
      BY <2>0, <2>1, <2>2 DEF ThreadOK, Legacy
    <2> QED BY <2>0, <2>1, <2>6, <2>7, <2>8, <2>9, <2>10, <2>11 DEF ThreadOK
  <1>3. ASSUME NEW a \in Conns, NEW b \in Conns, thread'[a].req = thread'[b].req,
               thread'[a].req # 0
        PROVE  a = b
    <2>1. \A d \in Conns : thread[d].req \in {0} \cup DOMAIN reqs
      BY DEF ThreadsOK, ThreadOK
    <2> QED BY <1>1, <1>3, <2>1 DEF ThreadsOK
  <1> QED BY <1>1, <1>2, <1>3 DEF ThreadsOK

\* The book stays as it is, or forgets what is not to be kept.
Shrinks ==
    \/ UNCHANGED <<inflight, order>>
    \/ \E keep : /\ order' = Retain(order, keep)
                 /\ inflight' = [k \in DOMAIN inflight \cap keep |-> inflight[k]]

\* Every entry is the one that was there.
Within ==
    /\ DOMAIN inflight' \subseteq DOMAIN inflight
    /\ \A k \in DOMAIN inflight' : inflight'[k] = inflight[k]

LEMMA ShrinksWithin ==
    ASSUME Shrinks
    PROVE  Within
  BY DEF Shrinks, Within

LEMMA BookShrinks ==
    ASSUME TypeOK, ThreadsOK, BookOK, NEW c \in Conns, ReqsKept(c), cap' = cap, Shrinks
    PROVE  BookOK'
  <1>1. Within
    BY ShrinksWithin
  <1>2. cap \in Nat
    BY McpAssumption DEF TypeOK
  <1>3. /\ order' \in Seq(Keys) /\ Len(order') <= cap /\ Distinct(order')
        /\ Range(order') = DOMAIN inflight' /\ inflight' = [k \in DOMAIN inflight' |-> inflight'[k]]
    <2>1. CASE UNCHANGED <<inflight, order>>
      BY <2>1 DEF BookOK
    <2>2. ASSUME NEW keep, order' = Retain(order, keep),
                 inflight' = [k \in DOMAIN inflight \cap keep |-> inflight[k]]
          PROVE  <1>3
      <3>1. order \in Seq(Keys) /\ Distinct(order) /\ Len(order) <= cap
            /\ Range(order) = DOMAIN inflight
        BY DEF BookOK
      <3>2. /\ order' \in Seq(Keys) /\ Distinct(order')
            /\ Range(order') = Range(order) \cap keep /\ Len(order') <= Len(order)
        BY <2>2, <3>1, RetainFacts
      <3>3. Len(order) \in Nat /\ Len(order') \in Nat
        BY <3>1, <3>2
      <3>4. DOMAIN inflight' = DOMAIN inflight \cap keep
            /\ inflight' = [k \in DOMAIN inflight' |-> inflight'[k]]
        BY <2>2
      <3> QED BY <1>2, <3>1, <3>2, <3>3, <3>4
    <2> QED BY <2>1, <2>2 DEF Shrinks
  <1>4. ASSUME NEW k \in DOMAIN inflight'
        PROVE  /\ inflight'[k] = [call |-> inflight'[k].call, done |-> inflight'[k].done]
               /\ IsCall(inflight[k].call)' /\ k = Key(inflight[k].call)'
    <2>1. PICK n : n = inflight[k].call
      OBVIOUS
    <2>2. /\ k \in DOMAIN inflight /\ inflight'[k] = inflight[k]
          /\ inflight[k] = [call |-> inflight[k].call, done |-> inflight[k].done]
          /\ IsCall(n) /\ k = Key(n)
      BY <1>1, <2>1 DEF Within, BookOK
    <2>3. IsCall(n)' /\ k = Key(n)'
      BY <2>2, KeptFacts DEF IsCall
    <2>4. n = inflight'[k].call
      BY <2>1, <2>2
    <2> QED BY <2>2, <2>3, <2>4
  <1> QED BY <1>3, <1>4 DEF BookOK

LEMMA FailPostShrinks ==
    ASSUME BookOK, NEW c, FailPost(c)
    PROVE  Shrinks /\ thread' = [thread EXCEPT ![c] = Idle]
  <1>1. thread' = [thread EXCEPT ![c] = Idle]
    BY DEF FailPost, Done
  <1>2. ASSUME NEW key, RemoveKey(key) PROVE Shrinks
    <2>1. DOMAIN inflight \ {key} = DOMAIN inflight \cap (Range(order) \ {key})
      BY DEF BookOK
    <2> QED BY <1>2, <2>1 DEF RemoveKey, Shrinks
  <1> QED BY <1>1, <1>2 DEF FailPost, Shrinks

\* Nothing is seen, and nothing decided.
LEMMA OnceMoves ==
    ASSUME ThreadsOK, OnceOK, NEW c \in Conns, Moves(c), Within, executions' = executions,
           thread'[c].pc # "complete",
           thread'[c].pc \in {"intercept", "insert"} =>
               thread[c].pc \in {"intercept", "insert"} /\ thread'[c].req = thread[c].req
    PROVE  OnceOK'
  <1>1. \A d \in Conns \ {c} : thread'[d] = thread[d]
    BY DEF Moves
  <1>2. \A n : Unseen(n) => Unseen(n)'
    BY <1>1 DEF Unseen
  <1>3. ASSUME NEW d \in Conns, thread'[d].pc \in {"intercept", "insert"}
        PROVE  /\ Unseen(thread[d].req)'
               /\ \A k \in DOMAIN inflight' : inflight'[k].call # thread'[d].req
    <2>1. thread[d].pc \in {"intercept", "insert"} /\ thread'[d].req = thread[d].req
      BY <1>1, <1>3
    <2>2. PICK n : n = thread[d].req
      OBVIOUS
    <2>3. Unseen(n) /\ \A k \in DOMAIN inflight : inflight[k].call # n
      BY <2>1, <2>2 DEF OnceOK
    <2>4. Unseen(n)' /\ \A k \in DOMAIN inflight' : inflight'[k].call # n
      BY <1>2, <2>3 DEF Within
    <2> QED BY <2>1, <2>2, <2>4
  <1>4. ASSUME NEW k \in DOMAIN inflight', ~inflight'[k].done
        PROVE  Unseen(inflight[k].call)'
    <2>1. PICK n : n = inflight[k].call
      OBVIOUS
    <2>2. k \in DOMAIN inflight /\ inflight'[k] = inflight[k]
      BY DEF Within
    <2>3. Unseen(n)
      BY <1>4, <2>1, <2>2 DEF OnceOK
    <2>4. Unseen(n)'
      BY <1>2, <2>3
    <2> QED BY <2>1, <2>2, <2>4
  <1>5. ASSUME NEW d \in Conns, thread'[d].pc = "complete"
        PROVE  d # c /\ thread[d].pc = "complete" /\ thread'[d] = thread[d]
    BY <1>1, <1>5
  <1> QED BY <1>3, <1>4, <1>5 DEF OnceOK

\* What the upstream gets is what it had, or what a thread may send.
LEMMA WorkKept ==
    ASSUME TypeOK, ThreadsOK, OnlyDecidedForwarded, NEW c \in Conns, ReqsKept(c),
           \A w \in work' : w \in work \/ (w[1] = thread[c].req /\ thread[c].pc \in Sending)
    PROVE  OnlyDecidedForwarded'
  <1> SUFFICES ASSUME NEW w \in work', reqs'[w[1]].kind = "call"
               PROVE  Forwarded(w[1])'
    BY DEF OnlyDecidedForwarded
  <1>1. PICK n : n = w[1]
    OBVIOUS
  <1>2. CASE w \in work
    <2>1. n \in DOMAIN reqs
      BY <1>1, <1>2 DEF TypeOK
    <2>2. Forwarded(n)
      BY <1>1, <1>2, <2>1 DEF OnlyDecidedForwarded, ReqsKept
    <2> QED BY <1>1, <2>1, <2>2, KeptFacts
  <1>3. CASE n = thread[c].req /\ thread[c].pc \in Sending
    <2>1. ThreadOK(c)
      BY DEF ThreadsOK
    <2>2. n \in DOMAIN reqs
      BY <1>3, <2>1 DEF ThreadOK, Sending
    <2>3. Forwarded(n)
      BY <1>1, <1>3, <2>1, <2>2 DEF ThreadOK, ReqsKept
    <2> QED BY <1>1, <2>2, <2>3, KeptFacts
  <1> QED BY <1>1, <1>2, <1>3

LEMMA RecordsKept ==
    ASSUME RecordsOK, NEW c, ReqsKept(c), executions' = executions,
           shown'.origin \in {0} \cup DOMAIN reqs,
           \/ link' = link
           \/ \E g \in 1..MaxLinks, l \in {"up", "closing", "down"} :
                 link' = [link EXCEPT ![g] = l]
    PROVE  RecordsOK'
  <1>1. link' = [g \in 1..MaxLinks |-> link'[g]]
        /\ \A g \in 1..MaxLinks : link'[g] \in {"none", "up", "closing", "down"}
    BY DEF RecordsOK
  <1> QED BY <1>1 DEF RecordsOK, ReqsKept

\* A step in which nothing is seen and nothing recorded keeps the invariant.
LEMMA QuietKeeps ==
    ASSUME ProxyInd, NEW c \in Conns, Moves(c), ReqsKept(c), Shrinks, ThreadOK(c)',
           TypeOK', RecordsOK', cap' = cap, executions' = executions,
           thread'[c].pc # "complete",
           thread'[c].pc \in {"intercept", "insert"} =>
               thread[c].pc \in {"intercept", "insert"} /\ thread'[c].req = thread[c].req,
           thread'[c].req \in {0, thread[c].req} \/ thread'[c].req \notin DOMAIN reqs,
           \A w \in work' : w \in work \/ (w[1] = thread[c].req /\ thread[c].pc \in Sending)
    PROVE  ProxyInd'
  <1>1. ThreadsOK'
    BY ThreadStep DEF ProxyInd
  <1>2. BookOK'
    BY BookShrinks DEF ProxyInd
  <1>3. OnceOK'
    BY ShrinksWithin, OnceMoves DEF ProxyInd
  <1>4. OnlyDecidedForwarded'
    BY WorkKept DEF ProxyInd
  <1> QED BY <1>1, <1>2, <1>3, <1>4 DEF ProxyInd, OneExecution
-----------------------------------------------------------------------------
LEMMA ThreadSet ==
    ASSUME ThreadsOK, NEW c \in Conns, NEW q, thread' = [thread EXCEPT ![c] = q]
    PROVE  Moves(c) /\ thread'[c] = q
  BY DEF ThreadsOK, Moves

LEMMA IdleOK ==
    ASSUME NEW c, thread'[c] = Idle
    PROVE  ThreadOK(c)'
  BY DEF ThreadOK, Idle, Pcs, Sending

\* The same, in terms of the variables.
LEMMA QuietStep ==
    ASSUME ProxyInd, NEW c \in Conns, Moves(c), ThreadOK(c)', Shrinks,
           UNCHANGED <<cap, server, sessions, reqs, executions>>,
           shown' = shown \/ shown'.origin = thread[c].got,
           running' \in BOOLEAN, mode' \in {mode, server},
           thread'[c].req \in {0, thread[c].req},
           thread'[c].pc \notin {"complete", "intercept", "insert"},
           \/ link' = link
           \/ \E g \in 1..MaxLinks, l \in {"up", "closing", "down"} :
                 link' = [link EXCEPT ![g] = l],
           pending' \subseteq [gen : 1..MaxLinks, id : Ids, conn : Conns],
           \/ work' \subseteq work
           \/ /\ thread[c].pc \in Sending
              /\ \E g \in 0..MaxLinks : work' \subseteq work \cup {<<thread[c].req, g>>},
           replayable' \subseteq DOMAIN reqs, evicted' \subseteq DOMAIN reqs
    PROVE  ProxyInd'
  <1>1. ReqsKept(c)
    BY DEF ReqsKept
  <1>2. RecordsOK'
    <2>1. shown'.origin \in {0} \cup DOMAIN reqs
      BY DEF ProxyInd, RecordsOK, ThreadsOK, ThreadOK
    <2> QED BY <1>1, <2>1, RecordsKept DEF ProxyInd
  <1>3. work' \subseteq (DOMAIN reqs) \X (0..MaxLinks)
    <2>1. thread[c].pc \in Sending => thread[c].req \in DOMAIN reqs
      BY DEF ProxyInd, ThreadsOK, ThreadOK, Sending
    <2> QED BY <2>1 DEF ProxyInd, TypeOK
  <1>4. Within
    BY ShrinksWithin
  <1>5. \A k \in DOMAIN inflight' : inflight'[k] \in [call : DOMAIN reqs, done : BOOLEAN]
    BY <1>4 DEF Within, ProxyInd, TypeOK
  <1>6. TypeOK'
    BY <1>3, <1>5 DEF ProxyInd, TypeOK
  <1>7. \A w \in work' : w \in work \/ (w[1] = thread[c].req /\ thread[c].pc \in Sending)
    OBVIOUS
  <1> QED BY <1>1, <1>2, <1>6, <1>7, QuietKeeps

\* The request is over: writ's own answer, or none.
LEMMA DoneOK ==
    ASSUME ProxyInd, NEW c \in Conns, thread' = [thread EXCEPT ![c] = Idle]
    PROVE  /\ Moves(c) /\ ThreadOK(c)' /\ thread'[c].req = 0 /\ thread'[c].pc = "idle"
  <1>1. Moves(c) /\ thread'[c] = Idle
    BY ThreadSet DEF ProxyInd
  <1>2. ThreadOK(c)'
    BY <1>1, IdleOK
  <1> QED BY <1>1, <1>2 DEF Idle

LEMMA TypeFacts ==
    ASSUME ProxyInd
    PROVE  /\ running \in BOOLEAN /\ pending \subseteq [gen : 1..MaxLinks, id : Ids, conn : Conns]
           /\ replayable \subseteq DOMAIN reqs /\ evicted \subseteq DOMAIN reqs
  BY DEF ProxyInd, TypeOK

LEMMA StreamableFailsKeeps ==
    ASSUME ProxyInd, NEW c \in Conns, StreamableFails(c)
    PROVE  ProxyInd'
  <1>1. /\ thread' = [thread EXCEPT ![c] = Idle] /\ Shrinks
    BY FailPostShrinks DEF StreamableFails, ProxyInd
  <1>2. /\ thread[c].pc \in Sending
        /\ work' \subseteq work \cup {<<thread[c].req, 0>>} /\ 0 \in 0..MaxLinks
    BY McpAssumption DEF StreamableFails, Sending
  <1> QED BY <1>1, <1>2, DoneOK, QuietStep, TypeFacts
        DEF StreamableFails, configVars, recordVars

\* A thread's next state, by its fields.
LEMMA ThreadFields ==
    ASSUME ProxyInd, NEW c \in Conns
    PROVE  /\ ThreadOK(c) /\ thread[c] = [pc |-> thread[c].pc, req |-> thread[c].req,
                  agent |-> thread[c].agent, got |-> thread[c].got, note |-> thread[c].note,
                  by |-> thread[c].by, gen |-> thread[c].gen]
           /\ thread = [d \in Conns |-> thread[d]]
  BY DEF ProxyInd, ThreadsOK, ThreadOK

\* A thread goes on with its request.
LEMMA GoesOn ==
    ASSUME ProxyInd, NEW c \in Conns, UNCHANGED <<reqs, server, sessions>>,
           thread'[c] = [pc |-> thread'[c].pc, req |-> thread[c].req,
                         agent |-> thread[c].agent, got |-> thread'[c].got,
                         note |-> thread'[c].note, by |-> thread'[c].by,
                         gen |-> thread'[c].gen],
           thread'[c].pc \in Pcs \ {"idle", "intercept", "insert"},
           thread'[c].got \in {0} \cup DOMAIN reqs, thread'[c].note \in BOOLEAN,
           thread[c].req = 0 =>
               thread'[c].pc \in {"sight", "complete", "mask"} /\ ~thread'[c].note,
           thread'[c].pc \in Sending =>
               (reqs[thread[c].req].kind = "call" => Forwarded(thread[c].req)),
           thread'[c].pc \in {"register", "send", "wait"} =>
               Legacy /\ thread'[c].gen \in 1..MaxLinks,
           thread'[c].pc \in {"sight", "complete", "mask"} =>
               thread[c].agent \in Agents /\ thread'[c].got # 0,
           thread'[c].pc \in {"complete", "mask"} => IsCall(thread'[c].by),
           thread'[c].pc \notin {"complete", "mask"} => thread'[c].by = 0 /\ ~thread'[c].note,
           thread'[c].note => thread'[c].pc = "mask" /\ IsCall(thread[c].req)
    PROVE  ThreadOK(c)'
  <1>1. PICK t : t = thread'[c]
    OBVIOUS
  <1>2. PICK r, a : r = thread[c].req /\ a = thread[c].agent
    OBVIOUS
  <1>3. ThreadOK(c)
    BY ThreadFields
  <1>4. \A n : IsCall(n)' = IsCall(n) /\ Forwarded(n)' = Forwarded(n)
    BY DEF IsCall, Forwarded
  <1>5. t = [pc |-> t.pc, req |-> r, agent |-> a, got |-> t.got, note |-> t.note,
             by |-> t.by, gen |-> t.gen]
    BY <1>1, <1>2
  <1>6. /\ r \in {0} \cup DOMAIN reqs' /\ t.got \in {0} \cup DOMAIN reqs'
        /\ r # 0 => a = reqs'[r].agent
    BY <1>1, <1>2, <1>3 DEF ThreadOK
  <1>7. /\ t.pc \in Sending => (reqs[r].kind = "call" => Forwarded(r))
        /\ t.note => t.pc = "mask" /\ IsCall(r)
        /\ t.pc \in {"register", "send", "wait"} => Legacy' /\ t.gen \in 1..MaxLinks
        /\ t.pc \in {"sight", "complete", "mask"} => a \in Agents /\ t.got # 0
        /\ t.pc \in {"complete", "mask"} => IsCall(t.by)
        /\ t.pc \notin {"complete", "mask"} => t.by = 0 /\ ~t.note
        /\ r = 0 => t.pc \in {"sight", "complete", "mask"} /\ ~t.note
        /\ t.pc \in Pcs \ {"idle", "intercept", "insert"} /\ t.note \in BOOLEAN
    BY <1>1, <1>2 DEF Legacy
  <1>8. /\ t.pc \in Sending => (reqs'[r].kind = "call" => Forwarded(r)')
        /\ t.note => IsCall(r)'
        /\ t.pc \in {"complete", "mask"} => IsCall(t.by)'
    BY <1>4, <1>7
  <1> QED BY <1>1, <1>5, <1>6, <1>7, <1>8 DEF ThreadOK

LEMMA StreamableFullKeeps ==
    ASSUME ProxyInd, NEW c \in Conns, StreamableFull(c)
    PROVE  ProxyInd'
  <1>1. /\ thread[c].pc = "post" /\ thread[c].pc \in Sending /\ 0 \in 0..MaxLinks
        /\ work' \subseteq work \cup {<<thread[c].req, 0>>}
        /\ mode' = server /\ Shrinks
        /\ UNCHANGED <<configVars, running, reqs, link, pending, replayable, recordVars>>
    BY McpAssumption DEF StreamableFull, Sending, Streamable, Shrinks
  <1>2. CASE Done(c)
    BY <1>1, <1>2, DoneOK, QuietStep, TypeFacts DEF Done, configVars, recordVars
  <1>3. CASE thread' = [thread EXCEPT ![c].pc = "sight", ![c].got = thread[c].req]
    <2>1. Moves(c) /\ thread'[c] = [thread[c] EXCEPT !.pc = "sight", !.got = thread[c].req]
      BY <1>3, ThreadFields DEF Moves
    <2>2. thread'[c] = [pc |-> "sight", req |-> thread[c].req, agent |-> thread[c].agent,
             got |-> thread[c].req, note |-> thread[c].note, by |-> thread[c].by,
             gen |-> thread[c].gen]
      BY <2>1, ThreadFields
    <2>3. ThreadOK(c)'
      <3>1. /\ thread[c].req \in DOMAIN reqs /\ thread[c].req # 0
            /\ thread[c].agent \in Agents /\ ~thread[c].note /\ thread[c].by = 0
        BY <1>1, ThreadFields, ReqFacts DEF ThreadOK, ProxyInd, Sending
      <3>2. /\ thread'[c].pc = "sight" /\ thread'[c].got = thread[c].req
            /\ thread'[c].note = FALSE /\ thread'[c].by = 0
            /\ thread'[c] = [pc |-> thread'[c].pc, req |-> thread[c].req,
                             agent |-> thread[c].agent, got |-> thread'[c].got,
                             note |-> thread'[c].note, by |-> thread'[c].by,
                             gen |-> thread'[c].gen]
        BY <2>2, <3>1, ThreadFields DEF ThreadOK
      <3>3. UNCHANGED <<reqs, server, sessions>>
        BY <1>1 DEF configVars
      <3> QED BY <3>1, <3>2, <3>3, GoesOn DEF Pcs, Sending
    <2> QED BY <1>1, <2>1, <2>2, <2>3, QuietStep, TypeFacts DEF configVars, recordVars
  <1> QED BY <1>2, <1>3 DEF StreamableFull

\* A thread that may send has a request, and a call it has is decided.
LEMMA SendingFacts ==
    ASSUME ProxyInd, NEW c \in Conns, thread[c].pc \in Sending
    PROVE  /\ thread[c].req \in DOMAIN reqs /\ thread[c].req # 0
           /\ thread[c].agent \in Agents /\ thread[c].got \in {0} \cup DOMAIN reqs
           /\ ~thread[c].note /\ thread[c].by = 0
           /\ reqs[thread[c].req].kind = "call" => Forwarded(thread[c].req)
           /\ thread[c].pc \in {"register", "send", "wait"} =>
                 Legacy /\ thread[c].gen \in 1..MaxLinks
  BY ThreadFields, ReqFacts DEF ThreadOK, ProxyInd, Sending

LEMMA StreamableStreamKeeps ==
    ASSUME ProxyInd, NEW c \in Conns, StreamableStream(c)
    PROVE  ProxyInd'
  <1>1. /\ thread[c].pc = "post" /\ thread[c].pc \in Sending /\ 0 \in 0..MaxLinks
        /\ work' \subseteq work \cup {<<thread[c].req, 0>>}
        /\ mode' = server /\ Shrinks
        /\ replayable' = replayable \cup {thread[c].req}
        /\ thread' = [thread EXCEPT ![c].pc = "stream"]
        /\ UNCHANGED <<cap, server, sessions, running, reqs, link, pending, recordVars>>
    BY McpAssumption DEF StreamableStream, Sending, Streamable, Shrinks, configVars
  <1>2. /\ thread[c].req \in DOMAIN reqs /\ thread[c].req # 0 /\ thread[c].agent \in Agents
        /\ thread[c].got \in {0} \cup DOMAIN reqs /\ ~thread[c].note /\ thread[c].by = 0
        /\ reqs[thread[c].req].kind = "call" => Forwarded(thread[c].req)
    BY <1>1, SendingFacts
  <1>3. Moves(c) /\ ThreadOK(c)' /\ thread'[c].req = thread[c].req /\ thread'[c].pc = "stream"
    <2>1. Moves(c) /\ thread'[c] = [thread[c] EXCEPT !.pc = "stream"]
      BY <1>1, ThreadFields DEF Moves
    <2>2. thread'[c] = [pc |-> "stream", req |-> thread[c].req, agent |-> thread[c].agent,
                  got |-> thread[c].got, note |-> thread[c].note,
                  by |-> thread[c].by, gen |-> thread[c].gen]
      BY <2>1, ThreadFields
    <2>3. ThreadOK(c)'
      <3>1. /\ thread'[c].pc = "stream" /\ thread'[c].got = thread[c].got
            /\ thread'[c].got \in {0} \cup DOMAIN reqs /\ thread'[c].gen = thread[c].gen
            /\ thread'[c].note = FALSE /\ thread'[c].by = 0
            /\ thread'[c] = [pc |-> thread'[c].pc, req |-> thread[c].req,
                             agent |-> thread[c].agent, got |-> thread'[c].got,
                             note |-> thread'[c].note, by |-> thread'[c].by,
                             gen |-> thread'[c].gen]
        BY <1>1, <1>2, <2>2, ThreadFields DEF ThreadOK
      <3>2. UNCHANGED <<reqs, server, sessions>>
        BY <1>1, <1>2 DEF configVars
      <3> QED BY <1>1, <1>2, <3>1, <3>2, GoesOn DEF Pcs, Sending
    <2> QED BY <2>1, <2>2, <2>3
  <1> QED BY <1>1, <1>2, <1>3, QuietStep, TypeFacts DEF recordVars

LEMMA StreamEventKeeps ==
    ASSUME ProxyInd, NEW c \in Conns, StreamEvent(c)
    PROVE  ProxyInd'
  <1>1. /\ thread[c].pc = "stream" /\ thread[c].pc \in Sending /\ Shrinks
        /\ UNCHANGED <<cap, server, sessions, mode, running, reqs, link, pending, work,
                       replayable, recordVars>>
    BY DEF StreamEvent, Sending, Shrinks, configVars, upstreamVars
  <1>2. /\ thread[c].req \in DOMAIN reqs /\ thread[c].req # 0 /\ thread[c].agent \in Agents
        /\ thread[c].got \in {0} \cup DOMAIN reqs /\ ~thread[c].note /\ thread[c].by = 0
        /\ reqs[thread[c].req].kind = "call" => Forwarded(thread[c].req)
    BY <1>1, SendingFacts
  <1>3. CASE thread' = [thread EXCEPT ![c].pc = "sight", ![c].got = thread[c].req]
    <2>1. Moves(c) /\ thread'[c] = [thread[c] EXCEPT !.pc = "sight", !.got = thread[c].req]
      BY <1>3, ThreadFields DEF Moves
    <2>2. thread'[c] = [pc |-> "sight", req |-> thread[c].req, agent |-> thread[c].agent,
                  got |-> thread[c].req, note |-> thread[c].note,
                  by |-> thread[c].by, gen |-> thread[c].gen]
      BY <2>1, ThreadFields
    <2>3. ThreadOK(c)'
      <3>1. /\ thread'[c].pc = "sight" /\ thread'[c].got = thread[c].req
            /\ thread'[c].got \in {0} \cup DOMAIN reqs /\ thread'[c].gen = thread[c].gen
            /\ thread'[c].note = FALSE /\ thread'[c].by = 0
            /\ thread'[c] = [pc |-> thread'[c].pc, req |-> thread[c].req,
                             agent |-> thread[c].agent, got |-> thread'[c].got,
                             note |-> thread'[c].note, by |-> thread'[c].by,
                             gen |-> thread'[c].gen]
        BY <1>1, <1>2, <2>2, ThreadFields DEF ThreadOK
      <3>2. UNCHANGED <<reqs, server, sessions>>
        BY <1>1, <1>2 DEF configVars
      <3> QED BY <1>1, <1>2, <3>1, <3>2, GoesOn DEF Pcs, Sending
    <2> QED BY <1>1, <1>2, <2>1, <2>2, <2>3, QuietStep, TypeFacts DEF recordVars
  <1>4. CASE /\ reqs[thread[c].req].kind = "call"
             /\ thread' = [thread EXCEPT ![c].pc = "mask", ![c].got = thread[c].req,
                                         ![c].note = TRUE, ![c].by = thread[c].req]
    <2>0. IsCall(thread[c].req)
      BY <1>2, <1>4 DEF IsCall
    <2>1. Moves(c) /\ thread'[c] = [thread[c] EXCEPT !.pc = "mask", !.got = thread[c].req,
                                           !.note = TRUE, !.by = thread[c].req]
      BY <1>4, ThreadFields DEF Moves
    <2>2. thread'[c] = [pc |-> "mask", req |-> thread[c].req, agent |-> thread[c].agent,
                  got |-> thread[c].req, note |-> TRUE,
                  by |-> thread[c].req, gen |-> thread[c].gen]
      BY <2>1, ThreadFields
    <2>3. ThreadOK(c)'
      <3>1. /\ thread'[c].pc = "mask" /\ thread'[c].got = thread[c].req
            /\ thread'[c].got \in {0} \cup DOMAIN reqs /\ thread'[c].gen = thread[c].gen
            /\ thread'[c].note = TRUE /\ thread'[c].by = thread[c].req
            /\ thread'[c] = [pc |-> thread'[c].pc, req |-> thread[c].req,
                             agent |-> thread[c].agent, got |-> thread'[c].got,
                             note |-> thread'[c].note, by |-> thread'[c].by,
                             gen |-> thread'[c].gen]
        BY <1>1, <1>2, <2>0, <2>2, ThreadFields DEF ThreadOK
      <3>2. UNCHANGED <<reqs, server, sessions>>
        BY <1>1, <1>2, <2>0 DEF configVars
      <3> QED BY <1>1, <1>2, <2>0, <3>1, <3>2, GoesOn DEF Pcs, Sending
    <2> QED BY <1>1, <1>2, <2>1, <2>2, <2>3, QuietStep, TypeFacts DEF recordVars
  <1> QED BY <1>3, <1>4 DEF StreamEvent

LEMMA StreamEndsKeeps ==
    ASSUME ProxyInd, NEW c \in Conns, StreamEnds(c)
    PROVE  ProxyInd'
  BY DoneOK, QuietStep, TypeFacts
    DEF StreamEnds, Done, Shrinks, configVars, upstreamVars, recordVars

LEMMA OpenGetKeeps ==
    ASSUME ProxyInd, NEW c \in Conns, OpenGet(c)
    PROVE  ProxyInd'
  <1>1. PICK a \in Agents, n \in DOMAIN reqs :
           \/ /\ thread' = [thread EXCEPT ![c] = [Idle EXCEPT !.pc = "sight", !.agent = a,
                                                              !.got = n]]
              /\ UNCHANGED shown
           \/ /\ shown' = [to |-> a, for |-> 0, origin |-> n, note |-> TRUE, masked |-> FALSE]
              /\ UNCHANGED thread
    BY DEF OpenGet
  <1>2. /\ thread[c].pc = "idle" /\ Shrinks
        /\ UNCHANGED <<cap, server, sessions, mode, running, reqs, link, pending, work,
                       replayable, executions, evicted>>
    BY DEF OpenGet, Free, Shrinks, configVars, upstreamVars
  <1>3. CASE /\ thread' = [thread EXCEPT ![c] = [Idle EXCEPT !.pc = "sight", !.agent = a,
                                                             !.got = n]]
             /\ UNCHANGED shown
    <2>1. PICK q : q = [Idle EXCEPT !.pc = "sight", !.agent = a, !.got = n]
      OBVIOUS
    <2>2. Moves(c) /\ thread'[c] = q
      BY <1>3, <2>1, ThreadSet DEF ProxyInd
    <2>3. q = [pc |-> "sight", req |-> 0, agent |-> a, got |-> n, note |-> FALSE, by |-> 0,
               gen |-> 0]
      BY <2>1 DEF Idle
    <2>4. n \in DOMAIN reqs' /\ n # 0
      BY <1>2, ReqFacts DEF ProxyInd
    <2>5. ThreadOK(c)'
      BY <2>2, <2>3, <2>4 DEF ThreadOK, Pcs, Sending
    <2>6. thread'[c].req = 0 /\ thread'[c].pc = "sight"
      BY <2>2, <2>3
    <2> QED BY <1>2, <1>3, <2>2, <2>5, <2>6, QuietStep, TypeFacts
  <1>4. CASE /\ shown' = [to |-> a, for |-> 0, origin |-> n, note |-> TRUE, masked |-> FALSE]
             /\ UNCHANGED thread
    <2>1. Moves(c) /\ ThreadOK(c)'
      BY <1>2, <1>4, ThreadFields DEF Moves, ThreadOK, IsCall, Forwarded, Legacy
    <2>2. ReqsKept(c)
      BY <1>2 DEF ReqsKept
    <2>3. RecordsOK'
      <3>1. shown'.origin = n
        BY <1>4
      <3> QED BY <1>2, <2>2, <3>1, RecordsKept DEF ProxyInd
    <2>4. TypeOK'
      BY <1>2 DEF OpenGet, ProxyInd, TypeOK
    <2> QED BY <1>2, <1>4, <2>1, <2>2, <2>3, <2>4, QuietKeeps
  <1> QED BY <1>1, <1>3, <1>4

LEMMA DeleteSessionKeeps ==
    ASSUME ProxyInd, NEW c \in Conns, DeleteSession(c)
    PROVE  ProxyInd'
  <1>1. PICK dropped \in SUBSET DOMAIN inflight :
          /\ inflight' = [k \in DOMAIN inflight \ dropped |-> inflight[k]]
          /\ order' = Retain(order, Range(order) \ dropped)
          /\ evicted' = evicted \cup {inflight[k].call : k \in dropped}
    BY DEF DeleteSession
  <1>2. /\ thread[c].pc = "idle" /\ thread' = thread
        /\ UNCHANGED <<cap, server, sessions, mode, running, reqs, link, pending, work,
                       replayable, executions, shown>>
    BY DEF DeleteSession, Free, configVars, upstreamVars
  <1>3. Shrinks
    <2>1. DOMAIN inflight \ dropped = DOMAIN inflight \cap (Range(order) \ dropped)
      BY DEF ProxyInd, BookOK
    <2> QED BY <1>1, <2>1 DEF Shrinks
  <1>4. evicted' \subseteq DOMAIN reqs
    BY <1>1, TypeFacts DEF ProxyInd, BookOK, IsCall
  <1>5. Moves(c) /\ ThreadOK(c)'
    BY <1>2, ThreadFields DEF Moves, ThreadOK, IsCall, Forwarded, Legacy
  <1> QED BY <1>1, <1>2, <1>3, <1>4, <1>5, QuietStep, TypeFacts

LEMMA FallbackKeeps ==
    ASSUME ProxyInd, NEW c \in Conns, Fallback(c)
    PROVE  ProxyInd'
  <1>1. /\ thread[c].pc = "post" /\ Shrinks /\ mode' \in {mode, server}
        /\ UNCHANGED <<cap, server, sessions, running, reqs, link, pending, work, replayable,
                       recordVars>>
    BY DEF Fallback, Legacy, Shrinks, configVars
  <1>2. CASE Done(c)
    BY <1>1, <1>2, DoneOK, QuietStep, TypeFacts DEF Done, recordVars
  <1>3. CASE UNCHANGED thread
    <2>1. Moves(c) /\ ThreadOK(c)'
      BY <1>1, <1>3, ThreadFields DEF Moves, ThreadOK, IsCall, Forwarded, Legacy
    <2> QED BY <1>1, <1>3, <2>1, QuietStep, TypeFacts DEF recordVars
  <1> QED BY <1>2, <1>3 DEF Fallback

LEMMA GenFacts ==
    /\ Gen \in 0..MaxLinks
    /\ \A g \in 1..MaxLinks : link[g] = "up" => Gen > 0
  <1> DEFINE G == {g \in 1..MaxLinks : link[g] # "none"}
  <1>1. IsFiniteSet(1..MaxLinks) /\ Cardinality(1..MaxLinks) = MaxLinks /\ MaxLinks \in Nat
    BY FS_Interval, McpAssumption
  <1>2. IsFiniteSet(G) /\ Cardinality(G) <= MaxLinks
    <2>1. G \in SUBSET (1..MaxLinks)
      OBVIOUS
    <2> HIDE DEF G
    <2> QED BY <1>1, <2>1, FS_Subset
  <1>3. Cardinality(G) \in Nat /\ (G # {} => Cardinality(G) # 0)
    BY <1>2, FS_CardinalityType, FS_EmptySet
  <1>4. \A g \in 1..MaxLinks : link[g] = "up" => G # {}
    OBVIOUS
  <1>5. Gen = Cardinality(G)
    BY DEF Gen
  <1> HIDE DEF G
  <1> QED BY <1>1, <1>2, <1>3, <1>4, <1>5

LEMMA ConnectKeeps ==
    ASSUME ProxyInd, NEW c \in Conns, Connect(c)
    PROVE  ProxyInd'
  <1>1. /\ thread[c].pc = "post" /\ thread[c].pc \in Sending /\ Legacy
        /\ UNCHANGED <<cap, server, sessions, mode, running, reqs, pending, work, replayable,
                       recordVars>>
    BY DEF Connect, Sending, configVars
  <1>2. /\ thread[c].req \in DOMAIN reqs /\ thread[c].req # 0 /\ thread[c].agent \in Agents
        /\ thread[c].got \in {0} \cup DOMAIN reqs /\ ~thread[c].note /\ thread[c].by = 0
        /\ reqs[thread[c].req].kind = "call" => Forwarded(thread[c].req)
    BY <1>1, SendingFacts
  <1>3. CASE FailPost(c) /\ UNCHANGED link
    <2>1. thread' = [thread EXCEPT ![c] = Idle] /\ Shrinks
      BY <1>3, FailPostShrinks DEF ProxyInd
    <2> QED BY <1>1, <1>3, <2>1, DoneOK, QuietStep, TypeFacts DEF recordVars
  <1>4. ASSUME NEW g \in 1..MaxLinks, UNCHANGED <<inflight, order>>,
               thread' = [thread EXCEPT ![c].pc = "register", ![c].gen = g],
               \/ link' = link
               \/ link' = [link EXCEPT ![g] = "up"]
        PROVE  ProxyInd'
    <2>1. Moves(c) /\ thread'[c] = [thread[c] EXCEPT !.pc = "register", !.gen = g]
      BY <1>4, ThreadFields DEF Moves
    <2>2. thread'[c] = [pc |-> "register", req |-> thread[c].req, agent |-> thread[c].agent,
                  got |-> thread[c].got, note |-> thread[c].note,
                  by |-> thread[c].by, gen |-> g]
      BY <2>1, ThreadFields
    <2>3. ThreadOK(c)'
      <3>1. /\ thread'[c].pc = "register" /\ thread'[c].got = thread[c].got
            /\ thread'[c].got \in {0} \cup DOMAIN reqs /\ thread'[c].gen = g
            /\ thread'[c].note = FALSE /\ thread'[c].by = 0
            /\ thread'[c] = [pc |-> thread'[c].pc, req |-> thread[c].req,
                             agent |-> thread[c].agent, got |-> thread'[c].got,
                             note |-> thread'[c].note, by |-> thread'[c].by,
                             gen |-> thread'[c].gen]
        BY <1>1, <1>2, <2>2, ThreadFields DEF ThreadOK
      <3>2. UNCHANGED <<reqs, server, sessions>>
        BY <1>1, <1>2 DEF configVars
      <3> QED BY <1>1, <1>2, <3>1, <3>2, GoesOn DEF Pcs, Sending
    <2>4. Shrinks
      BY <1>4 DEF Shrinks
    <2>5. thread'[c].pc = "register" /\ thread'[c].req = thread[c].req
      BY <2>2
    <2> QED BY <1>1, <1>2, <1>4, <2>1, <2>3, <2>4, <2>5, QuietStep, TypeFacts DEF recordVars
  <1>5. MaxLinks \in Nat
    BY McpAssumption
  <1>6. CASE /\ \E g \in 1..MaxLinks : link[g] = "up"
             /\ thread' = [thread EXCEPT ![c].pc = "register", ![c].gen = Gen]
             /\ UNCHANGED <<link, inflight, order>>
    <2>1. PICK g : g = Gen
      OBVIOUS
    <2>2. g \in 1..MaxLinks
      BY <1>5, <1>6, <2>1, GenFacts
    <2> QED BY <1>4, <1>6, <2>1, <2>2
  <1>7. CASE /\ Gen < MaxLinks
             /\ link' = [link EXCEPT ![Gen + 1] = "up"]
             /\ thread' = [thread EXCEPT ![c].pc = "register", ![c].gen = Gen + 1]
             /\ UNCHANGED <<inflight, order>>
    <2>1. Gen + 1 \in 1..MaxLinks
      BY <1>5, <1>7, GenFacts
    <2> QED BY <1>4, <1>7, <2>1
  <1> QED BY <1>3, <1>6, <1>7 DEF Connect

LEMMA RegisterKeeps ==
    ASSUME ProxyInd, NEW c \in Conns, Register(c)
    PROVE  ProxyInd'
  <1>1. /\ thread[c].pc = "register" /\ thread[c].pc \in Sending /\ Shrinks
        /\ thread' = [thread EXCEPT ![c].pc = "send"]
        /\ pending' \subseteq pending \cup
              {[gen |-> thread[c].gen, id |-> reqs[thread[c].req].id, conn |-> c]}
        /\ UNCHANGED <<cap, server, sessions, mode, running, reqs, link, work, replayable,
                       recordVars>>
    BY DEF Register, Sending, Shrinks, configVars
  <1>2. /\ thread[c].req \in DOMAIN reqs /\ thread[c].req # 0 /\ thread[c].agent \in Agents
        /\ thread[c].got \in {0} \cup DOMAIN reqs /\ ~thread[c].note /\ thread[c].by = 0
        /\ reqs[thread[c].req].kind = "call" => Forwarded(thread[c].req)
        /\ Legacy /\ thread[c].gen \in 1..MaxLinks
    BY <1>1, SendingFacts
  <1>3. pending' \subseteq [gen : 1..MaxLinks, id : Ids, conn : Conns]
    <2>1. reqs[thread[c].req].id \in Ids
      BY <1>2, ReqFacts DEF ProxyInd
    <2> QED BY <1>1, <1>2, <2>1, TypeFacts
  <1>4. Moves(c) /\ thread'[c] = [thread[c] EXCEPT !.pc = "send"]
    BY <1>1, ThreadFields DEF Moves
  <1>5. thread'[c] = [pc |-> "send", req |-> thread[c].req, agent |-> thread[c].agent,
                got |-> thread[c].got, note |-> thread[c].note,
                by |-> thread[c].by, gen |-> thread[c].gen]
    BY <1>4, ThreadFields
  <1>6. ThreadOK(c)'
    <2>1. /\ thread'[c].pc = "send" /\ thread'[c].got = thread[c].got
          /\ thread'[c].got \in {0} \cup DOMAIN reqs /\ thread'[c].gen = thread[c].gen
          /\ thread'[c].note = FALSE /\ thread'[c].by = 0
          /\ thread'[c] = [pc |-> thread'[c].pc, req |-> thread[c].req,
                           agent |-> thread[c].agent, got |-> thread'[c].got,
                           note |-> thread'[c].note, by |-> thread'[c].by,
                           gen |-> thread'[c].gen]
      BY <1>1, <1>2, <1>5, ThreadFields DEF ThreadOK
    <2>2. UNCHANGED <<reqs, server, sessions>>
      BY <1>1, <1>2 DEF configVars
    <2> QED BY <1>1, <1>2, <2>1, <2>2, GoesOn DEF Pcs, Sending
  <1> QED BY <1>1, <1>2, <1>3, <1>4, <1>5, <1>6, QuietStep, TypeFacts DEF recordVars

LEMMA SendKeeps ==
    ASSUME ProxyInd, NEW c \in Conns, Send(c)
    PROVE  ProxyInd'
  <1>1. /\ thread[c].pc = "send" /\ thread[c].pc \in Sending
        /\ UNCHANGED <<cap, server, sessions, mode, running, reqs, link, replayable,
                       recordVars>>
    BY DEF Send, Sending, configVars
  <1>2. /\ thread[c].req \in DOMAIN reqs /\ thread[c].req # 0 /\ thread[c].agent \in Agents
        /\ thread[c].got \in {0} \cup DOMAIN reqs /\ ~thread[c].note /\ thread[c].by = 0
        /\ reqs[thread[c].req].kind = "call" => Forwarded(thread[c].req)
        /\ Legacy /\ thread[c].gen \in 1..MaxLinks
    BY <1>1, SendingFacts
  <1>3. CASE /\ work' = work \cup {<<thread[c].req, thread[c].gen>>}
             /\ thread' = [thread EXCEPT ![c].pc = "wait"]
             /\ UNCHANGED <<pending, inflight, order>>
    <2>1. Moves(c) /\ thread'[c] = [thread[c] EXCEPT !.pc = "wait"]
      BY <1>3, ThreadFields DEF Moves
    <2>2. thread'[c] = [pc |-> "wait", req |-> thread[c].req, agent |-> thread[c].agent,
                  got |-> thread[c].got, note |-> thread[c].note,
                  by |-> thread[c].by, gen |-> thread[c].gen]
      BY <2>1, ThreadFields
    <2>3. ThreadOK(c)'
      <3>1. /\ thread'[c].pc = "wait" /\ thread'[c].got = thread[c].got
            /\ thread'[c].got \in {0} \cup DOMAIN reqs /\ thread'[c].gen = thread[c].gen
            /\ thread'[c].note = FALSE /\ thread'[c].by = 0
            /\ thread'[c] = [pc |-> thread'[c].pc, req |-> thread[c].req,
                             agent |-> thread[c].agent, got |-> thread'[c].got,
                             note |-> thread'[c].note, by |-> thread'[c].by,
                             gen |-> thread'[c].gen]
        BY <1>1, <1>2, <2>2, ThreadFields DEF ThreadOK
      <3>2. UNCHANGED <<reqs, server, sessions>>
        BY <1>1, <1>2 DEF configVars
      <3> QED BY <1>1, <1>2, <3>1, <3>2, GoesOn DEF Pcs, Sending
    <2>4. thread[c].gen \in 0..MaxLinks /\ Shrinks
      BY <1>2, <1>3 DEF Shrinks
    <2> QED BY <1>1, <1>3, <2>1, <2>2, <2>3, <2>4, QuietStep, TypeFacts DEF recordVars
  <1>4. CASE /\ pending' \subseteq pending
             /\ work' \subseteq work \cup {<<thread[c].req, thread[c].gen>>}
             /\ FailPost(c) \/ (Done(c) /\ UNCHANGED <<inflight, order>>)
    <2>1. thread' = [thread EXCEPT ![c] = Idle] /\ Shrinks
      BY <1>4, FailPostShrinks DEF ProxyInd, Done, Shrinks
    <2>2. thread[c].gen \in 0..MaxLinks
      BY <1>2
    <2> QED BY <1>1, <1>4, <2>1, <2>2, DoneOK, QuietStep, TypeFacts DEF recordVars
  <1>5. CASE /\ pending' \subseteq pending
             /\ work' \subseteq work \cup {<<thread[c].req, thread[c].gen>>}
             /\ thread' = [thread EXCEPT ![c].pc = "sight", ![c].got = thread[c].req]
             /\ UNCHANGED <<inflight, order>>
    <2>1. Moves(c) /\ thread'[c] = [thread[c] EXCEPT !.pc = "sight", !.got = thread[c].req]
      BY <1>5, ThreadFields DEF Moves
    <2>2. thread'[c] = [pc |-> "sight", req |-> thread[c].req, agent |-> thread[c].agent,
                  got |-> thread[c].req, note |-> thread[c].note,
                  by |-> thread[c].by, gen |-> thread[c].gen]
      BY <2>1, ThreadFields
    <2>3. ThreadOK(c)'
      <3>1. /\ thread'[c].pc = "sight" /\ thread'[c].got = thread[c].req
            /\ thread'[c].note = FALSE /\ thread'[c].by = 0
            /\ thread'[c] = [pc |-> thread'[c].pc, req |-> thread[c].req,
                             agent |-> thread[c].agent, got |-> thread'[c].got,
                             note |-> thread'[c].note, by |-> thread'[c].by,
                             gen |-> thread'[c].gen]
        BY <1>1, <1>2, <2>2, ThreadFields DEF ThreadOK
      <3>2. UNCHANGED <<reqs, server, sessions>>
        BY <1>1, <1>2 DEF configVars
      <3> QED BY <1>1, <1>2, <3>1, <3>2, GoesOn DEF Pcs, Sending
    <2>4. thread[c].gen \in 0..MaxLinks /\ Shrinks
      BY <1>2, <1>5 DEF Shrinks
    <2>5. /\ pending' \subseteq [gen : 1..MaxLinks, id : Ids, conn : Conns]
          /\ work' \subseteq work \cup {<<thread[c].req, thread[c].gen>>}
      BY <1>5, TypeFacts
    <2>6. thread'[c].pc = "sight" /\ thread'[c].req = thread[c].req
      BY <2>2
    <2>7. replayable' \subseteq DOMAIN reqs /\ evicted' \subseteq DOMAIN reqs
          /\ running' \in BOOLEAN
      BY <1>1, TypeFacts DEF recordVars
    <2> QED BY <1>1, <2>1, <2>3, <2>4, <2>5, <2>6, <2>7, QuietStep DEF recordVars
  <1>6. \/ /\ work' = work \cup {<<thread[c].req, thread[c].gen>>}
           /\ thread' = [thread EXCEPT ![c].pc = "wait"]
           /\ UNCHANGED <<pending, inflight, order>>
        \/ /\ work' \in {work, work \cup {<<thread[c].req, thread[c].gen>>}}
           /\ pending' = pending \ Waiters(thread[c].gen, reqs[thread[c].req].id)
           /\ \/ FailPost(c)
              \/ Done(c) /\ UNCHANGED <<inflight, order>>
              \/ /\ thread' = [thread EXCEPT ![c].pc = "sight", ![c].got = thread[c].req]
                 /\ UNCHANGED <<inflight, order>>
    BY DEF Send
  <1>7. ASSUME pending' = pending \ Waiters(thread[c].gen, reqs[thread[c].req].id),
               work' \in {work, work \cup {<<thread[c].req, thread[c].gen>>}}
        PROVE  /\ pending' \subseteq pending
               /\ work' \subseteq work \cup {<<thread[c].req, thread[c].gen>>}
    BY <1>7
  <1> QED BY <1>3, <1>4, <1>5, <1>6, <1>7

LEMMA ReceiveKeeps ==
    ASSUME ProxyInd, NEW c \in Conns, Receive(c)
    PROVE  ProxyInd'
  <1>1. /\ thread[c].pc = "wait" /\ thread[c].pc \in Sending
        /\ UNCHANGED <<cap, server, sessions, mode, running, reqs, link, work, replayable,
                       recordVars>>
    BY DEF Receive, Sending, configVars
  <1>2. /\ thread[c].req \in DOMAIN reqs /\ thread[c].req # 0 /\ thread[c].agent \in Agents
        /\ thread[c].got \in {0} \cup DOMAIN reqs /\ ~thread[c].note /\ thread[c].by = 0
        /\ reqs[thread[c].req].kind = "call" => Forwarded(thread[c].req)
    BY <1>1, SendingFacts
  <1>3. CASE /\ thread[c].got > 0
             /\ thread' = [thread EXCEPT ![c].pc = "sight"]
             /\ UNCHANGED <<pending, inflight, order>>
    <2>0. thread[c].got # 0
      BY <1>3
    <2>1. Moves(c) /\ thread'[c] = [thread[c] EXCEPT !.pc = "sight"]
      BY <1>3, ThreadFields DEF Moves
    <2>2. thread'[c] = [pc |-> "sight", req |-> thread[c].req, agent |-> thread[c].agent,
                  got |-> thread[c].got, note |-> thread[c].note,
                  by |-> thread[c].by, gen |-> thread[c].gen]
      BY <2>1, ThreadFields
    <2>3. ThreadOK(c)'
      <3>1. /\ thread'[c].pc = "sight" /\ thread'[c].got = thread[c].got
            /\ thread'[c].got \in {0} \cup DOMAIN reqs /\ thread'[c].gen = thread[c].gen
            /\ thread'[c].note = FALSE /\ thread'[c].by = 0
            /\ thread'[c] = [pc |-> thread'[c].pc, req |-> thread[c].req,
                             agent |-> thread[c].agent, got |-> thread'[c].got,
                             note |-> thread'[c].note, by |-> thread'[c].by,
                             gen |-> thread'[c].gen]
        BY <1>1, <1>2, <2>0, <2>2, ThreadFields DEF ThreadOK
      <3>2. UNCHANGED <<reqs, server, sessions>>
        BY <1>1, <1>2, <2>0 DEF configVars
      <3> QED BY <1>1, <1>2, <2>0, <3>1, <3>2, GoesOn DEF Pcs, Sending
    <2>4. Shrinks
      BY <1>3 DEF Shrinks
    <2> QED BY <1>1, <1>3, <2>1, <2>2, <2>3, <2>4, QuietStep, TypeFacts DEF recordVars
  <1>4. CASE pending' \subseteq pending /\ FailPost(c)
    <2>1. thread' = [thread EXCEPT ![c] = Idle] /\ Shrinks
      BY <1>4, FailPostShrinks DEF ProxyInd
    <2> QED BY <1>1, <1>4, <2>1, DoneOK, QuietStep, TypeFacts DEF recordVars
  <1> QED BY <1>3, <1>4 DEF Receive

\* No thread moves, and the book stays as it is.
LEMMA StillKeeps ==
    ASSUME ProxyInd, UNCHANGED <<cap, server, sessions, mode, reqs, thread, inflight,
                                 order, work,
                                 replayable, recordVars>>,
           running' \in BOOLEAN, pending' \subseteq pending,
           \/ link' = link
           \/ \E g \in 1..MaxLinks, l \in {"up", "closing", "down"} :
                 link' = [link EXCEPT ![g] = l]
    PROVE  ProxyInd'
  <1>1. \A n : /\ IsCall(n)' = IsCall(n) /\ Key(n)' = Key(n) /\ Unseen(n)' = Unseen(n)
               /\ Forwarded(n)' = Forwarded(n)
    BY DEF IsCall, Forwarded, Key, session_of, Unseen, recordVars
  <1>2. ThreadsOK'
    <2>1. \A c \in Conns : ThreadOK(c)'
      BY <1>1 DEF ProxyInd, ThreadsOK, ThreadOK, Legacy
    <2> QED BY <2>1 DEF ProxyInd, ThreadsOK
  <1>3. RecordsOK'
    BY RecordsKept, ReqsSame DEF ProxyInd, RecordsOK, recordVars
  <1>4. BookOK'
    BY <1>1 DEF ProxyInd, BookOK
  <1>5. OnceOK'
    BY <1>1 DEF ProxyInd, OnceOK, recordVars
  <1>6. TypeOK'
    BY DEF ProxyInd, TypeOK, recordVars
  <1> QED BY <1>1, <1>2, <1>3, <1>4, <1>5, <1>6
        DEF ProxyInd, OnlyDecidedForwarded, OneExecution, recordVars

LEMMA LinkDownKeeps ==
    ASSUME ProxyInd, NEW g \in 1..MaxLinks, LinkDown(g)
    PROVE  ProxyInd'
  BY StillKeeps, TypeFacts DEF LinkDown, configVars

LEMMA StopKeeps ==
    ASSUME ProxyInd, Stop
    PROVE  ProxyInd'
  BY StillKeeps DEF Stop, configVars, upstreamVars

\* A response for waiters: each of them has got it.
LEMMA DeliverKeeps ==
    ASSUME ProxyInd, NEW n \in DOMAIN reqs, NEW g, Deliver(n, g)
    PROVE  ProxyInd'
  <1>1. /\ \A c \in Conns : \/ thread'[c] = thread[c]
                            \/ thread'[c] = [thread[c] EXCEPT !.got = n]
        /\ thread' = [c \in Conns |-> thread'[c]]
        /\ work' \subseteq work /\ pending' \subseteq pending
        /\ UNCHANGED <<cap, server, sessions, mode, running, reqs, inflight, order, link,
                       replayable, recordVars>>
    BY DEF Deliver, configVars
  <1>2. \A m : /\ IsCall(m)' = IsCall(m) /\ Key(m)' = Key(m) /\ Forwarded(m)' = Forwarded(m)
    BY <1>1 DEF IsCall, Forwarded, Key, session_of
  <1>3. n # 0
    BY ReqFacts DEF ProxyInd
  <1>4. ASSUME NEW c \in Conns
        PROVE  /\ thread'[c] = [pc |-> thread[c].pc, req |-> thread[c].req,
                     agent |-> thread[c].agent, got |-> thread'[c].got,
                     note |-> thread[c].note, by |-> thread[c].by, gen |-> thread[c].gen]
               /\ thread'[c].got \in {thread[c].got, n}
               /\ thread'[c].pc = thread[c].pc /\ thread'[c].by = thread[c].by
               /\ thread'[c].req = thread[c].req
    BY <1>1, ThreadFields
  <1>5. ThreadsOK'
    <2>1. ASSUME NEW c \in Conns PROVE ThreadOK(c)'
      <3>1. PICK t, u : t = thread[c] /\ u = thread'[c]
        OBVIOUS
      <3>2. ThreadOK(c)
        BY ThreadFields
      <3>3. /\ u = [pc |-> t.pc, req |-> t.req, agent |-> t.agent, got |-> u.got,
                    note |-> t.note, by |-> t.by, gen |-> t.gen]
            /\ u.got \in {t.got, n}
        BY <1>4, <3>1
      <3>4. /\ t.pc \in Pcs /\ t.note \in BOOLEAN
            /\ t.req \in {0} \cup DOMAIN reqs' /\ u.got \in {0} \cup DOMAIN reqs'
            /\ t.pc = "idle" => t.req = 0
            /\ t.req # 0 => t.agent = reqs'[t.req].agent
            /\ t.req = 0 /\ t.pc # "idle" => t.pc \in {"sight", "complete", "mask"} /\ ~t.note
            /\ t.pc = "intercept" => reqs'[t.req].kind = "call" /\ reqs'[t.req].verdict = "none"
            /\ t.pc \in {"register", "send", "wait"} => Legacy' /\ t.gen \in 1..MaxLinks
            /\ t.pc \in {"sight", "complete", "mask"} => t.agent \in Agents /\ u.got # 0
            /\ t.pc \notin {"complete", "mask"} => t.by = 0 /\ ~t.note
            /\ t.note => t.pc = "mask"
        BY <1>1, <1>3, <3>1, <3>2, <3>3 DEF ThreadOK, Legacy
      <3>5. /\ t.pc = "insert" => IsCall(t.req)'
            /\ t.pc \in Sending => (reqs'[t.req].kind = "call" => Forwarded(t.req)')
            /\ t.pc \in {"complete", "mask"} => IsCall(t.by)'
            /\ t.note => IsCall(t.req)'
        BY <1>1, <1>2, <3>1, <3>2 DEF ThreadOK
      <3> QED BY <3>1, <3>3, <3>4, <3>5 DEF ThreadOK
    <2>2. \A c \in Conns : thread'[c].req = thread[c].req
      BY <1>4
    <2> QED BY <1>1, <2>1, <2>2 DEF ProxyInd, ThreadsOK
  <1>6. RecordsOK'
    BY <1>1, RecordsKept, ReqsSame DEF ProxyInd, RecordsOK, recordVars
  <1>7. BookOK'
    BY <1>1, <1>2 DEF ProxyInd, BookOK
  <1>8. OnceOK'
    <2>1. \A c \in Conns : /\ thread'[c].pc = thread[c].pc /\ thread'[c].by = thread[c].by
                           /\ thread'[c].req = thread[c].req
      BY <1>4
    <2>2. \A m : Unseen(m)' = Unseen(m)
      BY <1>1, <2>1 DEF Unseen, recordVars
    <2> QED BY <1>1, <2>1, <2>2 DEF ProxyInd, OnceOK, recordVars
  <1>9. TypeOK'
    BY <1>1 DEF ProxyInd, TypeOK, recordVars
  <1> QED BY <1>1, <1>2, <1>5, <1>6, <1>7, <1>8, <1>9
        DEF ProxyInd, OnlyDecidedForwarded, OneExecution, recordVars

\* What a new request n changes.
LEMMA AcceptFacts ==
    ASSUME ProxyInd, NEW c \in Conns, Accept(c), NEW n, n = Len(reqs) + 1
    PROVE  /\ UNCHANGED <<cap, server, sessions, mode, running, inflight, order, link,
                          pending, work,
                          replayable, executions, shown, evicted>>
           /\ thread[c].pc = "idle"
           /\ DOMAIN reqs' = DOMAIN reqs \cup {n} /\ n \notin DOMAIN reqs /\ n # 0
           /\ \A m \in DOMAIN reqs : reqs'[m] = reqs[m]
           /\ reqs'[n] \in [agent : Agents, id : Ids, kind : {"call", "list"},
                            reads : {"sse", "json", "batch"},
                            verdict : {"none", "allow", "redact", "refuse"}]
           /\ reqs'[n].verdict = "none"
           /\ \A m \in DOMAIN reqs : reqs[m].id = reqs'[n].id =>
                 reqs[m].agent # reqs'[n].agent
           /\ reqs' \in Seq([agent : Agents, id : Ids, kind : {"call", "list"},
                             reads : {"sse", "json", "batch"},
                             verdict : {"none", "allow", "redact", "refuse"}])
           /\ ReqsKept(c) /\ Moves(c)
           /\ thread'[c] = [pc |-> IF reqs'[n].kind = "call" THEN "intercept" ELSE "post",
                            req |-> n, agent |-> reqs'[n].agent, got |-> 0, note |-> FALSE,
                            by |-> 0, gen |-> 0]
  <1>1. PICK a \in Agents, i \in Ids, r \in Requests :
          /\ \A m \in DOMAIN reqs : reqs[m].id = i =>
                reqs[m].agent # a
          /\ reqs' = Append(reqs, [agent |-> a, id |-> i, kind |-> r[1], reads |-> r[2],
                                   verdict |-> "none"])
          /\ thread' = [thread EXCEPT ![c] = [Idle EXCEPT
                !.pc = IF r[1] = "call" THEN "intercept" ELSE "post",
                !.req = Len(reqs) + 1, !.agent = a]]
    BY DEF Accept
  <1>2. /\ thread[c].pc = "idle"
        /\ UNCHANGED <<cap, server, sessions, mode, running, inflight, order, link,
                       pending, work,
                       replayable, executions, shown, evicted>>
    BY DEF Accept, Free, configVars, upstreamVars, recordVars
  <1>3. PICK x : x = [agent |-> a, id |-> i, kind |-> r[1], reads |-> r[2], verdict |-> "none"]
    OBVIOUS
  <1>4. x \in [agent : Agents, id : Ids, kind : {"call", "list"},
               reads : {"sse", "json", "batch"},
               verdict : {"none", "allow", "redact", "refuse"}]
    BY <1>3, McpAssumption
  <1>5. /\ DOMAIN reqs' = DOMAIN reqs \cup {n} /\ n \notin DOMAIN reqs /\ n # 0
        /\ \A m \in DOMAIN reqs : reqs'[m] = reqs[m]
        /\ reqs'[n] = x
        /\ reqs' \in Seq([agent : Agents, id : Ids, kind : {"call", "list"},
                          reads : {"sse", "json", "batch"},
                          verdict : {"none", "allow", "redact", "refuse"}])
    <2>1. reqs' = Append(reqs, x)
      BY <1>1, <1>3
    <2> QED BY <1>4, <2>1 DEF ProxyInd, TypeOK
  <1>6. PICK q : q = [Idle EXCEPT !.pc = IF r[1] = "call" THEN "intercept" ELSE "post",
                                  !.req = n, !.agent = a]
    OBVIOUS
  <1>7. q = [pc |-> IF r[1] = "call" THEN "intercept" ELSE "post", req |-> n, agent |-> a,
             got |-> 0, note |-> FALSE, by |-> 0, gen |-> 0]
    BY <1>6 DEF Idle
  <1>8. Moves(c) /\ thread'[c] = q
    <2>1. thread' = [thread EXCEPT ![c] = q]
      BY <1>1, <1>6
    <2> QED BY <2>1, ThreadSet DEF ProxyInd
  <1>9. ReqsKept(c)
    BY <1>2, <1>5 DEF ReqsKept
  <1>10. /\ x.verdict = "none" /\ x.agent = a /\ x.id = i /\ x.kind = r[1]
    BY <1>3
  <1>11. \A m \in DOMAIN reqs : reqs[m].id = x.id =>
            reqs[m].agent # x.agent
    BY <1>1, <1>10
  <1>12. thread'[c] = [pc |-> IF x.kind = "call" THEN "intercept" ELSE "post", req |-> n,
                       agent |-> x.agent, got |-> 0, note |-> FALSE, by |-> 0, gen |-> 0]
    BY <1>7, <1>8, <1>10
  <1> QED BY <1>2, <1>4, <1>5, <1>8, <1>9, <1>10, <1>11, <1>12

LEMMA AcceptKeeps ==
    ASSUME ProxyInd, NEW c \in Conns, Accept(c)
    PROVE  ProxyInd'
  <1>0. PICK n : n = Len(reqs) + 1
    OBVIOUS
  <1>1. /\ UNCHANGED <<cap, server, sessions, mode, running, inflight, order, link,
                       pending, work,
                        replayable, executions, shown, evicted>>
        /\ thread[c].pc = "idle"
        /\ DOMAIN reqs' = DOMAIN reqs \cup {n} /\ n \notin DOMAIN reqs /\ n # 0
        /\ \A m \in DOMAIN reqs : reqs'[m] = reqs[m]
        /\ reqs'[n] \in [agent : Agents, id : Ids, kind : {"call", "list"},
                         reads : {"sse", "json", "batch"},
                         verdict : {"none", "allow", "redact", "refuse"}]
        /\ reqs'[n].verdict = "none"
        /\ \A m \in DOMAIN reqs : reqs[m].id = reqs'[n].id =>
               reqs[m].agent # reqs'[n].agent
        /\ reqs' \in Seq([agent : Agents, id : Ids, kind : {"call", "list"},
                           reads : {"sse", "json", "batch"},
                           verdict : {"none", "allow", "redact", "refuse"}])
        /\ ReqsKept(c) /\ Moves(c)
        /\ thread'[c] = [pc |-> IF reqs'[n].kind = "call" THEN "intercept" ELSE "post", req |-> n,
                          agent |-> reqs'[n].agent, got |-> 0, note |-> FALSE, by |-> 0, gen |-> 0]
    BY <1>0, AcceptFacts
  <1>2. ThreadOK(c)'
    <2>1. PICK t : t = thread'[c]
      OBVIOUS
    <2>2. /\ t = [pc |-> t.pc, req |-> n, agent |-> reqs'[n].agent, got |-> 0, note |-> FALSE,
                  by |-> 0, gen |-> 0]
          /\ t.pc = IF reqs'[n].kind = "call" THEN "intercept" ELSE "post"
      BY <1>1, <2>1
    <2>3. /\ reqs'[n].kind \in {"call", "list"} /\ reqs'[n].verdict = "none" /\ n \in DOMAIN reqs'
          /\ n # 0
      BY <1>1
    <2>4. /\ t.req = n /\ t.agent = reqs'[n].agent /\ t.got = 0 /\ t.note = FALSE /\ t.by = 0
          /\ t.pc \in {"intercept", "post"} /\ (t.pc = "intercept" <=> reqs'[n].kind = "call")
          /\ t = [pc |-> t.pc, req |-> t.req, agent |-> t.agent, got |-> t.got,
                  note |-> t.note, by |-> t.by, gen |-> t.gen]
      BY <2>2
    <2> QED BY <2>1, <2>3, <2>4 DEF ThreadOK, Pcs, Sending
  <1>3. TypeOK'
    BY <1>1 DEF ProxyInd, TypeOK
  <1>4. ThreadsOK'
    BY <1>1, <1>2, ThreadStep DEF ProxyInd
  <1>5. RecordsOK'
    BY <1>1, RecordsKept DEF ProxyInd, RecordsOK
  <1>6. BookOK'
    BY <1>1, BookShrinks DEF ProxyInd, Shrinks
  <1>7. OnlyDecidedForwarded'
    BY <1>1, WorkKept DEF ProxyInd
  <1>8. OnceOK'
    <2>1. /\ \A d \in Conns \ {c} : thread'[d] = thread[d]
          /\ thread'[c].pc \notin {"complete", "insert"} /\ thread'[c].req = n
      BY <1>1 DEF Moves
    <2>2. /\ \A d \in Conns : thread[d].pc = "complete" => thread[d].by # n
          /\ \A y \in executions : y.call # n
          /\ \A k \in DOMAIN inflight : inflight[k].call # n
      BY <1>1 DEF ProxyInd, ThreadsOK, ThreadOK, RecordsOK, BookOK, IsCall
    <2>3. \A m : Unseen(m) => Unseen(m)'
      BY <1>1, <2>1 DEF Unseen
    <2>4. Unseen(n)'
      BY <1>1, <2>1, <2>2 DEF Unseen
    <2>5. ASSUME NEW d \in Conns, thread'[d].pc \in {"intercept", "insert"}
          PROVE  /\ Unseen(thread[d].req)'
                 /\ \A k \in DOMAIN inflight' : inflight'[k].call # thread'[d].req
      <3>1. PICK m : m = thread'[d].req
        OBVIOUS
      <3>2. Unseen(m)' /\ \A k \in DOMAIN inflight : inflight[k].call # m
        <4>1. CASE d = c
          BY <2>1, <2>2, <2>4, <3>1, <4>1
        <4>2. CASE d # c
          BY <2>1, <2>3, <2>5, <3>1, <4>2 DEF ProxyInd, OnceOK
        <4> QED BY <4>1, <4>2
      <3> QED BY <1>1, <3>1, <3>2
    <2>6. ASSUME NEW k \in DOMAIN inflight', ~inflight'[k].done
          PROVE  Unseen(inflight[k].call)'
      <3>1. PICK m : m = inflight[k].call
        OBVIOUS
      <3>2. Unseen(m)'
        BY <1>1, <2>3, <2>6, <3>1 DEF ProxyInd, OnceOK
      <3> QED BY <1>1, <3>1, <3>2
    <2>7. \A d \in Conns : thread'[d].pc = "complete" =>
             d # c /\ thread[d].pc = "complete" /\ thread'[d] = thread[d]
      BY <2>1
    <2> QED BY <1>1, <2>5, <2>6, <2>7 DEF ProxyInd, OnceOK
  <1> QED BY <1>1, <1>3, <1>4, <1>5, <1>6, <1>7, <1>8 DEF ProxyInd, OneExecution

\* What the interceptor's decision v on request n changes.
LEMMA InterceptFacts ==
    ASSUME ProxyInd, NEW c \in Conns, Intercept(c)
    PROVE  \E n, v :
          /\ n = thread[c].req /\ v \in Verdicts
          /\ UNCHANGED <<cap, server, sessions, mode, running, inflight, order, link,
                         pending, work,
                         replayable, executions, shown, evicted>>
          /\ thread[c].pc = "intercept"
          /\ n \in DOMAIN reqs /\ reqs[n].kind = "call" /\ reqs[n].verdict = "none" /\ n # 0
          /\ thread[c].agent = reqs[n].agent /\ thread[c].got \in {0} \cup DOMAIN reqs
          /\ DOMAIN reqs' = DOMAIN reqs /\ \A m \in DOMAIN reqs \ {n} : reqs'[m] = reqs[m]
          /\ reqs'[n].agent = reqs[n].agent /\ reqs'[n].id = reqs[n].id
          /\ reqs'[n].kind = "call" /\ reqs'[n].verdict = v
          /\ reqs' \in Seq([agent : Agents, id : Ids, kind : {"call", "list"},
                            reads : {"sse", "json", "batch"},
                            verdict : {"none", "allow", "redact", "refuse"}])
          /\ ReqsKept(c) /\ Moves(c)
          /\ \/ thread'[c] = Idle
             \/ /\ v \in {"allow", "redact"}
                /\ thread'[c] = [pc |-> "insert", req |-> n, agent |-> thread[c].agent,
                         got |-> thread[c].got, note |-> FALSE, by |-> 0, gen |-> thread[c].gen]
  <1>1. PICK n, v : n = thread[c].req /\ v \in Verdicts
          /\ reqs' = [reqs EXCEPT ![thread[c].req].verdict = v]
          /\ thread' = [thread EXCEPT ![c] =
                IF v \in {"allow", "redact"} THEN [@ EXCEPT !.pc = "insert"] ELSE Idle]
    BY DEF Intercept, Verdicts
  <1>2. /\ thread[c].pc = "intercept"
        /\ UNCHANGED <<cap, server, sessions, mode, running, inflight, order, link,
                       pending, work,
                       replayable, executions, shown, evicted>>
    BY DEF Intercept, configVars, upstreamVars, recordVars
  <1>3. /\ n \in DOMAIN reqs /\ reqs[n].kind = "call" /\ reqs[n].verdict = "none" /\ n # 0
        /\ ~thread[c].note /\ thread[c].by = 0 /\ thread[c].agent = reqs[n].agent
        /\ thread[c].got \in {0} \cup DOMAIN reqs
    BY <1>1, <1>2, ThreadFields, ReqFacts DEF ThreadOK, ProxyInd
  <1>4. /\ DOMAIN reqs' = DOMAIN reqs
        /\ \A m \in DOMAIN reqs \ {n} : reqs'[m] = reqs[m]
        /\ reqs'[n] = [reqs[n] EXCEPT !.verdict = v]
        /\ reqs' \in Seq([agent : Agents, id : Ids, kind : {"call", "list"},
                          reads : {"sse", "json", "batch"},
                          verdict : {"none", "allow", "redact", "refuse"}])
    <2> DEFINE T == [agent : Agents, id : Ids, kind : {"call", "list"},
                     reads : {"sse", "json", "batch"},
                     verdict : {"none", "allow", "redact", "refuse"}]
    <2>1. reqs \in Seq(T) /\ v \in {"none", "allow", "redact", "refuse"}
      BY <1>1 DEF ProxyInd, TypeOK, Verdicts
    <2>2. PICK x : x = [reqs[n] EXCEPT !.verdict = v]
      OBVIOUS
    <2>3. reqs[n] \in T /\ n \in 1..Len(reqs)
      <3> HIDE DEF T
      <3> QED BY <1>3, <2>1
    <2>4. x \in T
      BY <2>1, <2>2, <2>3
    <2>5. reqs' = [reqs EXCEPT ![n] = x]
      BY <1>1, <2>2
    <2> HIDE DEF T
    <2>6. reqs' \in Seq(T) /\ DOMAIN reqs' = DOMAIN reqs /\ reqs'[n] = x
          /\ \A m \in DOMAIN reqs \ {n} : reqs'[m] = reqs[m]
      BY <1>3, <2>1, <2>3, <2>4, <2>5, ExceptSeq
    <2> QED BY <2>2, <2>6 DEF T
  <1>5. /\ reqs'[n].agent = reqs[n].agent /\ reqs'[n].id = reqs[n].id
        /\ reqs'[n].kind = "call" /\ reqs'[n].verdict = v
    <2> DEFINE T == [agent : Agents, id : Ids, kind : {"call", "list"},
                     reads : {"sse", "json", "batch"},
                     verdict : {"none", "allow", "redact", "refuse"}]
    <2>0. reqs \in Seq(T)
      BY DEF ProxyInd, TypeOK
    <2>1. reqs[n] \in T
      <3> HIDE DEF T
      <3> QED BY <1>3, <2>0
    <2> QED BY <1>3, <1>4, <2>1
  <1>6. ReqsKept(c)
    BY <1>1, <1>2, <1>3, <1>4, <1>5 DEF ReqsKept
  <1>7. /\ Moves(c)
        /\ \/ thread'[c] = Idle
           \/ /\ v \in {"allow", "redact"}
              /\ thread'[c] = [pc |-> "insert", req |-> n, agent |-> thread[c].agent,
                       got |-> thread[c].got, note |-> FALSE, by |-> 0, gen |-> thread[c].gen]
    <2>1. PICK q : q = IF v \in {"allow", "redact"} THEN [thread[c] EXCEPT !.pc = "insert"]
                   ELSE Idle
      OBVIOUS
    <2>2. thread' = [thread EXCEPT ![c] = q]
      BY <1>1, <2>1
    <2>3. Moves(c) /\ thread'[c] = q
      BY <2>2, ThreadSet DEF ProxyInd
    <2>4. CASE v \in {"allow", "redact"}
      <3>1. q = [pc |-> "insert", req |-> thread[c].req, agent |-> thread[c].agent,
                 got |-> thread[c].got, note |-> thread[c].note, by |-> thread[c].by,
                 gen |-> thread[c].gen]
        <4>1. q = [thread[c] EXCEPT !.pc = "insert"]
          BY <2>1, <2>4
        <4>2. PICK t : t = thread[c]
          OBVIOUS
        <4>3. t = [pc |-> t.pc, req |-> t.req, agent |-> t.agent, got |-> t.got,
                   note |-> t.note, by |-> t.by, gen |-> t.gen]
          BY <4>2, ThreadFields
        <4>4. q = [t EXCEPT !.pc = "insert"]
          BY <4>1, <4>2
        <4>5. q = [pc |-> "insert", req |-> t.req, agent |-> t.agent, got |-> t.got,
                   note |-> t.note, by |-> t.by, gen |-> t.gen]
          BY <4>3, <4>4
        <4> QED BY <4>2, <4>5
      <3>2. thread[c].note = FALSE /\ thread[c].by = 0 /\ thread[c].req = n
        BY <1>1, <1>3, ThreadFields DEF ThreadOK
      <3> QED BY <2>3, <2>4, <3>1, <3>2
    <2> QED BY <2>1, <2>3, <2>4
  <1> WITNESS n, v
  <1> QED BY <1>1, <1>2, <1>3, <1>4, <1>5, <1>6, <1>7

LEMMA InterceptKeeps ==
    ASSUME ProxyInd, NEW c \in Conns, Intercept(c)
    PROVE  ProxyInd'
  <1>1. PICK n, v :
          /\ n = thread[c].req /\ v \in Verdicts
          /\ UNCHANGED <<cap, server, sessions, mode, running, inflight, order, link,
                         pending, work,
                         replayable, executions, shown, evicted>>
          /\ thread[c].pc = "intercept"
          /\ n \in DOMAIN reqs /\ reqs[n].kind = "call" /\ reqs[n].verdict = "none" /\ n # 0
          /\ thread[c].agent = reqs[n].agent /\ thread[c].got \in {0} \cup DOMAIN reqs
          /\ DOMAIN reqs' = DOMAIN reqs /\ \A m \in DOMAIN reqs \ {n} : reqs'[m] = reqs[m]
          /\ reqs'[n].agent = reqs[n].agent /\ reqs'[n].id = reqs[n].id
          /\ reqs'[n].kind = "call" /\ reqs'[n].verdict = v
          /\ reqs' \in Seq([agent : Agents, id : Ids, kind : {"call", "list"},
                            reads : {"sse", "json", "batch"},
                            verdict : {"none", "allow", "redact", "refuse"}])
          /\ ReqsKept(c) /\ Moves(c)
          /\ \/ thread'[c] = Idle
             \/ /\ v \in {"allow", "redact"}
                /\ thread'[c] = [pc |-> "insert", req |-> n, agent |-> thread[c].agent,
                         got |-> thread[c].got, note |-> FALSE, by |-> 0, gen |-> thread[c].gen]
    BY InterceptFacts
  <1>2. ThreadOK(c)'
    <2>1. CASE thread'[c] = Idle
      BY <2>1, IdleOK
    <2>2. CASE /\ v \in {"allow", "redact"}
               /\ thread'[c] = [pc |-> "insert", req |-> n, agent |-> thread[c].agent,
                       got |-> thread[c].got, note |-> FALSE, by |-> 0, gen |-> thread[c].gen]
      <3>1. PICK t : t = thread'[c]
        OBVIOUS
      <3>2. /\ t = [pc |-> t.pc, req |-> t.req, agent |-> t.agent, got |-> t.got,
                    note |-> t.note, by |-> t.by, gen |-> t.gen]
            /\ t.pc = "insert" /\ t.req = n /\ t.agent = reqs'[n].agent /\ ~t.note /\ t.by = 0
            /\ t.note \in BOOLEAN /\ t.got \in {0} \cup DOMAIN reqs'
        BY <1>1, <2>2, <3>1
      <3>3. IsCall(n)'
        BY <1>1, <2>2 DEF IsCall, Forwarded
      <3> QED BY <1>1, <3>1, <3>2, <3>3 DEF ThreadOK, Pcs, Sending
    <2> QED BY <1>1, <2>1, <2>2
  <1>3. TypeOK'
    BY <1>1 DEF ProxyInd, TypeOK
  <1>4. RecordsOK'
    BY <1>1, RecordsKept DEF ProxyInd, RecordsOK
  <1>5. \/ thread'[c].pc = "idle" /\ thread'[c].req = 0
        \/ thread'[c].pc = "insert" /\ thread'[c].req = thread[c].req
    BY <1>1 DEF Idle
  <1>6. Shrinks /\ \A w \in work' : w \in work
    BY <1>1 DEF Shrinks
  <1>7. cap' = cap /\ executions' = executions /\ ReqsKept(c) /\ Moves(c)
        /\ thread[c].pc = "intercept"
    BY <1>1
  <1> QED BY <1>2, <1>3, <1>4, <1>5, <1>6, <1>7, QuietKeeps

\* A queue that is cut at the front keeps its last elements, each once.
LEMMA CutFacts ==
    ASSUME NEW S, NEW s \in Seq(S), Distinct(s), NEW drop \in 0..Len(s)
    PROVE  LET t == SubSeq(s, drop + 1, Len(s)) IN
           /\ t \in Seq(S) /\ Distinct(t) /\ Len(t) = Len(s) - drop
           /\ Range(t) \subseteq Range(s)
           /\ Range(s) \subseteq Range(t) \cup {s[j] : j \in 1..drop}
  <1> DEFINE t == SubSeq(s, drop + 1, Len(s))
  <1>1. Len(s) \in Nat /\ \A i \in 1..Len(s) : s[i] \in S
    OBVIOUS
  <1>2. /\ t \in Seq(S) /\ Len(t) = Len(s) - drop
        /\ \A i \in 1..(Len(s) - drop) : t[i] = s[drop + i]
    <2>1. \A i \in (drop + 1)..Len(s) : s[i] \in S
      BY <1>1
    <2>2. /\ t \in Seq(S)
          /\ Len(t) = IF drop + 1 <= Len(s) THEN Len(s) - (drop + 1) + 1 ELSE 0
          /\ \A i \in 1..(Len(s) - (drop + 1) + 1) : t[i] = s[(drop + 1) + i - 1]
      BY <1>1, <2>1, SubSeqProperties
    <2> HIDE DEF t
    <2> QED BY <1>1, <2>2
  <1> HIDE DEF t
  <1>3. Distinct(t)
    BY <1>1, <1>2 DEF Distinct
  <1>4. Range(t) \subseteq Range(s)
    BY <1>1, <1>2 DEF Range
  <1>5. Range(s) \subseteq Range(t) \cup {s[j] : j \in 1..drop}
    <2> SUFFICES ASSUME NEW j \in 1..Len(s), ~(j <= drop) PROVE s[j] \in Range(t)
      BY <1>1 DEF Range
    <2>1. j - drop \in 1..Len(t) /\ t[j - drop] = s[j]
      BY <1>1, <1>2
    <2> QED BY <1>2, <2>1 DEF Range
  <1> QED BY <1>2, <1>3, <1>4, <1>5 DEF t

LEMMA PushFacts ==
    ASSUME NEW S, NEW s \in Seq(S), Distinct(s), NEW x \in S, x \notin Range(s)
    PROVE  /\ Append(s, x) \in Seq(S) /\ Distinct(Append(s, x))
           /\ Range(Append(s, x)) = Range(s) \cup {x}
           /\ Len(Append(s, x)) = Len(s) + 1
  <1>1. PICK t : t = Append(s, x)
    OBVIOUS
  <1>2. /\ t \in Seq(S) /\ Len(t) = Len(s) + 1 /\ Len(s) \in Nat
        /\ \A i \in 1..Len(s) : t[i] = s[i] /\ t[Len(s) + 1] = x
    BY <1>1
  <1>3. t[Len(t)] = x
    BY <1>1
  <1>4. Distinct(t)
    BY <1>2, <1>3 DEF Distinct, Range
  <1>5. Range(t) = Range(s) \cup {x}
    <2>1. Range(t) = {t[i] : i \in 1..Len(t)} /\ Range(s) = {s[i] : i \in 1..Len(s)}
      BY <1>2 DEF Range
    <2>2. 1..Len(t) = (1..Len(s)) \cup {Len(t)}
      BY <1>2
    <2> QED BY <1>2, <1>3, <2>1, <2>2
  <1> QED BY <1>1, <1>2, <1>4, <1>5

\* What an insertion does to the book.
LEMMA InsertFacts ==
    ASSUME ProxyInd, NEW c \in Conns, Insert(c)
    PROVE  LET n == thread[c].req IN
           /\ IsCall(n) /\ ~thread[c].note /\ thread[c].by = 0
           /\ order' \in Seq(Keys) /\ Distinct(order') /\ Len(order') <= cap
           /\ DOMAIN inflight' = Range(order')
           /\ \A k \in DOMAIN inflight' :
                 IF k = Key(n) THEN inflight'[k] = [call |-> n, done |-> FALSE]
                 ELSE k \in DOMAIN inflight /\ inflight'[k] = inflight[k]
           /\ inflight' = [k \in DOMAIN inflight' |-> inflight'[k]]
           /\ evicted \subseteq evicted' /\ evicted' \subseteq DOMAIN reqs
           /\ \A k \in DOMAIN inflight \ {Key(n)} :
                 k \in DOMAIN inflight' \/ inflight[k].call \in evicted'
           /\ Key(n) \in DOMAIN inflight' \/ n \in evicted'
  <1> DEFINE queue0 == IF Key(thread[c].req) \in DOMAIN inflight THEN order
                       ELSE Append(order, Key(thread[c].req))
             drop0  == IF Len(queue0) > cap THEN Len(queue0) - cap ELSE 0
  <1>1. PICK n, key, queue, drop, kept, gone :
          /\ n = thread[c].req /\ key = Key(n) /\ queue = queue0
          /\ drop = drop0 /\ kept = SubSeq(queue, drop + 1, Len(queue))
          /\ gone = {queue[j] : j \in 1..drop}
    OBVIOUS
  <1>2. /\ thread[c].pc = "insert" /\ order' = kept
        /\ inflight' = [k \in Range(kept) |->
                          IF k = key THEN [call |-> n, done |-> FALSE] ELSE inflight[k]]
        /\ evicted' = evicted \cup {inflight[k].call : k \in gone \cap DOMAIN inflight}
                              \cup (IF key \in gone THEN {n} ELSE {})
    BY <1>1 DEF Insert
  <1>3. IsCall(n) /\ ~thread[c].note /\ thread[c].by = 0 /\ key \in Keys
    BY <1>1, <1>2, ThreadFields, ReqFacts DEF ThreadOK, ProxyInd, IsCall
  <1>4. cap \in Nat \ {0} /\ order \in Seq(Keys) /\ Distinct(order) /\ Len(order) <= cap
        /\ Range(order) = DOMAIN inflight
    BY McpAssumption DEF ProxyInd, TypeOK, BookOK
  <1>5. queue \in Seq(Keys) /\ Distinct(queue) /\ Range(queue) = DOMAIN inflight \cup {key}
    <2>1. CASE key \in DOMAIN inflight
      BY <1>1, <1>4, <2>1
    <2>2. CASE key \notin DOMAIN inflight
      BY <1>1, <1>3, <1>4, <2>2, PushFacts
    <2> QED BY <2>1, <2>2
  <1>6. drop = IF Len(queue) > cap THEN Len(queue) - cap ELSE 0
    BY <1>1
  <1> HIDE DEF queue0, drop0
  <1>7. Len(queue) \in Nat /\ drop \in 0..Len(queue) /\ Len(queue) - drop <= cap
    BY <1>4, <1>5, <1>6
  <1>8. /\ kept \in Seq(Keys) /\ Distinct(kept) /\ Len(kept) <= cap
        /\ Range(kept) \subseteq Range(queue) /\ Range(queue) \subseteq Range(kept) \cup gone
    BY <1>1, <1>5, <1>7, CutFacts
  <1>9. /\ DOMAIN inflight' = Range(order')
        /\ \A k \in DOMAIN inflight' :
              IF k = key THEN inflight'[k] = [call |-> n, done |-> FALSE]
              ELSE k \in DOMAIN inflight /\ inflight'[k] = inflight[k]
        /\ inflight' = [k \in DOMAIN inflight' |-> inflight'[k]]
    BY <1>2, <1>5, <1>8
  <1>10. /\ evicted \subseteq evicted' /\ evicted' \subseteq DOMAIN reqs
         /\ \A k \in DOMAIN inflight \ {key} :
               k \in DOMAIN inflight' \/ inflight[k].call \in evicted'
         /\ key \in DOMAIN inflight' \/ n \in evicted'
    <2>1. \A k \in DOMAIN inflight : inflight[k].call \in DOMAIN reqs
      BY DEF ProxyInd, BookOK, IsCall
    <2>2. \A k \in DOMAIN inflight \cup {key} : k \in Range(kept) \/ k \in gone
      BY <1>5, <1>8
    <2>3. DOMAIN inflight' = Range(kept)
      BY <1>2
    <2> QED BY <1>2, <1>3, <2>1, <2>2, <2>3, TypeFacts DEF IsCall
  <1> QED BY <1>1, <1>2, <1>3, <1>8, <1>9, <1>10

LEMMA InsertKeeps ==
    ASSUME ProxyInd, NEW c \in Conns, Insert(c)
    PROVE  ProxyInd'
  <1>1. PICK n : n = thread[c].req
    OBVIOUS
  <1>2. /\ thread[c].pc = "insert" /\ thread' = [thread EXCEPT ![c].pc = "post"]
        /\ UNCHANGED <<cap, server, sessions, mode, running, reqs, link, pending, work,
                       replayable,
                       executions, shown>>
    BY DEF Insert, configVars, upstreamVars
  <1>3. /\ IsCall(n) /\ ~thread[c].note /\ thread[c].by = 0
        /\ order' \in Seq(Keys) /\ Distinct(order') /\ Len(order') <= cap
        /\ DOMAIN inflight' = Range(order')
        /\ \A k \in DOMAIN inflight' :
              IF k = Key(n) THEN inflight'[k] = [call |-> n, done |-> FALSE]
              ELSE k \in DOMAIN inflight /\ inflight'[k] = inflight[k]
        /\ inflight' = [k \in DOMAIN inflight' |-> inflight'[k]]
        /\ evicted' \subseteq DOMAIN reqs
    BY <1>1, InsertFacts
  <1>4. \A m : /\ IsCall(m)' = IsCall(m) /\ Key(m)' = Key(m) /\ Forwarded(m)' = Forwarded(m)
    BY <1>2 DEF IsCall, Forwarded, Key, session_of
  <1>5. /\ thread[c].req \in DOMAIN reqs /\ thread[c].req # 0
        /\ thread[c].got \in {0} \cup DOMAIN reqs
        /\ reqs[thread[c].req].kind = "call" => Forwarded(thread[c].req)
    <2>1. n \in DOMAIN reqs /\ n # 0 /\ Forwarded(n)
      BY <1>3, ReqFacts DEF ProxyInd, IsCall
    <2>2. thread[c].got \in {0} \cup DOMAIN reqs
      BY ThreadFields DEF ThreadOK
    <2> QED BY <1>1, <2>1, <2>2
  <1>6. Moves(c) /\ thread'[c] = [thread[c] EXCEPT !.pc = "post"]
    BY <1>2, ThreadFields DEF Moves
  <1>7. thread'[c] = [pc |-> "post", req |-> thread[c].req, agent |-> thread[c].agent,
                got |-> thread[c].got, note |-> thread[c].note,
                by |-> thread[c].by, gen |-> thread[c].gen]
    BY <1>6, ThreadFields
  <1>8. ThreadOK(c)'
    <2>1. /\ thread'[c].pc = "post" /\ thread'[c].got = thread[c].got
          /\ thread'[c].got \in {0} \cup DOMAIN reqs /\ thread'[c].gen = thread[c].gen
          /\ thread'[c].note = FALSE /\ thread'[c].by = 0
          /\ thread'[c] = [pc |-> thread'[c].pc, req |-> thread[c].req,
                           agent |-> thread[c].agent, got |-> thread'[c].got,
                           note |-> thread'[c].note, by |-> thread'[c].by,
                           gen |-> thread'[c].gen]
      BY <1>2, <1>3, <1>5, <1>7, ThreadFields DEF ThreadOK
    <2>2. UNCHANGED <<reqs, server, sessions>>
      BY <1>2, <1>3, <1>5 DEF configVars
    <2> QED BY <1>2, <1>3, <1>5, <2>1, <2>2, GoesOn DEF Pcs, Sending
  <1>9. ReqsKept(c) /\ thread'[c].req = n /\ thread'[c].pc = "post"
    BY <1>1, <1>2, <1>7 DEF ReqsKept
  <1>10. ThreadsOK'
    BY <1>1, <1>6, <1>8, <1>9, ThreadStep DEF ProxyInd
  <1>11. RecordsOK'
    BY <1>2, <1>9, RecordsKept DEF ProxyInd, RecordsOK
  <1>12. OnlyDecidedForwarded'
    BY <1>2, <1>9, WorkKept DEF ProxyInd
  <1>13. ASSUME NEW k \in DOMAIN inflight', NEW e, e = inflight'[k]
         PROVE  /\ e = [call |-> e.call, done |-> e.done]
                /\ e \in [call : DOMAIN reqs, done : BOOLEAN]
                /\ IsCall(e.call) /\ k = Key(e.call)
    <2>1. CASE k = Key(n)
      <3>1. e = [call |-> n, done |-> FALSE]
        BY <1>3, <1>13, <2>1
      <3> QED BY <1>3, <2>1, <3>1 DEF IsCall
    <2>2. CASE k # Key(n)
      <3>1. k \in DOMAIN inflight /\ e = inflight[k]
        BY <1>3, <1>13, <2>2
      <3> QED BY <3>1 DEF ProxyInd, BookOK, TypeOK
    <2> QED BY <2>1, <2>2
  <1>14. TypeOK'
    BY <1>2, <1>3, <1>13 DEF ProxyInd, TypeOK
  <1>15. BookOK'
    <2>1. ASSUME NEW k \in DOMAIN inflight'
          PROVE  IsCall(inflight[k].call)' /\ k = Key(inflight[k].call)'
      <3>1. PICK e : e = inflight'[k]
        OBVIOUS
      <3>2. PICK m : m = e.call
        OBVIOUS
      <3>3. IsCall(m) /\ k = Key(m)
        BY <1>13, <3>1, <3>2
      <3>4. IsCall(m)' /\ k = Key(m)'
        BY <1>4, <3>3
      <3> QED BY <3>1, <3>2, <3>4
    <2> QED BY <1>2, <1>3, <1>13, <2>1 DEF BookOK
  <1>16. OnceOK'
    <2>1. \A d \in Conns \ {c} : thread'[d] = thread[d]
      BY <1>6 DEF Moves
    <2>2. \A m : Unseen(m) => Unseen(m)'
      BY <1>2, <1>9, <2>1 DEF Unseen
    <2>3. ASSUME NEW d \in Conns, thread'[d].pc \in {"intercept", "insert"}
          PROVE  /\ Unseen(thread[d].req)'
                 /\ \A k \in DOMAIN inflight' : inflight'[k].call # thread'[d].req
      <3>1. d # c /\ thread'[d] = thread[d] /\ thread[d].pc \in {"intercept", "insert"}
        BY <1>9, <2>1, <2>3
      <3>2. PICK m : m = thread[d].req
        OBVIOUS
      <3>3. m # n
        BY <1>1, <1>5, <3>1, <3>2 DEF ProxyInd, ThreadsOK
      <3>4. Unseen(m) /\ \A k \in DOMAIN inflight : inflight[k].call # m
        BY <3>1, <3>2 DEF ProxyInd, OnceOK
      <3>5. Unseen(m)' /\ \A k \in DOMAIN inflight' : inflight'[k].call # m
        BY <1>3, <2>2, <3>3, <3>4
      <3> QED BY <3>1, <3>2, <3>5
    <2>4. ASSUME NEW k \in DOMAIN inflight', ~inflight'[k].done
          PROVE  Unseen(inflight[k].call)'
      <3>1. PICK m : m = inflight'[k].call
        OBVIOUS
      <3>2. Unseen(m)
        <4>1. CASE k = Key(n)
          BY <1>1, <1>2, <1>3, <3>1, <4>1 DEF ProxyInd, OnceOK
        <4>2. CASE k # Key(n)
          BY <1>3, <2>4, <3>1, <4>2 DEF ProxyInd, OnceOK
        <4> QED BY <4>1, <4>2
      <3>3. Unseen(m)'
        BY <2>2, <3>2
      <3> QED BY <3>1, <3>3
    <2>5. \A d \in Conns : thread'[d].pc = "complete" =>
             d # c /\ thread[d].pc = "complete" /\ thread'[d] = thread[d]
      BY <1>9, <2>1
    <2> QED BY <1>2, <2>3, <2>4, <2>5 DEF ProxyInd, OnceOK
  <1> QED BY <1>2, <1>10, <1>11, <1>12, <1>14, <1>15, <1>16 DEF ProxyInd, OneExecution

\* After an answer the thread is free; after a notification it reads on.
LEMMA AfterMoves ==
    ASSUME ProxyInd, NEW c \in Conns, thread[c].pc \in {"sight", "complete", "mask"},
           UNCHANGED <<reqs, server, sessions>>, After(c)
    PROVE  /\ Moves(c) /\ ThreadOK(c)' /\ thread'[c].req \in {0, thread[c].req}
           /\ thread'[c].pc \in {"idle", "stream"}
           /\ ~thread[c].note => thread' = [thread EXCEPT ![c] = Idle] /\ thread'[c].pc = "idle"
  <1>1. CASE ~thread[c].note
    <2>1. thread' = [thread EXCEPT ![c] = Idle]
      BY <1>1 DEF After, Done
    <2> QED BY <1>1, <2>1, DoneOK
  <1>2. CASE thread[c].note
    <2>1. thread' = [thread EXCEPT ![c].pc = "stream", ![c].got = 0, ![c].note = FALSE,
                                   ![c].by = 0]
      BY <1>2 DEF After
    <2>2. thread[c].pc = "mask" /\ IsCall(thread[c].req) /\ thread[c].req # 0
      BY <1>2, ThreadFields, ReqFacts DEF ThreadOK, ProxyInd, IsCall
    <2>3. Moves(c) /\ thread'[c] = [thread[c] EXCEPT !.pc = "stream", !.got = 0,
                                           !.note = FALSE, !.by = 0]
      BY <2>1, ThreadFields DEF Moves
    <2>4. thread'[c] = [pc |-> "stream", req |-> thread[c].req, agent |-> thread[c].agent,
                  got |-> 0, note |-> FALSE,
                  by |-> 0, gen |-> thread[c].gen]
      BY <2>3, ThreadFields
    <2>5. ThreadOK(c)'
      <3>1. /\ thread'[c].pc = "stream" /\ thread'[c].got = 0
            /\ thread'[c].got \in {0} \cup DOMAIN reqs /\ thread'[c].gen = thread[c].gen
            /\ thread'[c].note = FALSE /\ thread'[c].by = 0
            /\ thread'[c] = [pc |-> thread'[c].pc, req |-> thread[c].req,
                             agent |-> thread[c].agent, got |-> thread'[c].got,
                             note |-> thread'[c].note, by |-> thread'[c].by,
                             gen |-> thread'[c].gen]
        BY <2>2, <1>2, <2>4, ThreadFields DEF ThreadOK
      <3>2. UNCHANGED <<reqs, server, sessions>>
        OBVIOUS
      <3> QED BY <2>2, <1>2, <3>1, <3>2, GoesOn DEF Pcs, Sending, IsCall
    <2> QED BY <1>2, <2>3, <2>4, <2>5
  <1> QED BY <1>1, <1>2

LEMMA MaskKeeps ==
    ASSUME ProxyInd, NEW c \in Conns, Mask(c)
    PROVE  ProxyInd'
  <1>1. /\ thread[c].pc = "mask" /\ After(c) /\ Shrinks
        /\ UNCHANGED <<cap, server, sessions, reqs, executions, running, mode, link,
                       pending, work,
                       replayable, evicted>>
        /\ shown' = shown \/ shown'.origin = thread[c].got
    BY DEF Mask, Show, configVars, upstreamVars, Shrinks
  <1>2. /\ Moves(c) /\ ThreadOK(c)' /\ thread'[c].req \in {0, thread[c].req}
        /\ thread'[c].pc \in {"idle", "stream"}
    BY <1>1, AfterMoves
  <1> QED BY <1>1, <1>2, QuietStep, TypeFacts

LEMMA CompleteKeeps ==
    ASSUME ProxyInd, NEW c \in Conns, Complete(c)
    PROVE  ProxyInd'
  <1>1. /\ thread[c].pc = "complete" /\ After(c) /\ Shrinks /\ Within
        /\ UNCHANGED <<cap, server, sessions, reqs, inflight, order, running, mode, link,
                       pending, work,
                       replayable, evicted>>
        /\ shown' = shown \/ shown'.origin = thread[c].got
        /\ \/ executions' = executions
           \/ executions' = executions \cup
                 {[call |-> thread[c].by, output |-> thread[c].got, conn |-> c]}
    BY DEF Complete, Show, configVars, upstreamVars, Shrinks, Within
  <1>2. /\ ~thread[c].note /\ IsCall(thread[c].by) /\ thread[c].got \in DOMAIN reqs
    BY <1>1, ThreadFields DEF ThreadOK
  <1>3. /\ Moves(c) /\ ThreadOK(c)' /\ thread'[c].req \in {0, thread[c].req}
        /\ thread'[c].pc = "idle"
    BY <1>1, <1>2, AfterMoves
  <1>4. CASE executions' = executions
    BY <1>1, <1>3, <1>4, QuietStep, TypeFacts
  <1>5. CASE executions' = executions \cup
                 {[call |-> thread[c].by, output |-> thread[c].got, conn |-> c]}
    <2>1. PICK x : x = [call |-> thread[c].by, output |-> thread[c].got, conn |-> c]
      OBVIOUS
    <2>2. PICK n : n = thread[c].by
      OBVIOUS
    <2>3. executions' = executions \cup {x} /\ x.call = n /\ x.output \in DOMAIN reqs
          /\ IsCall(n)
      BY <1>2, <1>5, <2>1, <2>2
    <2>4. ReqsKept(c)
      BY <1>1 DEF ReqsKept
    <2>5. ThreadsOK'
      BY <1>3, <2>4, ThreadStep DEF ProxyInd
    <2>6. BookOK'
      BY <1>1, <2>4, BookShrinks DEF ProxyInd
    <2>7. OnlyDecidedForwarded'
      BY <1>1, <2>4, WorkKept DEF ProxyInd
    <2>8. RecordsOK'
      <3>1. shown'.origin \in {0} \cup DOMAIN reqs
        BY <1>1, <1>2 DEF ProxyInd, RecordsOK
      <3> QED BY <1>1, <2>3, <3>1 DEF ProxyInd, RecordsOK, IsCall
    <2>9. TypeOK'
      BY <1>1 DEF ProxyInd, TypeOK
    <2>10. \A y \in executions : y.call # n
      BY <1>1, <2>2 DEF ProxyInd, OnceOK
    <2>11. OneExecution'
      BY <2>3, <2>10 DEF ProxyInd, OneExecution
    <2>12. \A d \in Conns \ {c} : thread'[d] = thread[d]
      BY <1>3 DEF Moves
    <2>13. \A m : Unseen(m) => m # n /\ Unseen(m)'
      BY <1>1, <1>3, <2>2, <2>3, <2>12 DEF Unseen
    <2>14. OnceOK'
      <3>1. ASSUME NEW d \in Conns, thread'[d].pc \in {"intercept", "insert"}
            PROVE  /\ Unseen(thread[d].req)'
                   /\ \A k \in DOMAIN inflight' : inflight'[k].call # thread'[d].req
        <4>1. PICK m : m = thread[d].req
          OBVIOUS
        <4>2. thread'[d] = thread[d] /\ thread[d].pc \in {"intercept", "insert"}
          BY <1>3, <2>12, <3>1
        <4>3. Unseen(m) /\ \A k \in DOMAIN inflight : inflight[k].call # m
          BY <4>1, <4>2 DEF ProxyInd, OnceOK
        <4>4. Unseen(m)' /\ \A k \in DOMAIN inflight' : inflight'[k].call # m
          BY <1>1, <2>13, <4>3
        <4> QED BY <4>1, <4>2, <4>4
      <3>2. ASSUME NEW k \in DOMAIN inflight', ~inflight'[k].done
            PROVE  Unseen(inflight[k].call)'
        <4>1. PICK m : m = inflight[k].call
          OBVIOUS
        <4>2. Unseen(m)
          BY <1>1, <3>2, <4>1 DEF ProxyInd, OnceOK
        <4>3. Unseen(m)' /\ m = inflight'[k].call
          BY <1>1, <2>13, <4>1, <4>2
        <4> QED BY <4>3
      <3>3. \A d \in Conns : thread'[d].pc = "complete" =>
               d # c /\ thread[d].pc = "complete" /\ thread'[d] = thread[d]
        BY <1>3, <2>12
      <3>4. \A d \in Conns \ {c} : thread[d].pc = "complete" => thread[d].by # n
        BY <1>1, <2>2 DEF ProxyInd, OnceOK
      <3> QED BY <2>3, <3>1, <3>2, <3>3, <3>4 DEF ProxyInd, OnceOK
    <2> QED BY <2>5, <2>6, <2>7, <2>8, <2>9, <2>11, <2>14 DEF ProxyInd
  <1> QED BY <1>1, <1>4, <1>5

\* A response that is in the book, by the variables.
LEMMA SightFacts ==
    ASSUME ProxyInd, NEW c \in Conns, Sight(c),
           NEW key, key = <<session_of(thread[c].agent), reqs[thread[c].got].id>>
    PROVE  /\ thread[c].pc = "sight"
           /\ UNCHANGED <<cap, server, sessions, running, reqs, order, replayable, mode, link,
                          pending, work, executions, evicted>>
           /\ \/ /\ key \in DOMAIN inflight
                 /\ inflight' = [inflight EXCEPT ![key].done = TRUE]
                 /\ thread' = [thread EXCEPT ![c].by = inflight[key].call,
                                 ![c].pc = IF inflight[key].done THEN "mask" ELSE "complete"]
                 /\ UNCHANGED shown
              \/ /\ key \notin DOMAIN inflight
                 /\ Show(c, FALSE) /\ After(c) /\ UNCHANGED inflight
  BY DEF Sight, SightAt, configVars, upstreamVars

\* What marking call m done does to the book.
LEMMA MarkBook ==
    ASSUME ProxyInd, NEW key \in DOMAIN inflight, NEW m, m = inflight[key].call,
           inflight' = [inflight EXCEPT ![key].done = TRUE]
    PROVE  /\ IsCall(m) /\ key = Key(m)
           /\ DOMAIN inflight' = DOMAIN inflight
           /\ inflight' = [k \in DOMAIN inflight' |-> inflight'[k]]
           /\ \A k \in DOMAIN inflight :
                 inflight'[k] = IF k = key THEN [call |-> m, done |-> TRUE] ELSE inflight[k]
  <1>1. /\ IsCall(m) /\ key = Key(m)
        /\ inflight[key] = [call |-> m, done |-> inflight[key].done]
    BY DEF ProxyInd, BookOK
  <1>2. PICK e : e = [inflight[key] EXCEPT !.done = TRUE]
    OBVIOUS
  <1>3. e = [call |-> m, done |-> TRUE]
    BY <1>1, <1>2
  <1>4. /\ DOMAIN inflight' = DOMAIN inflight
        /\ inflight' = [k \in DOMAIN inflight' |-> inflight'[k]]
        /\ \A k \in DOMAIN inflight : inflight'[k] = IF k = key THEN e ELSE inflight[k]
    BY <1>2
  <1> QED BY <1>1, <1>3, <1>4

\* What it does to the thread that has seen the response.
LEMMA MarkThread ==
    ASSUME ProxyInd, NEW c \in Conns, thread[c].pc = "sight", UNCHANGED <<reqs, server,
                                                                          sessions>>,
           NEW m, IsCall(m), NEW pc \in {"mask", "complete"},
           thread' = [thread EXCEPT ![c].by = m, ![c].pc = pc]
    PROVE  /\ Moves(c) /\ ThreadOK(c)'
           /\ thread'[c].pc = pc /\ thread'[c].by = m /\ thread'[c].req = thread[c].req
           /\ thread'[c].got = thread[c].got /\ thread'[c].agent = thread[c].agent
           /\ thread'[c].note = thread[c].note
  <1>1. Moves(c) /\ thread'[c] = [thread[c] EXCEPT !.by = m, !.pc = pc]
    BY ThreadFields DEF Moves
  <1>2. thread'[c] = [pc |-> pc, req |-> thread[c].req, agent |-> thread[c].agent,
                      got |-> thread[c].got, note |-> thread[c].note, by |-> m,
                      gen |-> thread[c].gen]
    BY <1>1, ThreadFields
  <1>3. ThreadOK(c)'
    <2>1. /\ thread[c].agent \in Agents /\ thread[c].got # 0 /\ ~thread[c].note
          /\ thread[c].note \in BOOLEAN
          /\ thread[c].got \in {0} \cup DOMAIN reqs
      BY ThreadFields DEF ThreadOK
    <2>2. thread[c].note = FALSE
      BY <2>1
    <2>3. PICK t, u : t = thread'[c] /\ u = thread[c]
      OBVIOUS
    <2>4. /\ t.pc = pc /\ t.got = u.got /\ t.gen = u.gen /\ t.note = u.note /\ t.by = m
          /\ t = [pc |-> t.pc, req |-> u.req, agent |-> u.agent, got |-> t.got,
                  note |-> t.note, by |-> t.by, gen |-> t.gen]
      BY <1>2, <2>3
    <2> QED BY <2>1, <2>2, <2>3, <2>4, GoesOn DEF Pcs, Sending
  <1> QED BY <1>1, <1>2, <1>3

LEMMA SightKeeps ==
    ASSUME ProxyInd, NEW c \in Conns, Sight(c)
    PROVE  ProxyInd'
  <1>1. PICK key : key = <<session_of(thread[c].agent), reqs[thread[c].got].id>>
    OBVIOUS
  <1>2. /\ thread[c].pc = "sight"
        /\ UNCHANGED <<cap, server, sessions, running, reqs, order, replayable, mode, link,
                       pending, work, executions, evicted>>
    BY <1>1, SightFacts
  <1>3. CASE /\ Show(c, FALSE) /\ After(c) /\ UNCHANGED inflight
    <2>1. /\ Moves(c) /\ ThreadOK(c)' /\ thread'[c].req \in {0, thread[c].req}
          /\ thread'[c].pc \in {"idle", "stream"}
      BY <1>2, <1>3, AfterMoves
    <2>2. shown'.origin = thread[c].got /\ Shrinks
      BY <1>2, <1>3 DEF Show, Shrinks
    <2> QED BY <1>2, <2>1, <2>2, QuietStep, TypeFacts
  <1>4. CASE /\ key \in DOMAIN inflight
             /\ inflight' = [inflight EXCEPT ![key].done = TRUE]
             /\ thread' = [thread EXCEPT ![c].by = inflight[key].call,
                             ![c].pc = IF inflight[key].done THEN "mask" ELSE "complete"]
             /\ UNCHANGED shown
    <2>1. PICK m : m = inflight[key].call
      OBVIOUS
    <2>2. /\ IsCall(m) /\ key = Key(m)
          /\ DOMAIN inflight' = DOMAIN inflight
          /\ inflight' = [k \in DOMAIN inflight' |-> inflight'[k]]
          /\ \A k \in DOMAIN inflight :
                inflight'[k] = IF k = key THEN [call |-> m, done |-> TRUE] ELSE inflight[k]
      BY <1>4, <2>1, MarkBook
    <2>3. PICK pc : pc = IF inflight[key].done THEN "mask" ELSE "complete"
      OBVIOUS
    <2>4. /\ Moves(c) /\ ThreadOK(c)'
           /\ thread'[c].pc = pc /\ thread'[c].by = m /\ thread'[c].req = thread[c].req
      <3>1. pc \in {"mask", "complete"}
        BY <2>3
      <3>2. thread' = [thread EXCEPT ![c].by = m, ![c].pc = pc]
        BY <1>4, <2>1, <2>3
      <3> QED BY <1>2, <2>2, <3>1, <3>2, MarkThread
    <2>5. ReqsKept(c)
      BY <1>2 DEF ReqsKept
    <2>6. ThreadsOK'
      BY <2>4, <2>5, ThreadStep DEF ProxyInd
    <2>7. RecordsOK' /\ OnlyDecidedForwarded' /\ OneExecution'
      BY <1>2, <1>4, <2>5, RecordsKept, WorkKept DEF ProxyInd, RecordsOK, OneExecution
    <2>8. \A n : IsCall(n)' = IsCall(n) /\ Key(n)' = Key(n)
      BY <1>2 DEF IsCall, Forwarded, Key, session_of
    <2>9. ASSUME NEW k \in DOMAIN inflight', NEW e, e = inflight'[k]
          PROVE  /\ e = [call |-> e.call, done |-> e.done] /\ e.call = inflight[k].call
                 /\ e \in [call : DOMAIN reqs, done : BOOLEAN]
                 /\ IsCall(e.call) /\ k = Key(e.call)
                 /\ ~e.done => k # key /\ ~inflight[k].done
      <3>1. CASE k = key
        <4>1. e = [call |-> m, done |-> TRUE]
          BY <2>2, <2>9, <3>1
        <4> QED BY <2>1, <2>2, <3>1, <4>1 DEF IsCall
      <3>2. CASE k # key
        <4>1. k \in DOMAIN inflight /\ e = inflight[k]
          BY <2>2, <2>9, <3>2
        <4> QED BY <3>2, <4>1 DEF ProxyInd, BookOK, TypeOK
      <3> QED BY <3>1, <3>2
    <2>10. TypeOK'
      BY <1>2, <2>9 DEF ProxyInd, TypeOK
    <2>11. BookOK'
      <3>1. ASSUME NEW k \in DOMAIN inflight'
            PROVE  IsCall(inflight[k].call)' /\ k = Key(inflight[k].call)'
        <4>1. PICK e : e = inflight'[k]
          OBVIOUS
        <4>2. PICK n : n = e.call
          OBVIOUS
        <4>3. IsCall(n) /\ k = Key(n)
          BY <2>9, <4>1, <4>2
        <4>4. IsCall(n)' /\ k = Key(n)'
          BY <2>8, <4>3
        <4> QED BY <4>1, <4>2, <4>4
      <3> QED BY <1>2, <2>2, <2>9, <3>1 DEF ProxyInd, BookOK
    <2>12. \A d \in Conns \ {c} : thread'[d] = thread[d]
      BY <2>4 DEF Moves
    <2>13. \A n : Unseen(n) /\ n # m => Unseen(n)'
      BY <1>2, <2>3, <2>4, <2>12 DEF Unseen
    <2>14. ~inflight[key].done => Unseen(m)
      BY <1>4, <2>1 DEF ProxyInd, OnceOK
    <2>15. OnceOK'
      <3>1. ASSUME NEW d \in Conns, thread'[d].pc \in {"intercept", "insert"}
            PROVE  /\ Unseen(thread[d].req)'
                   /\ \A k \in DOMAIN inflight' : inflight'[k].call # thread'[d].req
        <4>1. PICK n : n = thread[d].req
          OBVIOUS
        <4>2. thread'[d] = thread[d] /\ thread[d].pc \in {"intercept", "insert"}
          BY <2>3, <2>4, <2>12, <3>1
        <4>3. Unseen(n) /\ \A k \in DOMAIN inflight : inflight[k].call # n
          BY <4>1, <4>2 DEF ProxyInd, OnceOK
        <4>4. n # m
          BY <1>4, <2>1, <4>3
        <4>5. Unseen(n)' /\ \A k \in DOMAIN inflight' : inflight'[k].call # n
          BY <2>2, <2>9, <2>13, <4>3, <4>4
        <4> QED BY <4>1, <4>2, <4>5
      <3>2. ASSUME NEW k \in DOMAIN inflight', ~inflight'[k].done
            PROVE  Unseen(inflight[k].call)'
        <4>1. PICK e : e = inflight'[k]
          OBVIOUS
        <4>2. PICK n : n = e.call
          OBVIOUS
        <4>3. n = inflight[k].call /\ k = Key(n) /\ k # key /\ ~inflight[k].done
          BY <2>9, <3>2, <4>1, <4>2
        <4>4. n # m
          BY <2>2, <4>3
        <4>5. Unseen(n)
          BY <2>2, <4>3 DEF ProxyInd, OnceOK
        <4>6. Unseen(n)'
          BY <2>13, <4>4, <4>5
        <4> QED BY <4>1, <4>2, <4>6
      <3>3. ASSUME NEW d \in Conns, thread'[d].pc = "complete"
            PROVE  IF d = c THEN thread'[d].by = m /\ Unseen(m)
                   ELSE thread[d].pc = "complete" /\ thread'[d] = thread[d]
        BY <2>3, <2>4, <2>12, <2>14, <3>3
      <3>4. \A d, e \in Conns :
               thread'[d].pc = "complete" /\ thread'[e].pc = "complete"
                   /\ thread'[d].by = thread'[e].by => d = e
        <4>1. \A d \in Conns : Unseen(m) /\ thread[d].pc = "complete" => thread[d].by # m
          BY DEF Unseen
        <4> QED BY <3>3, <4>1 DEF ProxyInd, OnceOK
      <3>5. \A d \in Conns : thread'[d].pc = "complete" =>
               \A x \in executions' : x.call # thread'[d].by
        <4>1. \A x \in executions : Unseen(m) => x.call # m
          BY DEF Unseen
        <4> QED BY <1>2, <3>3, <4>1 DEF ProxyInd, OnceOK
      <3> QED BY <3>1, <3>2, <3>4, <3>5 DEF OnceOK
    <2> QED BY <2>6, <2>7, <2>10, <2>11, <2>15 DEF ProxyInd
  <1> QED BY <1>1, <1>3, <1>4, SightFacts
-----------------------------------------------------------------------------
LEMMA ProxyStarts ==
    ASSUME Init
    PROVE  ProxyInd
  <1>1. TypeOK
    BY DEF Init, TypeOK
  <1>2. \A c \in Conns : thread[c] = Idle
    BY DEF Init
  <1>3. ASSUME NEW c \in Conns PROVE ThreadOK(c)
    <2>1. thread[c] = Idle
      BY <1>2
    <2> QED BY <2>1 DEF ThreadOK, Idle, Pcs, Sending
  <1>4. ThreadsOK
    BY <1>2, <1>3 DEF ThreadsOK, Idle, Init
  <1>5. RecordsOK
    BY DEF RecordsOK, Init, NothingShown
  <1>6. BookOK
    <2>1. order \in Seq(Keys) /\ Len(order) = 0 /\ Range(order) = {} /\ DOMAIN inflight = {}
      BY DEF Init, Range
    <2>2. Len(order) <= cap
      BY <2>1, McpAssumption DEF Init
    <2>3. Distinct(order)
      BY <2>1 DEF Distinct
    <2>4. inflight = [k \in DOMAIN inflight |-> inflight[k]]
      BY <2>1 DEF Init
    <2> QED BY <2>1, <2>2, <2>3, <2>4 DEF BookOK
  <1>7. OnceOK
    BY <1>2 DEF OnceOK, Init, Idle
  <1> QED BY <1>1, <1>4, <1>5, <1>6, <1>7 DEF ProxyInd, Init, OnlyDecidedForwarded, OneExecution

LEMMA ProxyStill ==
    ASSUME ProxyInd, UNCHANGED vars
    PROVE  ProxyInd'
  <1> USE DEF vars
  <1>1. \A n : IsCall(n)' = IsCall(n) /\ Key(n)' = Key(n) /\ Forwarded(n)' = Forwarded(n)
               /\ Unseen(n)' = Unseen(n)
    BY DEF IsCall, Forwarded, Key, session_of, Unseen
  <1>2. TypeOK'
    BY DEF ProxyInd, TypeOK
  <1>3. \A c : ThreadOK(c)' = ThreadOK(c)
    BY DEF ThreadOK, IsCall, Forwarded, Legacy
  <1>4. ThreadsOK'
    BY <1>3 DEF ProxyInd, ThreadsOK
  <1>5. RecordsOK' /\ OneExecution' /\ OnlyDecidedForwarded'
    BY DEF ProxyInd, RecordsOK, OneExecution, OnlyDecidedForwarded, Forwarded
  <1>6. BookOK'
    BY DEF ProxyInd, BookOK, IsCall, Forwarded, Key, session_of
  <1>7. OnceOK'
    BY DEF ProxyInd, OnceOK, Unseen
  <1> QED BY <1>2, <1>4, <1>5, <1>6, <1>7 DEF ProxyInd

LEMMA ProxyStep ==
    ASSUME ProxyInd, [Next]_vars
    PROVE  ProxyInd'
  <1>1. CASE UNCHANGED vars
    BY <1>1, ProxyStill
  <1>2. ASSUME NEW c \in Conns,
               \/ Accept(c) \/ Intercept(c) \/ Insert(c) \/ StreamableFails(c)
               \/ StreamableFull(c) \/ StreamableStream(c) \/ StreamEvent(c) \/ StreamEnds(c)
               \/ OpenGet(c) \/ DeleteSession(c)
        PROVE  ProxyInd'
    BY <1>2, AcceptKeeps, InterceptKeeps, InsertKeeps, StreamableFailsKeeps,
       StreamableFullKeeps, StreamableStreamKeeps, StreamEventKeeps, StreamEndsKeeps,
       OpenGetKeeps, DeleteSessionKeeps
  <1>3. ASSUME NEW c \in Conns,
               \/ Fallback(c) \/ Connect(c) \/ Register(c) \/ Send(c) \/ Receive(c)
               \/ Sight(c) \/ Complete(c) \/ Mask(c)
        PROVE  ProxyInd'
    BY <1>3, FallbackKeeps, ConnectKeeps, RegisterKeeps, SendKeeps, ReceiveKeeps, SightKeeps,
       CompleteKeeps, MaskKeeps
  <1>4. ASSUME NEW n \in DOMAIN reqs, NEW g \in 1..MaxLinks, Deliver(n, g)
        PROVE  ProxyInd'
    BY <1>4, DeliverKeeps
  <1>5. ASSUME NEW g \in 1..MaxLinks, LinkDown(g)
        PROVE  ProxyInd'
    BY <1>5, LinkDownKeeps
  <1>6. CASE Stop
    BY <1>6, StopKeeps
  <1> QED BY <1>1, <1>2, <1>3, <1>4, <1>5, <1>6 DEF Next

LEMMA ProxyInduction == Spec => []ProxyInd
  <1> QED BY ProxyStarts, ProxyStep, PTL DEF Spec
-----------------------------------------------------------------------------
(***************************************************************************)
(* The book of calls under way stays in order for any cap and any number   *)
(* of connections: map and queue hold the same keys, each once, and no     *)
(* more than the cap (gateway.rs, Inflight).                               *)
(***************************************************************************)
THEOREM BookInOrder == Spec => []InflightOK
  <1>1. ProxyInd => InflightOK
    <2> SUFFICES ASSUME ProxyInd PROVE InflightOK
      OBVIOUS
    <2>1. order \in Seq(Keys) /\ Distinct(order) /\ Range(order) = DOMAIN inflight
          /\ Len(order) <= cap
      BY DEF ProxyInd, BookOK
    <2>2. Len(order) = Cardinality(DOMAIN inflight)
      BY <2>1, DistinctLen
    <2> QED BY <2>1, <2>2 DEF InflightOK, InflightAgrees, ProxyInd
  <1> QED BY <1>1, ProxyInduction, PTL

(***************************************************************************)
(* The upstream only gets tools/calls that were decided and allowed, and a *)
(* call has at most one Execution record, whatever the upstream speaks and *)
(* whichever ids the agents use (gateway.rs, intercept, finish_response).  *)
(***************************************************************************)
THEOREM DecidedAndRecordedOnce == Spec => [](OnlyDecidedForwarded /\ OneExecution)
  <1>1. ProxyInd => OnlyDecidedForwarded /\ OneExecution
    BY DEF ProxyInd
  <1> QED BY <1>1, ProxyInduction, PTL
-----------------------------------------------------------------------------
\* Threads have different requests, and one that asks has one.
LEMMA AskingFacts ==
    ASSUME ProxyInd, NEW c \in Conns, thread[c].pc \in Asking \cup Sending
    PROVE  /\ thread[c].req \in DOMAIN reqs /\ thread[c].req # 0
           /\ \A d \in Conns \ {c} : thread[d].req # thread[c].req
  <1>1. thread[c].req \in DOMAIN reqs /\ thread[c].req # 0
    BY ThreadFields, ReqFacts DEF ThreadOK, ProxyInd, Asking, Sending
  <1> QED BY <1>1 DEF ProxyInd, ThreadsOK

\* An entry leaves the book when its call is evicted or its POST has failed,
\* or because another call has its key.
Forgets(c) ==
    \A k \in DOMAIN inflight :
        \/ k \in DOMAIN inflight' \/ inflight[k].call \in evicted'
        \/ ~Alone(inflight[k].call)
        \/ /\ inflight[k].call = thread[c].req /\ thread[c].pc \in Asking
           /\ thread'[c].pc = "idle"

\* What thread c shows, if it shows anything: the response it has seen, for
\* its request, masked if it is to be, or an event of a GET stream.
ShowsOwn(c) ==
    \/ shown' = shown
    \/ shown'.note /\ shown'.for = 0
    \/ /\ thread[c].pc \in {"sight", "complete", "mask"}
       /\ shown'.origin = thread[c].got
       /\ shown'.to = thread[c].agent /\ shown'.for = thread[c].req
       /\ reqs[thread[c].got].verdict = "redact" /\ Alone(thread[c].got) =>
             shown'.masked \/ thread[c].got \in evicted'

LEMMA TrackedKept ==
    ASSUME ProxyInd, OwnInd, NEW c \in Conns, UNCHANGED <<reqs, server, sessions>>,
           evicted \subseteq evicted', Forgets(c), NEW n \in DOMAIN reqs, Tracked(n),
           ~(n = thread[c].req /\ thread[c].pc \in Asking /\ thread'[c].pc = "idle")
    PROVE  Tracked(n)'
  <1>1. Key(n)' = Key(n) /\ Alone(n)' = Alone(n)
    BY DEF Key, session_of, Alone
  <1>2. CASE Alone(n) /\ Key(n) \in DOMAIN inflight
    <2>1. PICK m : m = inflight[Key(n)].call
      OBVIOUS
    <2>2. m \in DOMAIN reqs /\ Key(m) = Key(n)
      BY <1>2, <2>1 DEF ProxyInd, BookOK, IsCall
    <2>3. m = n
      BY <1>2, <2>2 DEF Alone
    <2>4. Key(n) \in DOMAIN inflight' \/ n \in evicted'
      BY <1>2, <2>1, <2>3 DEF Forgets
    <2> QED BY <1>1, <2>4 DEF Tracked
  <1>3. CASE n \in evicted \/ reqs[n].verdict # "redact" \/ ~Alone(n)
    BY <1>1, <1>3 DEF Tracked
  <1> QED BY <1>2, <1>3 DEF Tracked

LEMMA ReplayableTracked ==
    ASSUME ProxyInd, OwnInd, NEW c \in Conns, NEW n \in replayable
    PROVE  n \in DOMAIN reqs /\ Tracked(n) /\ ~(n = thread[c].req /\ thread[c].pc \in Asking)
  BY DEF ProxyInd, TypeOK, OwnInd, TrackedOK, AskingOK, Unanswered

\* A step of connection c that decides nothing.
LEMMA OwnMoves ==
    ASSUME ProxyInd, OwnInd, NEW c \in Conns, Moves(c), UNCHANGED <<reqs, server, sessions>>,
           AnswerOwn(c)', WaitersOK', RecordsOwn', ShowsOwn(c), Forgets(c),
           evicted \subseteq evicted', replayable \subseteq replayable',
           \/ replayable' = replayable
           \/ /\ replayable' = replayable \cup {thread[c].req}
              /\ thread[c].pc \in Sending /\ thread'[c].pc = "stream",
           thread'[c].pc \in Asking =>
               thread[c].pc \in Asking /\ thread'[c].req = thread[c].req,
           \/ thread'[c].got \in {0, thread[c].got} \cup replayable
           \/ thread[c].pc \in Sending /\ thread'[c].got = thread[c].req
           \/ ~Alone(thread'[c].got),
           thread'[c].pc \in Sending =>
               /\ thread'[c].req = thread[c].req
               /\ thread[c].pc \in Sending \/ thread[c].note \/ Tracked(thread[c].req)',
           thread'[c].pc = "sight" =>
               \/ thread'[c].got \in replayable
               \/ thread[c].pc \in Sending /\ thread'[c].got = thread[c].req
               \/ ~Alone(thread'[c].got),
           thread'[c].pc = "stream" \/ thread'[c].note => thread'[c].req \in replayable'
    PROVE  OwnInd'
  <1>1. \A d \in Conns \ {c} : thread'[d] = thread[d]
    BY DEF Moves
  <1>2. \A n : (n \in DOMAIN reqs => Key(n)' = Key(n)) /\ Alone(n)' = Alone(n)
    BY DEF Alone, Key, session_of
  <1>3. ASSUME NEW d \in Conns PROVE AnswerOwn(d)'
    <2>1. CASE d = c
      BY <2>1
    <2>2. CASE d # c
      <3>1. thread'[d] = thread[d] /\ AnswerOwn(d)
        BY <1>1, <2>2 DEF OwnInd
      <3> QED BY <3>1 DEF AnswerOwn, Key, session_of, Streamable
    <2> QED BY <2>1, <2>2
  <1>4. ASSUME NEW d \in Conns, NEW n \in DOMAIN reqs, thread'[d].pc \in Asking,
               thread'[d].req = n
        PROVE  Unanswered(d, n)'
    <2>1. thread[d].pc \in Asking /\ thread'[d].req = thread[d].req
      BY <1>1, <1>4
    <2>2. n = thread[d].req
      BY <1>4, <2>1
    <2>3. n # 0 /\ \A e \in Conns \ {d} : thread[e].req # n
      BY <2>1, <2>2, AskingFacts
    <2>4. /\ n \notin replayable
          /\ Alone(n) => /\ shown.origin = n => OnGet
                         /\ \A e \in Conns \ {d} : thread[e].got # n
      BY <2>1, <2>2 DEF OwnInd, AskingOK, Unanswered
    <2>5. n \notin replayable'
      <3>1. CASE d = c
        BY <1>4, <2>4, <3>1 DEF Asking
      <3>2. CASE d # c
        BY <2>3, <2>4, <3>2
      <3> QED BY <3>1, <3>2
    <2>6. Alone(n) => (shown'.origin = n => OnGet')
      <3>1. CASE d = c
        BY <2>1, <2>4, <3>1 DEF ShowsOwn, Asking, OnGet
      <3>2. CASE d # c
        BY <2>4, <3>2 DEF ShowsOwn, OnGet
      <3> QED BY <3>1, <3>2
    <2>7. ASSUME NEW e \in Conns \ {d}, Alone(n) PROVE thread'[e].got # n
      <3>1. CASE e = c
        BY <2>3, <2>4, <2>7, <3>1
      <3>2. CASE e # c
        BY <1>1, <2>4, <2>7, <3>2
      <3> QED BY <3>1, <3>2
    <2> QED BY <1>2, <2>5, <2>6, <2>7 DEF Unanswered
  <1>5. AskingOK'
    BY <1>4 DEF AskingOK
  <1>6. \A n \in replayable : Tracked(n)'
    BY ReplayableTracked, TrackedKept
  <1>7. ASSUME NEW n, n = thread[c].req, thread[c].pc \in Sending, thread'[c].pc # "idle"
        PROVE  Tracked(n)'
    <2>1. n \in DOMAIN reqs /\ Tracked(n)
      BY <1>7, AskingFacts DEF OwnInd, TrackedOK
    <2> QED BY <1>7, <2>1, TrackedKept
  <1>8. \A n \in replayable' : Tracked(n)'
    BY <1>6, <1>7
  <1>9. ASSUME NEW d \in Conns, thread'[d].pc \in Sending
        PROVE  Tracked(thread[d].req)'
    <2>1. PICK n : n = thread'[d].req
      OBVIOUS
    <2>2. CASE d = c
      <3>1. n = thread[c].req
        BY <1>9, <2>1, <2>2
      <3>2. CASE thread[c].pc \in Sending
        <4>1. thread'[c].pc # "idle"
          BY <1>9, <2>2 DEF Sending
        <4> QED BY <1>7, <2>1, <3>1, <3>2, <4>1
      <3>3. CASE thread[c].note
        <4>1. n \in replayable
          BY <3>1, <3>3 DEF OwnInd, TrackedOK
        <4> QED BY <1>6, <2>1, <4>1
      <3> QED BY <1>9, <2>2, <3>2, <3>3
    <2>3. CASE d # c
      <3>1. thread[d].pc \in Sending /\ n = thread[d].req
        BY <1>1, <1>9, <2>1, <2>3
      <3>2. n \in DOMAIN reqs /\ n # thread[c].req /\ Tracked(n)
        BY <2>3, <3>1, AskingFacts DEF OwnInd, TrackedOK
      <3>3. Tracked(n)'
        BY <3>2, TrackedKept
      <3> QED BY <2>1, <3>3
    <2> QED BY <2>2, <2>3
  <1>10. ASSUME NEW d \in Conns, thread'[d].pc = "sight"
         PROVE  Tracked(thread[d].got)'
    <2>1. PICK n : n = thread'[d].got
      OBVIOUS
    <2>2. CASE d = c
      <3>1. thread'[c].pc # "idle"
        BY <1>10, <2>2
      <3>2. n \in replayable \/ (thread[c].pc \in Sending /\ n = thread[c].req) \/ ~Alone(n)
        BY <1>10, <2>1, <2>2
      <3>3. Tracked(n)'
        BY <1>2, <1>6, <1>7, <3>1, <3>2 DEF Tracked
      <3> QED BY <2>1, <3>3
    <2>3. CASE d # c
      <3>1. thread[d].pc = "sight" /\ n = thread[d].got
        BY <1>1, <1>10, <2>1, <2>3
      <3>2. n \in DOMAIN reqs /\ Tracked(n)
        BY <3>1, ThreadFields DEF ThreadOK, OwnInd, TrackedOK
      <3>3. ~(n = thread[c].req /\ thread[c].pc \in Asking) \/ ~Alone(n)
        BY <2>3, <3>1, <3>2 DEF OwnInd, AskingOK, Unanswered
      <3>4. Tracked(n)'
        BY <1>2, <3>2, <3>3, TrackedKept DEF Tracked
      <3> QED BY <2>1, <3>4
    <2> QED BY <2>2, <2>3
  <1>11. \A d \in Conns : thread'[d].pc = "stream" \/ thread'[d].note =>
            thread'[d].req \in replayable'
    BY <1>1 DEF OwnInd, TrackedOK
  <1>12. TrackedOK'
    BY <1>8, <1>9, <1>10, <1>11 DEF TrackedOK
  <1>13. ShownOwn' /\ RedactedNeverShown'
    <2>1. CASE shown' = shown
      BY <1>2, <2>1
         DEF OwnInd, ShownOwn, RedactedNeverShown, OnGet, Alone, Key, session_of, Streamable
    <2>2. CASE shown'.note /\ shown'.for = 0
      BY <2>2 DEF ShownOwn, RedactedNeverShown, OnGet
    <2>3. CASE /\ thread[c].pc \in {"sight", "complete", "mask"}
               /\ shown'.origin = thread[c].got
               /\ shown'.to = thread[c].agent /\ shown'.for = thread[c].req
               /\ reqs[thread[c].got].verdict = "redact" /\ Alone(thread[c].got) =>
                     shown'.masked \/ thread[c].got \in evicted'
      <3>1. /\ AnswerOwn(c) /\ thread[c].req \in {0} \cup DOMAIN reqs
            /\ thread[c].req # 0 => thread[c].agent = reqs[thread[c].req].agent
            /\ thread[c].got \in DOMAIN reqs
        BY <2>3, ThreadFields DEF ThreadOK, OwnInd
      <3>2. ShownOwn'
        BY <2>3, <3>1 DEF AnswerOwn, ShownOwn, Key, session_of, Streamable
      <3>3. RedactedNeverShown'
        BY <1>2, <2>3, <3>1 DEF RedactedNeverShown
      <3> QED BY <3>2, <3>3
    <2> QED BY <2>1, <2>2, <2>3 DEF ShowsOwn
  <1> QED BY <1>3, <1>5, <1>12, <1>13 DEF OwnInd

\* What a waiter says of its thread.
LEMMA WaiterFacts ==
    ASSUME OwnInd, NEW w \in pending
    PROVE  /\ thread[w.conn].pc \in {"send", "wait"} /\ thread[w.conn].got = 0
           /\ w.gen = thread[w.conn].gen /\ w.id = reqs[thread[w.conn].req].id
  BY DEF OwnInd, WaitersOK

LEMMA WaitersStep ==
    ASSUME OwnInd, NEW c \in Conns, Moves(c), UNCHANGED reqs,
           pending \subseteq [gen : 1..MaxLinks, id : Ids, conn : Conns],
           \A w \in pending' :
              \/ w \in pending /\ (w.conn = c =>
                    /\ thread'[c].pc \in {"send", "wait"} /\ thread'[c].got = 0
                    /\ thread'[c].gen = thread[c].gen /\ thread'[c].req = thread[c].req)
              \/ /\ w = [gen |-> thread'[c].gen, id |-> reqs[thread'[c].req].id, conn |-> c]
                 /\ thread'[c].pc = "send" /\ thread'[c].got = 0,
           \A v, w \in pending' : v.gen = w.gen /\ v.id = w.id =>
              v = w \/ (v \in pending /\ w \in pending)
    PROVE  WaitersOK'
  <1>0. \A v, w \in pending' : v.gen = w.gen /\ v.id = w.id => v = w
    BY DEF OwnInd, WaitersOK
  <1> SUFFICES ASSUME NEW w \in pending'
               PROVE  /\ thread'[w.conn].pc \in {"send", "wait"} /\ thread'[w.conn].got = 0
                      /\ w.gen = thread'[w.conn].gen /\ w.id = reqs'[thread'[w.conn].req].id
    BY <1>0 DEF WaitersOK
  <1>1. CASE w \in pending /\ w.conn # c
    <2>1. w.conn \in Conns
      BY <1>1
    <2>2. thread'[w.conn] = thread[w.conn]
      BY <1>1, <2>1 DEF Moves
    <2> QED BY <1>1, <2>2, WaiterFacts
  <1>2. CASE w \in pending /\ w.conn = c
    BY <1>2, WaiterFacts
  <1>3. CASE /\ w = [gen |-> thread'[c].gen, id |-> reqs[thread'[c].req].id, conn |-> c]
             /\ thread'[c].pc = "send" /\ thread'[c].got = 0
    BY <1>3
  <1> QED BY <1>1, <1>2, <1>3

\* A failed POST forgets its own call only.
LEMMA FailForgets ==
    ASSUME ProxyInd, OwnInd, NEW c \in Conns, thread[c].pc \in {"post", "send", "wait"},
           FailPost(c)
    PROVE  Forgets(c) /\ thread' = [thread EXCEPT ![c] = Idle]
  <1>1. thread' = [thread EXCEPT ![c] = Idle] /\ thread'[c].pc = "idle"
    <2>1. thread' = [thread EXCEPT ![c] = Idle]
      BY DEF FailPost, Done
    <2> QED BY <2>1, DoneOK
  <1>2. PICK n : n = thread[c].req
    OBVIOUS
  <1>3. n \in DOMAIN reqs
    BY <1>2, AskingFacts DEF Asking
  <1>4. ASSUME NEW k \in DOMAIN inflight, k \notin DOMAIN inflight'
        PROVE  inflight[k].call = n \/ ~Alone(inflight[k].call)
    <2>1. k = Key(n)
      BY <1>2, <1>4 DEF FailPost, RemoveKey
    <2>2. PICK m : m = inflight[k].call
      OBVIOUS
    <2>3. m \in DOMAIN reqs /\ k = Key(m)
      BY <2>2 DEF ProxyInd, BookOK, IsCall
    <2> QED BY <1>3, <2>1, <2>2, <2>3 DEF Alone
  <1>5. Forgets(c)
    BY <1>1, <1>2, <1>4 DEF Forgets, Asking
  <1> QED BY <1>1, <1>5

\* The request is over, and its thread waits for nothing.
LEMMA OwnDone ==
    ASSUME ProxyInd, OwnInd, NEW c \in Conns, thread' = [thread EXCEPT ![c] = Idle],
           UNCHANGED <<reqs, server, sessions, executions, replayable>>, Forgets(c),
                       ShowsOwn(c),
           evicted \subseteq evicted', \A w \in pending' : w \in pending /\ w.conn # c
    PROVE  OwnInd'
  <1>1. Moves(c) /\ thread'[c] = Idle
    BY ThreadSet DEF ProxyInd
  <1>2. /\ thread'[c].pc = "idle" /\ thread'[c].got = 0 /\ thread'[c].note = FALSE
    BY <1>1 DEF Idle
  <1>3. AnswerOwn(c)'
    BY <1>2 DEF AnswerOwn
  <1>4. WaitersOK'
    BY <1>1, WaitersStep, TypeFacts
  <1>5. RecordsOwn'
    BY DEF OwnInd, RecordsOwn, Key, session_of
  <1> QED BY <1>1, <1>2, <1>3, <1>4, <1>5, OwnMoves DEF Asking, Sending

\* The thread has no waiter.
LEMMA NoWaiter ==
    ASSUME OwnInd, NEW c \in Conns, thread[c].pc \notin {"send", "wait"}
    PROVE  \A w \in pending : w.conn # c
  BY WaiterFacts

LEMMA StreamableFailsOwn ==
    ASSUME ProxyInd, OwnInd, NEW c \in Conns, StreamableFails(c)
    PROVE  OwnInd'
  <1>1. /\ thread[c].pc = "post" /\ FailPost(c)
        /\ UNCHANGED <<reqs, server, sessions, executions, replayable, pending, shown,
                       evicted>>
    BY DEF StreamableFails, configVars, recordVars
  <1>2. Forgets(c) /\ thread' = [thread EXCEPT ![c] = Idle]
    BY <1>1, FailForgets
  <1>3. ShowsOwn(c)
    BY <1>1 DEF ShowsOwn
  <1> QED BY <1>1, <1>2, <1>3, NoWaiter, OwnDone

LEMMA StreamableFullOwn ==
    ASSUME ProxyInd, OwnInd, NEW c \in Conns, StreamableFull(c)
    PROVE  OwnInd'
  <1>1. /\ thread[c].pc = "post" /\ Forgets(c) /\ ShowsOwn(c)
        /\ UNCHANGED <<reqs, server, sessions, executions, replayable, pending, shown,
                       evicted, inflight>>
    BY DEF StreamableFull, configVars, recordVars, Forgets, ShowsOwn
  <1>2. CASE Done(c)
    BY <1>1, <1>2, NoWaiter, OwnDone DEF Done
  <1>3. CASE thread' = [thread EXCEPT ![c].pc = "sight", ![c].got = thread[c].req]
    <2>1. Moves(c) /\ thread'[c] = [thread[c] EXCEPT !.pc = "sight", !.got = thread[c].req]
      BY <1>3, ThreadFields DEF Moves
    <2>2. /\ thread'[c].pc = "sight" /\ thread'[c].req = thread[c].req
          /\ thread'[c].agent = thread[c].agent /\ thread'[c].got = thread[c].req
          /\ thread'[c].note = thread[c].note /\ thread'[c].by = thread[c].by
          /\ thread'[c].gen = thread[c].gen
      BY <2>1, ThreadFields
    <2>3. /\ thread[c].req \in DOMAIN reqs /\ thread[c].agent = reqs[thread[c].req].agent
          /\ ~thread[c].note
      BY <1>1, ThreadFields, SendingFacts DEF ThreadOK, Sending
    <2>4. AnswerOwn(c)'
      BY <1>1, <2>2, <2>3 DEF AnswerOwn
    <2>5. WaitersOK'
      BY <1>1, <2>1, NoWaiter, WaitersStep, TypeFacts
    <2>6. RecordsOwn'
      BY <1>1 DEF OwnInd, RecordsOwn, Key, session_of
    <2> QED BY <1>1, <2>1, <2>2, <2>3, <2>4, <2>5, <2>6, OwnMoves DEF Asking, Sending
  <1> QED BY <1>2, <1>3 DEF StreamableFull

LEMMA StreamableStreamOwn ==
    ASSUME ProxyInd, OwnInd, NEW c \in Conns, StreamableStream(c)
    PROVE  OwnInd'
  <1>1. /\ thread[c].pc = "post" /\ Forgets(c) /\ ShowsOwn(c)
        /\ thread' = [thread EXCEPT ![c].pc = "stream"]
        /\ replayable' = replayable \cup {thread[c].req}
        /\ UNCHANGED <<reqs, server, sessions, executions, pending, shown, evicted, inflight>>
    BY DEF StreamableStream, configVars, recordVars, Forgets, ShowsOwn
  <1>2. Moves(c) /\ thread'[c] = [thread[c] EXCEPT !.pc = "stream"]
    BY <1>1, ThreadFields DEF Moves
  <1>3. /\ thread'[c].pc = "stream" /\ thread'[c].req = thread[c].req
        /\ thread'[c].agent = thread[c].agent /\ thread'[c].got = thread[c].got
        /\ thread'[c].note = thread[c].note /\ thread'[c].by = thread[c].by
        /\ thread'[c].gen = thread[c].gen
    BY <1>2, ThreadFields
  <1>4. AnswerOwn(c) /\ ~thread[c].note
    BY <1>1, SendingFacts DEF OwnInd, Sending
  <1>5. AnswerOwn(c)'
    BY <1>1, <1>3, <1>4 DEF AnswerOwn
  <1>6. WaitersOK'
    BY <1>1, <1>2, NoWaiter, WaitersStep, TypeFacts
  <1>7. RecordsOwn'
    BY <1>1 DEF OwnInd, RecordsOwn, Key, session_of
  <1> QED BY <1>1, <1>2, <1>3, <1>4, <1>5, <1>6, <1>7, OwnMoves DEF Asking, Sending

LEMMA StreamEventOwn ==
    ASSUME ProxyInd, OwnInd, NEW c \in Conns, StreamEvent(c)
    PROVE  OwnInd'
  <1>1. /\ thread[c].pc = "stream" /\ Forgets(c) /\ ShowsOwn(c)
        /\ UNCHANGED <<reqs, server, sessions, executions, replayable, pending, shown,
                       evicted, inflight>>
    BY DEF StreamEvent, configVars, upstreamVars, recordVars, Forgets, ShowsOwn
  <1>2. /\ thread[c].req \in DOMAIN reqs /\ thread[c].agent = reqs[thread[c].req].agent
        /\ ~thread[c].note /\ thread[c].req \in replayable
    BY <1>1, ThreadFields, SendingFacts DEF ThreadOK, Sending, OwnInd, TrackedOK
  <1>3. CASE thread' = [thread EXCEPT ![c].pc = "sight", ![c].got = thread[c].req]
    <2>1. Moves(c) /\ thread'[c] = [thread[c] EXCEPT !.pc = "sight", !.got = thread[c].req]
      BY <1>3, ThreadFields DEF Moves
    <2>2. /\ thread'[c].pc = "sight" /\ thread'[c].req = thread[c].req
          /\ thread'[c].agent = thread[c].agent /\ thread'[c].got = thread[c].req
          /\ thread'[c].note = thread[c].note /\ thread'[c].by = thread[c].by
          /\ thread'[c].gen = thread[c].gen
      BY <2>1, ThreadFields
    <2>3. AnswerOwn(c)'
      BY <1>1, <1>2, <2>2 DEF AnswerOwn
    <2>4. WaitersOK'
      BY <1>1, <2>1, NoWaiter, WaitersStep, TypeFacts
    <2>5. RecordsOwn'
      BY <1>1 DEF OwnInd, RecordsOwn, Key, session_of
    <2> QED BY <1>1, <1>2, <2>1, <2>2, <2>3, <2>4, <2>5, OwnMoves DEF Asking, Sending
  <1>4. CASE thread' = [thread EXCEPT ![c].pc = "mask", ![c].got = thread[c].req,
                                      ![c].note = TRUE, ![c].by = thread[c].req]
    <2>1. Moves(c) /\ thread'[c] = [thread[c] EXCEPT !.pc = "mask", !.got = thread[c].req,
                                           !.note = TRUE, !.by = thread[c].req]
      BY <1>4, ThreadFields DEF Moves
    <2>2. /\ thread'[c].pc = "mask" /\ thread'[c].req = thread[c].req
          /\ thread'[c].agent = thread[c].agent /\ thread'[c].got = thread[c].req
          /\ thread'[c].note = TRUE /\ thread'[c].by = thread[c].req
          /\ thread'[c].gen = thread[c].gen
      BY <2>1, ThreadFields
    <2>3. AnswerOwn(c)'
      BY <1>1, <1>2, <2>2 DEF AnswerOwn
    <2>4. WaitersOK'
      BY <1>1, <2>1, NoWaiter, WaitersStep, TypeFacts
    <2>5. RecordsOwn'
      BY <1>1 DEF OwnInd, RecordsOwn, Key, session_of
    <2> QED BY <1>1, <1>2, <2>1, <2>2, <2>3, <2>4, <2>5, OwnMoves DEF Asking, Sending
  <1> QED BY <1>3, <1>4 DEF StreamEvent

LEMMA StreamEndsOwn ==
    ASSUME ProxyInd, OwnInd, NEW c \in Conns, StreamEnds(c)
    PROVE  OwnInd'
  <1>1. /\ thread[c].pc = "stream" /\ Forgets(c) /\ ShowsOwn(c)
        /\ thread' = [thread EXCEPT ![c] = Idle]
        /\ UNCHANGED <<reqs, server, sessions, executions, replayable, pending, shown,
                       evicted, inflight>>
    BY DEF StreamEnds, Done, configVars, upstreamVars, recordVars, Forgets, ShowsOwn
  <1> QED BY <1>1, NoWaiter, OwnDone

LEMMA OpenGetOwn ==
    ASSUME ProxyInd, OwnInd, NEW c \in Conns, OpenGet(c)
    PROVE  OwnInd'
  <1>1. /\ thread[c].pc = "idle" /\ Forgets(c)
        /\ UNCHANGED <<reqs, server, sessions, executions, replayable, pending, evicted,
                       inflight>>
    BY DEF OpenGet, Free, configVars, upstreamVars, Forgets
  <1>2. PICK a \in Agents, n \in DOMAIN reqs :
          \/ /\ n \in replayable /\ reqs[n].agent = a
             /\ thread' = [thread EXCEPT ![c] = [Idle EXCEPT
                              !.pc = "sight", !.agent = a, !.got = n]]
             /\ UNCHANGED shown
          \/ /\ shown' = [to |-> a, for |-> 0, origin |-> n, note |-> TRUE, masked |-> FALSE]
             /\ UNCHANGED thread
    BY DEF OpenGet
  <1>3. WaitersOK' /\ RecordsOwn' /\ ShowsOwn(c)
    <2>1. WaitersOK'
      <3>1. Moves(c)
        BY <1>2, ThreadSet, ThreadFields DEF ProxyInd, Moves
      <3> QED BY <1>1, <3>1, NoWaiter, WaitersStep, TypeFacts
    <2>2. RecordsOwn'
      BY <1>1 DEF OwnInd, RecordsOwn, Key, session_of
    <2>3. ShowsOwn(c)
      BY <1>2 DEF ShowsOwn
    <2> QED BY <2>1, <2>2, <2>3
  <1>4. CASE /\ n \in replayable /\ reqs[n].agent = a
             /\ thread' = [thread EXCEPT ![c] = [Idle EXCEPT
                              !.pc = "sight", !.agent = a, !.got = n]]
    <2>1. /\ Moves(c)
          /\ thread'[c].pc = "sight" /\ thread'[c].req = 0 /\ thread'[c].agent = a
          /\ thread'[c].got = n /\ thread'[c].note = FALSE /\ thread'[c].by = 0
      <3>1. Moves(c) /\ thread'[c] = [Idle EXCEPT !.pc = "sight", !.agent = a, !.got = n]
        BY <1>4, ThreadSet DEF ProxyInd
      <3> QED BY <3>1 DEF Idle
    <2>2. AnswerOwn(c)'
      BY <1>1, <1>4, <2>1 DEF AnswerOwn
    <2> QED BY <1>1, <1>3, <1>4, <2>1, <2>2, OwnMoves DEF Asking, Sending
  <1>5. CASE UNCHANGED thread
    <2>1. Moves(c) /\ thread'[c] = thread[c]
      BY <1>5, ThreadFields DEF Moves
    <2>2. AnswerOwn(c)' /\ ~thread[c].note /\ thread[c].got = 0
      BY <1>1, <1>5, ThreadFields DEF OwnInd, AnswerOwn, ThreadOK
    <2> QED BY <1>1, <1>3, <2>1, <2>2, OwnMoves DEF Asking, Sending
  <1> QED BY <1>2, <1>4, <1>5

LEMMA DeleteSessionOwn ==
    ASSUME ProxyInd, OwnInd, NEW c \in Conns, DeleteSession(c)
    PROVE  OwnInd'
  <1>1. /\ thread[c].pc = "idle" /\ ShowsOwn(c) /\ evicted \subseteq evicted'
        /\ UNCHANGED <<reqs, server, sessions, thread, executions, replayable, pending, shown>>
    BY DEF DeleteSession, Free, configVars, upstreamVars, ShowsOwn
  <1>2. Forgets(c)
    BY DEF DeleteSession, Forgets
  <1>3. Moves(c) /\ thread'[c] = thread[c]
    BY <1>1, ThreadFields DEF Moves
  <1>4. AnswerOwn(c)' /\ ~thread[c].note /\ thread[c].got = 0
    BY <1>1, ThreadFields DEF OwnInd, AnswerOwn, ThreadOK
  <1>5. WaitersOK'
    BY <1>1, <1>3, NoWaiter, WaitersStep, TypeFacts
  <1>6. RecordsOwn'
    BY <1>1 DEF OwnInd, RecordsOwn, Key, session_of
  <1> QED BY <1>1, <1>2, <1>3, <1>4, <1>5, <1>6, OwnMoves DEF Asking, Sending

LEMMA FallbackOwn ==
    ASSUME ProxyInd, OwnInd, NEW c \in Conns, Fallback(c)
    PROVE  OwnInd'
  <1>1. /\ thread[c].pc = "post" /\ Forgets(c) /\ ShowsOwn(c)
        /\ UNCHANGED <<reqs, server, sessions, executions, replayable, pending, shown,
                       evicted, inflight>>
    BY DEF Fallback, configVars, recordVars, Forgets, ShowsOwn
  <1>2. CASE Done(c)
    BY <1>1, <1>2, NoWaiter, OwnDone DEF Done
  <1>3. CASE UNCHANGED thread
    <2>1. Moves(c) /\ thread'[c] = thread[c]
      BY <1>3, ThreadFields DEF Moves
    <2>2. AnswerOwn(c)' /\ ~thread[c].note
      BY <1>1, <1>3, ThreadFields DEF OwnInd, AnswerOwn, ThreadOK
    <2>3. WaitersOK'
      BY <1>1, <2>1, NoWaiter, WaitersStep, TypeFacts
    <2>4. RecordsOwn'
      BY <1>1 DEF OwnInd, RecordsOwn, Key, session_of
    <2> QED BY <1>1, <2>1, <2>2, <2>3, <2>4, OwnMoves DEF Asking, Sending
  <1> QED BY <1>2, <1>3 DEF Fallback

LEMMA ConnectOwn ==
    ASSUME ProxyInd, OwnInd, NEW c \in Conns, Connect(c)
    PROVE  OwnInd'
  <1>1. /\ thread[c].pc = "post" /\ ShowsOwn(c)
        /\ UNCHANGED <<reqs, server, sessions, executions, replayable, pending, shown,
                       evicted>>
    BY DEF Connect, configVars, recordVars, ShowsOwn
  <1>2. CASE FailPost(c)
    <2>1. Forgets(c) /\ thread' = [thread EXCEPT ![c] = Idle]
      BY <1>1, <1>2, FailForgets
    <2> QED BY <1>1, <2>1, NoWaiter, OwnDone
  <1>3. ASSUME NEW g, UNCHANGED inflight,
               thread' = [thread EXCEPT ![c].pc = "register", ![c].gen = g]
        PROVE  OwnInd'
    <2>1. Moves(c) /\ thread'[c] = [thread[c] EXCEPT !.pc = "register", !.gen = g]
      BY <1>3, ThreadFields DEF Moves
    <2>2. /\ thread'[c].pc = "register" /\ thread'[c].req = thread[c].req
          /\ thread'[c].agent = thread[c].agent /\ thread'[c].got = thread[c].got
          /\ thread'[c].note = thread[c].note /\ thread'[c].by = thread[c].by
          /\ thread'[c].gen = g
      BY <2>1, ThreadFields
    <2>3. AnswerOwn(c) /\ ~thread[c].note /\ Forgets(c)
      BY <1>1, <1>3, SendingFacts DEF OwnInd, Sending, Forgets
    <2>4. AnswerOwn(c)'
      BY <1>1, <2>2, <2>3 DEF AnswerOwn
    <2>5. WaitersOK'
      BY <1>1, <2>1, NoWaiter, WaitersStep, TypeFacts
    <2>6. RecordsOwn'
      BY <1>1 DEF OwnInd, RecordsOwn, Key, session_of
    <2> QED BY <1>1, <1>3, <2>1, <2>2, <2>3, <2>4, <2>5, <2>6, OwnMoves DEF Asking, Sending
  <1> QED BY <1>2, <1>3 DEF Connect

LEMMA RegisterOwn ==
    ASSUME ProxyInd, OwnInd, NEW c \in Conns, Register(c)
    PROVE  OwnInd'
  <1>1. /\ thread[c].pc = "register" /\ Forgets(c) /\ ShowsOwn(c)
        /\ thread' = [thread EXCEPT ![c].pc = "send"]
        /\ \A w \in pending' : w \in pending
              \/ w = [gen |-> thread[c].gen, id |-> reqs[thread[c].req].id, conn |-> c]
        /\ \A v, w \in pending' : v.gen = w.gen /\ v.id = w.id =>
              v = w \/ (v \in pending /\ w \in pending)
        /\ UNCHANGED <<reqs, server, sessions, executions, replayable, shown, evicted,
                       inflight>>
    BY DEF Register, Waiters, configVars, recordVars, Forgets, ShowsOwn
  <1>2. Moves(c) /\ thread'[c] = [thread[c] EXCEPT !.pc = "send"]
    BY <1>1, ThreadFields DEF Moves
  <1>3. /\ thread'[c].pc = "send" /\ thread'[c].req = thread[c].req
        /\ thread'[c].agent = thread[c].agent /\ thread'[c].got = thread[c].got
        /\ thread'[c].note = thread[c].note /\ thread'[c].by = thread[c].by
        /\ thread'[c].gen = thread[c].gen
    BY <1>2, ThreadFields
  <1>4. AnswerOwn(c) /\ ~thread[c].note /\ thread[c].got = 0
    BY <1>1, SendingFacts DEF OwnInd, Sending, AnswerOwn
  <1>5. AnswerOwn(c)'
    BY <1>1, <1>3, <1>4 DEF AnswerOwn
  <1>6. WaitersOK'
    BY <1>1, <1>2, <1>3, <1>4, NoWaiter, WaitersStep, TypeFacts
  <1>7. RecordsOwn'
    BY <1>1 DEF OwnInd, RecordsOwn, Key, session_of
  <1> QED BY <1>1, <1>2, <1>3, <1>4, <1>5, <1>6, <1>7, OwnMoves DEF Asking, Sending

\* Dropping the waiters of the thread's connection and id drops its own.
LEMMA DropsWaiter ==
    ASSUME OwnInd, NEW c \in Conns,
           pending' = pending \ Waiters(thread[c].gen, reqs[thread[c].req].id)
    PROVE  \A w \in pending' : w \in pending /\ w.conn # c
  BY WaiterFacts DEF Waiters

LEMMA SendOwn ==
    ASSUME ProxyInd, OwnInd, NEW c \in Conns, Send(c)
    PROVE  OwnInd'
  <1>1. /\ thread[c].pc = "send" /\ ShowsOwn(c)
        /\ UNCHANGED <<reqs, server, sessions, executions, replayable, shown, evicted>>
    BY DEF Send, configVars, recordVars, ShowsOwn
  <1>2. CASE /\ thread' = [thread EXCEPT ![c].pc = "wait"]
             /\ UNCHANGED <<pending, inflight, order>>
    <2>1. Moves(c) /\ thread'[c] = [thread[c] EXCEPT !.pc = "wait"]
      BY <1>2, ThreadFields DEF Moves
    <2>2. /\ thread'[c].pc = "wait" /\ thread'[c].req = thread[c].req
          /\ thread'[c].agent = thread[c].agent /\ thread'[c].got = thread[c].got
          /\ thread'[c].note = thread[c].note /\ thread'[c].by = thread[c].by
          /\ thread'[c].gen = thread[c].gen
      BY <2>1, ThreadFields
    <2>3. AnswerOwn(c) /\ ~thread[c].note /\ Forgets(c)
      BY <1>1, <1>2, SendingFacts DEF OwnInd, Sending, Forgets
    <2>4. AnswerOwn(c)'
      BY <1>1, <2>2, <2>3 DEF AnswerOwn, Key, session_of
    <2>5. WaitersOK'
      BY <1>1, <1>2, <2>1, <2>2, WaiterFacts, WaitersStep, TypeFacts
    <2>6. RecordsOwn'
      BY <1>1 DEF OwnInd, RecordsOwn, Key, session_of
    <2> QED BY <1>1, <1>2, <2>1, <2>2, <2>3, <2>4, <2>5, <2>6, OwnMoves DEF Asking, Sending
  <1>3. CASE /\ pending' = pending \ Waiters(thread[c].gen, reqs[thread[c].req].id)
             /\ FailPost(c)
    <2>1. Forgets(c) /\ thread' = [thread EXCEPT ![c] = Idle]
      BY <1>1, <1>3, FailForgets
    <2> QED BY <1>1, <1>3, <2>1, DropsWaiter, OwnDone
  <1>4. CASE /\ pending' = pending \ Waiters(thread[c].gen, reqs[thread[c].req].id)
             /\ UNCHANGED inflight /\ Done(c)
    <2>1. Forgets(c) /\ thread' = [thread EXCEPT ![c] = Idle]
      BY <1>4 DEF Forgets, Done
    <2> QED BY <1>1, <1>4, <2>1, DropsWaiter, OwnDone
  <1>5. CASE /\ pending' = pending \ Waiters(thread[c].gen, reqs[thread[c].req].id)
             /\ UNCHANGED inflight
             /\ thread' = [thread EXCEPT ![c].pc = "sight", ![c].got = thread[c].req]
    <2>1. Moves(c) /\ thread'[c] = [thread[c] EXCEPT !.pc = "sight", !.got = thread[c].req]
      BY <1>5, ThreadFields DEF Moves
    <2>2. /\ thread'[c].pc = "sight" /\ thread'[c].req = thread[c].req
          /\ thread'[c].agent = thread[c].agent /\ thread'[c].got = thread[c].req
          /\ thread'[c].note = thread[c].note
      BY <2>1, ThreadFields
    <2>3. /\ thread[c].req \in DOMAIN reqs /\ ~thread[c].note /\ Forgets(c)
      BY <1>1, <1>5, ThreadFields, SendingFacts DEF ThreadOK, Sending, Forgets
    <2>4. AnswerOwn(c)'
      BY <1>1, <2>2, <2>3, ReqFacts DEF AnswerOwn, Key, session_of, ProxyInd
    <2>5. \A w \in pending' : w \in pending /\ w.conn # c
      BY <1>5, DropsWaiter
    <2>6. WaitersOK'
      BY <1>1, <2>1, <2>5, WaitersStep, TypeFacts
    <2>7. RecordsOwn'
      BY <1>1 DEF OwnInd, RecordsOwn, Key, session_of
    <2>8. thread[c].pc \in Sending
      BY <1>1 DEF Sending
    <2> QED BY <1>1, <2>1, <2>2, <2>3, <2>4, <2>6, <2>7, <2>8, OwnMoves DEF Asking, Sending
  <1> QED BY <1>2, <1>3, <1>4, <1>5 DEF Send

LEMMA ReceiveOwn ==
    ASSUME ProxyInd, OwnInd, NEW c \in Conns, Receive(c)
    PROVE  OwnInd'
  <1>1. /\ thread[c].pc = "wait" /\ ShowsOwn(c)
        /\ UNCHANGED <<reqs, server, sessions, executions, replayable, shown, evicted>>
    BY DEF Receive, configVars, recordVars, ShowsOwn
  <1>2. CASE /\ thread[c].got > 0 /\ thread' = [thread EXCEPT ![c].pc = "sight"]
             /\ UNCHANGED <<pending, inflight, order>>
    <2>1. Moves(c) /\ thread'[c] = [thread[c] EXCEPT !.pc = "sight"]
      BY <1>2, ThreadFields DEF Moves
    <2>2. /\ thread'[c].pc = "sight" /\ thread'[c].req = thread[c].req
          /\ thread'[c].agent = thread[c].agent /\ thread'[c].got = thread[c].got
          /\ thread'[c].note = thread[c].note /\ thread'[c].by = thread[c].by
          /\ thread'[c].gen = thread[c].gen
      BY <2>1, ThreadFields
    <2>3. /\ thread[c].got = thread[c].req \/ ~Alone(thread[c].got)
          /\ Key(thread[c].got) = Key(thread[c].req) /\ Legacy
          /\ ~thread[c].note /\ Forgets(c)
          /\ thread[c].req \in DOMAIN reqs /\ thread[c].req # 0
      <3>1. thread[c].got # 0
        BY <1>2
      <3>2. Key(thread[c].got) = Key(thread[c].req)
        BY <1>1, <3>1 DEF OwnInd, AnswerOwn
      <3>3. /\ ~thread[c].note /\ thread[c].req \in DOMAIN reqs /\ Legacy
            /\ thread[c].req # 0
        BY <1>1, SendingFacts, AskingFacts, ThreadFields DEF Sending, ThreadOK
      <3>4. thread[c].got = thread[c].req \/ ~Alone(thread[c].got)
        BY <3>2, <3>3 DEF Alone
      <3> QED BY <1>2, <3>2, <3>3, <3>4 DEF Forgets
    <2>4. \A w \in pending : w.conn # c
      BY <1>2, WaiterFacts
    <2>5. AnswerOwn(c)'
      BY <1>1, <2>2, <2>3 DEF AnswerOwn, Key, session_of, Streamable, Legacy
    <2>6. WaitersOK'
      BY <1>1, <1>2, <2>1, <2>4, WaitersStep, TypeFacts
    <2>7. RecordsOwn'
      BY <1>1 DEF OwnInd, RecordsOwn, Key, session_of
    <2> QED BY <1>1, <1>2, <2>1, <2>2, <2>3, <2>5, <2>6, <2>7, OwnMoves DEF Asking, Sending
  <1>3. CASE /\ \/ UNCHANGED pending /\ \A w \in pending : w.conn # c
                \/ pending' = pending \ Waiters(thread[c].gen, reqs[thread[c].req].id)
             /\ FailPost(c)
    <2>1. Forgets(c) /\ thread' = [thread EXCEPT ![c] = Idle]
      BY <1>1, <1>3, FailForgets
    <2> QED BY <1>1, <1>3, <2>1, DropsWaiter, OwnDone
  <1> QED BY <1>2, <1>3 DEF Receive

LEMMA InsertOwn ==
    ASSUME ProxyInd, OwnInd, NEW c \in Conns, Insert(c)
    PROVE  OwnInd'
  <1>1. /\ thread[c].pc = "insert" /\ ShowsOwn(c)
        /\ thread' = [thread EXCEPT ![c].pc = "post"]
        /\ UNCHANGED <<reqs, server, sessions, executions, replayable, pending, shown>>
    BY DEF Insert, configVars, upstreamVars, ShowsOwn
  <1>2. Moves(c) /\ thread'[c] = [thread[c] EXCEPT !.pc = "post"]
    BY <1>1, ThreadFields DEF Moves
  <1>3. /\ thread'[c].pc = "post" /\ thread'[c].req = thread[c].req
        /\ thread'[c].agent = thread[c].agent /\ thread'[c].got = thread[c].got
        /\ thread'[c].note = thread[c].note /\ thread'[c].by = thread[c].by
        /\ thread'[c].gen = thread[c].gen
    BY <1>2, ThreadFields
  <1>4. PICK n : n = thread[c].req
    OBVIOUS
  <1>5. /\ n \in DOMAIN reqs /\ ~thread[c].note /\ evicted \subseteq evicted'
        /\ \A k \in DOMAIN inflight \ {Key(n)} :
              k \in DOMAIN inflight' \/ inflight[k].call \in evicted'
        /\ Key(n) \in DOMAIN inflight' \/ n \in evicted'
    BY <1>4, InsertFacts DEF IsCall
  <1>6. Forgets(c)
    <2>1. ASSUME NEW k \in DOMAIN inflight, k = Key(n)
          PROVE  inflight[k].call = n \/ ~Alone(inflight[k].call)
      <3>1. PICK m : m = inflight[k].call
        OBVIOUS
      <3>2. m \in DOMAIN reqs /\ k = Key(m)
        BY <3>1 DEF ProxyInd, BookOK, IsCall
      <3> QED BY <1>5, <2>1, <3>1, <3>2 DEF Alone
    <2> QED BY <1>5, <2>1 DEF Forgets
  <1>7. Tracked(n)'
    BY <1>1, <1>5 DEF Tracked, Key, session_of
  <1>8. Tracked(thread[c].req)'
    <2>1. thread'[c].req = n
      BY <1>3, <1>4
    <2> QED BY <1>7, <2>1
  <1>9. AnswerOwn(c)
    BY DEF OwnInd
  <1>10. AnswerOwn(c)'
    BY <1>1, <1>3, <1>9 DEF AnswerOwn
  <1>11. WaitersOK'
    BY <1>1, <1>2, NoWaiter, WaitersStep, TypeFacts
  <1>12. RecordsOwn'
    BY <1>1 DEF OwnInd, RecordsOwn, Key, session_of
  <1>13. thread'[c].pc \in Sending =>
           /\ thread'[c].req = thread[c].req
           /\ thread[c].pc \in Sending \/ thread[c].note \/ Tracked(thread[c].req)'
    BY <1>3, <1>8
  <1>14. /\ thread'[c].pc = "post" /\ ~thread'[c].note /\ thread'[c].got = thread[c].got
         /\ thread[c].pc \in Asking /\ thread'[c].req = thread[c].req
    BY <1>1, <1>3, <1>5 DEF Asking
  <1> QED BY <1>1, <1>2, <1>5, <1>6, <1>10, <1>11, <1>12, <1>13, <1>14, OwnMoves

\* The answer or the notification is shown, or withheld.
LEMMA AfterOwn ==
    ASSUME ProxyInd, OwnInd, NEW c \in Conns, thread[c].pc \in {"sight", "complete", "mask"},
           UNCHANGED <<reqs, server, sessions, replayable, pending, evicted, inflight>>,
           After(c), ShowsOwn(c), RecordsOwn'
    PROVE  OwnInd'
  <1>1. Forgets(c)
    BY DEF Forgets
  <1>2. CASE ~thread[c].note
    <2>1. thread' = [thread EXCEPT ![c] = Idle]
      BY <1>2 DEF After, Done
    <2>2. Moves(c) /\ thread'[c] = Idle
      BY <2>1, ThreadSet DEF ProxyInd
    <2>3. thread'[c].pc = "idle" /\ thread'[c].got = 0 /\ thread'[c].note = FALSE
      BY <2>2 DEF Idle
    <2>4. AnswerOwn(c)'
      BY <2>3 DEF AnswerOwn
    <2>5. WaitersOK'
      BY <2>2, NoWaiter, WaitersStep, TypeFacts
    <2> QED BY <1>1, <2>2, <2>3, <2>4, <2>5, OwnMoves DEF Asking, Sending
  <1>3. CASE thread[c].note
    <2>1. thread' = [thread EXCEPT ![c].pc = "stream", ![c].got = 0, ![c].note = FALSE,
                                   ![c].by = 0]
      BY <1>3 DEF After
    <2>2. Moves(c) /\ thread'[c] = [thread[c] EXCEPT !.pc = "stream", !.got = 0,
                                           !.note = FALSE, !.by = 0]
      BY <2>1, ThreadFields DEF Moves
    <2>3. /\ thread'[c].pc = "stream" /\ thread'[c].req = thread[c].req
          /\ thread'[c].agent = thread[c].agent /\ thread'[c].got = 0
          /\ thread'[c].note = FALSE /\ thread'[c].by = 0
          /\ thread'[c].gen = thread[c].gen
      BY <2>2, ThreadFields
    <2>4. thread[c].req \in replayable
      BY <1>3 DEF OwnInd, TrackedOK
    <2>5. AnswerOwn(c)'
      BY <2>3 DEF AnswerOwn
    <2>6. WaitersOK'
      BY <2>2, NoWaiter, WaitersStep, TypeFacts
    <2> QED BY <1>1, <1>3, <2>2, <2>3, <2>4, <2>5, <2>6, OwnMoves DEF Asking, Sending
  <1> QED BY <1>2, <1>3

\* A call that is taken for another has its key.
LEMMA ByFacts ==
    ASSUME ProxyInd, OwnInd, NEW c \in Conns, thread[c].pc \in {"complete", "mask"}
    PROVE  /\ Key(thread[c].by) = Key(thread[c].got)
           /\ Alone(thread[c].got) => thread[c].by = thread[c].got
  <1>1. Key(thread[c].by) = Key(thread[c].got)
    BY DEF OwnInd, AnswerOwn
  <1>2. thread[c].by \in DOMAIN reqs
    BY ThreadFields DEF ThreadOK, IsCall
  <1> QED BY <1>1, <1>2 DEF Alone

\* What is shown of a response masked by the patterns of the call it is taken
\* for.
LEMMA ShowsMasked ==
    ASSUME ProxyInd, OwnInd, NEW c \in Conns, thread[c].pc \in {"complete", "mask"},
           Show(c, reqs[thread[c].by].verdict = "redact")
    PROVE  ShowsOwn(c)
  <1>1. PICK b : b = (reqs[thread[c].by].verdict = "redact")
    OBVIOUS
  <1>2. shown' = [to |-> thread[c].agent, for |-> thread[c].req, origin |-> thread[c].got,
                  note |-> thread[c].note, masked |-> b]
    BY <1>1 DEF Show
  <1>3. /\ shown'.origin = thread[c].got /\ shown'.to = thread[c].agent
        /\ shown'.for = thread[c].req /\ shown'.masked = b
    BY <1>2
  <1>4. ASSUME reqs[thread[c].got].verdict = "redact", Alone(thread[c].got) PROVE shown'.masked
    <2>1. b = TRUE
      BY <1>1, <1>4, ByFacts
    <2> QED BY <1>3, <2>1
  <1> QED BY <1>3, <1>4 DEF ShowsOwn

LEMMA MaskOwn ==
    ASSUME ProxyInd, OwnInd, NEW c \in Conns, Mask(c)
    PROVE  OwnInd'
  <1>1. /\ thread[c].pc = "mask" /\ After(c)
        /\ UNCHANGED <<reqs, server, sessions, executions, replayable, pending, evicted,
                       inflight>>
        /\ shown' = shown \/ Show(c, reqs[thread[c].by].verdict = "redact")
    BY DEF Mask, configVars, upstreamVars
  <1>2. ShowsOwn(c)
    BY <1>1, ShowsMasked DEF ShowsOwn
  <1>3. RecordsOwn'
    BY <1>1 DEF OwnInd, RecordsOwn, Key, session_of
  <1> QED BY <1>1, <1>2, <1>3, AfterOwn

LEMMA CompleteOwn ==
    ASSUME ProxyInd, OwnInd, NEW c \in Conns, Complete(c)
    PROVE  OwnInd'
  <1>1. /\ thread[c].pc = "complete" /\ After(c)
        /\ UNCHANGED <<reqs, server, sessions, replayable, pending, evicted, inflight>>
        /\ shown' = shown \/ Show(c, reqs[thread[c].by].verdict = "redact")
        /\ executions' \subseteq executions \cup
              {[call |-> thread[c].by, output |-> thread[c].got, conn |-> c]}
    BY DEF Complete, configVars, upstreamVars
  <1>2. ShowsOwn(c)
    BY <1>1, ShowsMasked DEF ShowsOwn
  <1>3. \A x \in executions' : Key(x.call) = Key(x.output)
    <2>1. Key(thread[c].by) = Key(thread[c].got)
      BY <1>1, ByFacts
    <2> QED BY <1>1, <2>1 DEF OwnInd, RecordsOwn
  <1>4. RecordsOwn'
    BY <1>1, <1>3 DEF RecordsOwn, Key, session_of
  <1> QED BY <1>1, <1>2, <1>4, AfterOwn

LEMMA SightOwn ==
    ASSUME ProxyInd, OwnInd, NEW c \in Conns, Sight(c)
    PROVE  OwnInd'
  <1>1. PICK key, n : /\ key = <<session_of(thread[c].agent), reqs[thread[c].got].id>>
                      /\ n = thread[c].got
    OBVIOUS
  <1>2. /\ thread[c].pc = "sight"
        /\ UNCHANGED <<server, sessions, reqs, replayable, pending, executions, evicted>>
    BY <1>1, SightFacts
  <1>3. n \in DOMAIN reqs /\ key = Key(n) /\ Tracked(n) /\ ~thread[c].note
    <2>1. AnswerOwn(c) /\ Tracked(n)
      BY <1>1, <1>2 DEF OwnInd, TrackedOK
    <2>2. /\ n \in DOMAIN reqs /\ ~thread[c].note
          /\ thread[c].req # 0 => thread[c].agent = reqs[thread[c].req].agent
      BY <1>1, <1>2, ThreadFields DEF ThreadOK
    <2> QED BY <1>1, <1>2, <2>1, <2>2 DEF AnswerOwn, Key
  <1>4. RecordsOwn'
    BY <1>2 DEF OwnInd, RecordsOwn, Key, session_of
  <1>5. CASE key \notin DOMAIN inflight /\ Show(c, FALSE) /\ After(c) /\ UNCHANGED inflight
    <2>1. ShowsOwn(c)
      BY <1>1, <1>2, <1>3, <1>5 DEF Show, ShowsOwn, Tracked
    <2> QED BY <1>2, <1>4, <1>5, <2>1, AfterOwn
  <1>6. CASE /\ key \in DOMAIN inflight
             /\ inflight' = [inflight EXCEPT ![key].done = TRUE]
             /\ thread' = [thread EXCEPT ![c].by = inflight[key].call,
                             ![c].pc = IF inflight[key].done THEN "mask" ELSE "complete"]
             /\ UNCHANGED shown
    <2>1. PICK m : m = inflight[key].call
      OBVIOUS
    <2>2. IsCall(m) /\ key = Key(m) /\ DOMAIN inflight' = DOMAIN inflight
      BY <1>6, <2>1, MarkBook
    <2>3. AnswerOwn(c) /\ Key(m) = Key(n)
      BY <1>3, <2>2 DEF OwnInd
    <2>4. PICK pc : pc = IF inflight[key].done THEN "mask" ELSE "complete"
      OBVIOUS
    <2>5. /\ Moves(c)
          /\ thread'[c].pc = pc /\ thread'[c].by = m /\ thread'[c].req = thread[c].req
          /\ thread'[c].got = thread[c].got /\ thread'[c].agent = thread[c].agent
          /\ thread'[c].note = thread[c].note /\ pc \in {"mask", "complete"}
      <3>1. pc \in {"mask", "complete"}
        BY <2>4
      <3>2. thread' = [thread EXCEPT ![c].by = m, ![c].pc = pc]
        BY <1>6, <2>1, <2>4
      <3> QED BY <1>2, <2>2, <3>1, <3>2, MarkThread
    <2>6. Forgets(c) /\ ShowsOwn(c)
      BY <1>6, <2>2 DEF Forgets, ShowsOwn
    <2>7. AnswerOwn(c)'
      BY <1>1, <1>2, <1>3, <2>3, <2>5 DEF AnswerOwn, Key, session_of, Streamable
    <2>8. WaitersOK'
      BY <1>2, <2>5, NoWaiter, WaitersStep, TypeFacts
    <2>9. thread'[c].pc \notin Asking \cup Sending \cup {"sight", "stream"}
      BY <2>5 DEF Asking, Sending
    <2>10. ~thread'[c].note /\ thread'[c].got = thread[c].got
      BY <1>3, <2>5
    <2> QED BY <1>2, <1>4, <2>5, <2>6, <2>7, <2>8, <2>9, <2>10, OwnMoves
  <1> QED BY <1>1, <1>5, <1>6, SightFacts

\* No thread moves, and nothing is forgotten.
LEMMA OwnStill ==
    ASSUME ProxyInd, OwnInd,
           UNCHANGED <<reqs, server, sessions, thread, inflight, replayable, executions,
                       shown, evicted>>,
           pending' \subseteq pending
    PROVE  OwnInd'
  <1>1. \A n : Key(n)' = Key(n) /\ Alone(n)' = Alone(n) /\ Tracked(n)' = Tracked(n)
    BY DEF Key, session_of, Alone, Tracked
  <1>2. WaitersOK' /\ \A c \in Conns : AnswerOwn(c)'
    BY <1>1 DEF OwnInd, WaitersOK, AnswerOwn, Streamable
  <1>3. AskingOK' /\ RecordsOwn' /\ ShownOwn' /\ RedactedNeverShown'
    BY <1>1
       DEF OwnInd, AskingOK, Unanswered, RecordsOwn, ShownOwn, RedactedNeverShown, OnGet, Streamable
  <1>4. TrackedOK'
    BY <1>1 DEF OwnInd, TrackedOK
  <1> QED BY <1>2, <1>3, <1>4 DEF OwnInd

\* A response is handed to the waiter of its id: a thread that asked with the
\* same key.
LEMMA DeliverOwn ==
    ASSUME ProxyInd, OwnInd, NEW n \in DOMAIN reqs, NEW g, Deliver(n, g)
    PROVE  OwnInd'
  <1>1. /\ pending' = pending \ Waiters(g, reqs[n].id)
        /\ thread' = [c \in Conns |-> IF \E w \in Waiters(g, reqs[n].id) : w.conn = c
                                      THEN [thread[c] EXCEPT !.got = n] ELSE thread[c]]
        /\ UNCHANGED <<reqs, server, sessions, inflight, replayable, executions, shown,
                       evicted>>
    BY DEF Deliver, configVars, recordVars
  <1>2. ASSUME NEW w \in Waiters(g, reqs[n].id)
        PROVE  /\ w.conn \in Conns /\ thread[w.conn].pc \in {"send", "wait"}
               /\ thread[w.conn].req \in DOMAIN reqs /\ thread[w.conn].gen = g
               /\ Key(thread[w.conn].req) = Key(n) /\ Legacy
    <2>1. w \in pending /\ w.gen = g /\ w.id = reqs[n].id
      BY DEF Waiters
    <2>2. PICK c, m : c = w.conn /\ m = thread[c].req
      OBVIOUS
    <2>3. c \in Conns
      BY <2>1, <2>2, TypeFacts
    <2>4. /\ thread[c].pc \in {"send", "wait"} /\ thread[c].gen = g
          /\ reqs[m].id = reqs[n].id
      BY <2>1, <2>2, WaiterFacts
    <2>5. m \in DOMAIN reqs /\ Legacy
      BY <2>2, <2>3, <2>4, SendingFacts DEF Sending
    <2>6. Key(m) = Key(n)
      BY <2>4, <2>5 DEF ProxyInd, TypeOK, Key, session_of, Legacy
    <2> QED BY <2>2, <2>3, <2>4, <2>5, <2>6
  <1>3. CASE Waiters(g, reqs[n].id) = {}
    <2>1. thread' = [c \in Conns |-> thread[c]]
      BY <1>1, <1>3
    <2>2. thread' = thread
      BY <2>1 DEF ProxyInd, ThreadsOK
    <2> QED BY <1>1, <2>2, OwnStill
  <1>4. CASE Waiters(g, reqs[n].id) # {}
    <2>1. PICK c \in Conns : \E w \in Waiters(g, reqs[n].id) : w.conn = c
      BY <1>2, <1>4
    <2>2. /\ thread[c].pc \in {"send", "wait"} /\ thread[c].req \in DOMAIN reqs
          /\ thread[c].gen = g /\ Key(thread[c].req) = Key(n) /\ Legacy
          /\ thread[c].req # 0
      <3>1. /\ thread[c].pc \in {"send", "wait"} /\ thread[c].req \in DOMAIN reqs
            /\ thread[c].gen = g /\ Key(thread[c].req) = Key(n) /\ Legacy
        BY <1>2, <2>1
      <3> QED BY <3>1, AskingFacts DEF Asking
    <2>3. \A d \in Conns : (\E w \in Waiters(g, reqs[n].id) : w.conn = d) <=> d = c
      <3>1. \A v, w \in Waiters(g, reqs[n].id) : v = w
        BY DEF Waiters, OwnInd, WaitersOK
      <3> QED BY <2>1, <3>1
    <2>4. thread' = [d \in Conns |-> IF d = c THEN [thread[c] EXCEPT !.got = n] ELSE thread[d]]
      BY <1>1, <2>3
    <2>5. Moves(c) /\ thread'[c] = [thread[c] EXCEPT !.got = n]
      BY <2>4 DEF Moves
    <2>6. /\ thread'[c].pc = thread[c].pc /\ thread'[c].req = thread[c].req
          /\ thread'[c].agent = thread[c].agent /\ thread'[c].got = n
          /\ thread'[c].note = thread[c].note
      BY <2>5, ThreadFields
    <2>7. /\ ~thread[c].note /\ thread[c].pc \in Sending \cap Asking
          /\ Forgets(c) /\ ShowsOwn(c)
      BY <1>1, <2>2, SendingFacts DEF Sending, Asking, Forgets, ShowsOwn
    <2>8. AnswerOwn(c)'
      BY <1>1, <2>2, <2>6 DEF AnswerOwn, Key, session_of
    <2>9. WaitersOK'
      <3>1. ASSUME NEW w \in pending' PROVE w \in pending /\ w.conn # c
        <4>1. w \in pending /\ w \notin Waiters(g, reqs[n].id)
          BY <1>1
        <4>2. w.conn = c => w.gen = g /\ w.id = reqs[thread[c].req].id
          BY <2>2, <4>1, WaiterFacts
        <4>3. reqs[thread[c].req].id = reqs[n].id
          BY <2>2 DEF Key
        <4> QED BY <4>1, <4>2, <4>3 DEF Waiters
      <3> QED BY <1>1, <2>5, <3>1, WaitersStep, TypeFacts
    <2>10. RecordsOwn'
      BY <1>1 DEF OwnInd, RecordsOwn, Key, session_of
    <2>11. thread'[c].pc \notin {"sight", "stream"} /\ ~thread'[c].note
      BY <2>2, <2>6, <2>7
    <2>12. thread'[c].pc \in Sending =>
             /\ thread'[c].req = thread[c].req
             /\ thread[c].pc \in Sending \/ thread[c].note \/ Tracked(thread[c].req)'
      BY <2>6, <2>7
    <2>13. thread'[c].pc \in Asking =>
              thread[c].pc \in Asking /\ thread'[c].req = thread[c].req
      BY <2>6, <2>7
    <2>14. \/ thread[c].pc \in Sending /\ thread'[c].got = thread[c].req
           \/ ~Alone(thread'[c].got)
      BY <2>2, <2>6, <2>7 DEF Alone
    <2> QED BY <1>1, <2>5, <2>7, <2>8, <2>9, <2>10, <2>11, <2>12, <2>13, <2>14, OwnMoves
  <1> QED BY <1>3, <1>4

\* A thread that rests keeps its answer, whatever requests come or are decided.
LEMMA AnswerKept ==
    ASSUME ProxyInd, OwnInd, NEW d \in Conns, thread'[d] = thread[d],
           UNCHANGED <<server, sessions>>, DOMAIN reqs \subseteq DOMAIN reqs',
           \A m \in DOMAIN reqs : reqs'[m].agent = reqs[m].agent /\ reqs'[m].id = reqs[m].id
    PROVE  AnswerOwn(d)'
  <1>1. /\ AnswerOwn(d)
        /\ thread[d].req \in {0} \cup DOMAIN reqs /\ thread[d].got \in {0} \cup DOMAIN reqs
        /\ thread[d].pc \in {"send", "wait"} => thread[d].req \in DOMAIN reqs
        /\ thread[d].pc \in {"sight", "complete", "mask"} => thread[d].got \in DOMAIN reqs
        /\ thread[d].pc \in {"complete", "mask"} => thread[d].by \in DOMAIN reqs
    BY ThreadFields, AskingFacts DEF ThreadOK, IsCall, OwnInd, Asking
  <1>2. \A m \in DOMAIN reqs : Key(m)' = Key(m)
    BY DEF Key, session_of
  <1> QED BY <1>1, <1>2 DEF AnswerOwn, Streamable

LEMMA ShownKept ==
    ASSUME ProxyInd, OwnInd, UNCHANGED <<server, sessions, executions, shown>>,
           DOMAIN reqs \subseteq DOMAIN reqs',
           \A m \in DOMAIN reqs : reqs'[m].agent = reqs[m].agent /\ reqs'[m].id = reqs[m].id
    PROVE  RecordsOwn' /\ ShownOwn'
  <1>1. \A m \in DOMAIN reqs : Key(m)' = Key(m)
    BY DEF Key, session_of
  <1>2. \A x \in executions : x.call \in DOMAIN reqs /\ x.output \in DOMAIN reqs
    BY DEF ProxyInd, RecordsOK
  <1>3. shown.origin > 0 => shown.origin \in DOMAIN reqs
    BY DEF ProxyInd, RecordsOK
  <1> QED BY <1>1, <1>2, <1>3 DEF OwnInd, RecordsOwn, ShownOwn, OnGet, Streamable

LEMMA InterceptOwn ==
    ASSUME ProxyInd, OwnInd, NEW c \in Conns, Intercept(c)
    PROVE  OwnInd'
  <1>1. PICK n, v :
          /\ n = thread[c].req /\ v \in Verdicts
          /\ UNCHANGED <<cap, server, sessions, mode, running, inflight, order, link,
                         pending, work,
                         replayable, executions, shown, evicted>>
          /\ thread[c].pc = "intercept"
          /\ n \in DOMAIN reqs /\ reqs[n].kind = "call" /\ reqs[n].verdict = "none" /\ n # 0
          /\ thread[c].agent = reqs[n].agent /\ thread[c].got \in {0} \cup DOMAIN reqs
          /\ DOMAIN reqs' = DOMAIN reqs /\ \A m \in DOMAIN reqs \ {n} : reqs'[m] = reqs[m]
          /\ reqs'[n].agent = reqs[n].agent /\ reqs'[n].id = reqs[n].id
          /\ reqs'[n].kind = "call" /\ reqs'[n].verdict = v
          /\ reqs' \in Seq([agent : Agents, id : Ids, kind : {"call", "list"},
                            reads : {"sse", "json", "batch"},
                            verdict : {"none", "allow", "redact", "refuse"}])
          /\ ReqsKept(c) /\ Moves(c)
          /\ \/ thread'[c] = Idle
             \/ /\ v \in {"allow", "redact"}
                /\ thread'[c] = [pc |-> "insert", req |-> n, agent |-> thread[c].agent,
                         got |-> thread[c].got, note |-> FALSE, by |-> 0, gen |-> thread[c].gen]
    BY InterceptFacts
  <1>2. PICK q : q = thread'[c]
    OBVIOUS
  <1>3. /\ q.pc \in {"idle", "insert"} /\ (q.pc = "insert" => q.req = n)
        /\ q.got \in {0, thread[c].got} /\ q.note = FALSE
    BY <1>1, <1>2 DEF Idle
  <1>4. \A d \in Conns \ {c} : thread'[d] = thread[d]
    BY <1>1 DEF Moves
  <1>5. \A m \in DOMAIN reqs :
           /\ Key(m)' = Key(m) /\ reqs'[m].agent = reqs[m].agent /\ reqs'[m].id = reqs[m].id
           /\ Alone(m)' = Alone(m)
           /\ m # n => reqs'[m] = reqs[m] /\ Tracked(m)' = Tracked(m)
    BY <1>1 DEF Key, session_of, Alone, Tracked, ReqsKept
  <1>6. /\ n # 0 /\ thread[c].got = 0 /\ n \notin replayable
        /\ \A d \in Conns \ {c} : thread[d].req # n
        /\ Alone(n) => /\ shown.origin = n => OnGet
                       /\ \A d \in Conns \ {c} : thread[d].got # n
    <2>1. (\A d \in Conns \ {c} : thread[d].req # n)
      BY <1>1, AskingFacts DEF Asking
    <2> QED BY <1>1, <2>1 DEF OwnInd, AskingOK, Unanswered, AnswerOwn, Asking
  <1>7. \A m \in DOMAIN reqs : Tracked(m) /\ (m = n => ~Alone(n)) => Tracked(m)'
    BY <1>5 DEF Tracked
  <1>8. WaitersOK'
    <2> SUFFICES ASSUME NEW w \in pending
                 PROVE  /\ thread'[w.conn].pc \in {"send", "wait"} /\ thread'[w.conn].got = 0
                        /\ w.gen = thread'[w.conn].gen
                        /\ w.id = reqs'[thread'[w.conn].req].id
      BY <1>1 DEF OwnInd, WaitersOK
    <2>1. PICK d : d = w.conn
      OBVIOUS
    <2>2. /\ thread[d].pc \in {"send", "wait"} /\ thread[d].got = 0
          /\ w.gen = thread[d].gen /\ w.id = reqs[thread[d].req].id
      BY <2>1, WaiterFacts
    <2>3. d \in Conns \ {c}
      BY <1>1, <2>1, <2>2, TypeFacts
    <2>4. thread[d].req \in DOMAIN reqs /\ thread'[d] = thread[d]
      BY <1>4, <2>2, <2>3, AskingFacts DEF Asking
    <2> QED BY <1>5, <2>1, <2>2, <2>4
  <1>9. ASSUME NEW d \in Conns PROVE AnswerOwn(d)'
    <2>1. CASE d = c
      <3>1. thread'[d].pc \in {"idle", "insert"} /\ thread'[d].got = 0
        BY <1>2, <1>3, <1>6, <2>1
      <3> QED BY <3>1 DEF AnswerOwn
    <2>2. CASE d # c
      BY <1>1, <1>4, <2>2, AnswerKept
    <2> QED BY <2>1, <2>2
  <1>10. AskingOK'
    <2> SUFFICES ASSUME NEW d \in Conns, NEW m \in DOMAIN reqs', thread'[d].pc \in Asking,
                        thread'[d].req = m
                 PROVE  Unanswered(d, m)'
      BY DEF AskingOK
    <2>2. thread[d].pc \in Asking /\ m = thread[d].req
      BY <1>1, <1>2, <1>3, <1>4 DEF Asking
    <2>3. /\ m # 0 /\ m \in DOMAIN reqs /\ m \notin replayable
          /\ Alone(m) => /\ shown.origin = m => OnGet
                         /\ \A e \in Conns \ {d} : thread[e].got # m
      BY <2>2, AskingFacts DEF OwnInd, AskingOK, Unanswered
    <2>4. \A e \in Conns : thread'[e].got \in {0, thread[e].got}
      BY <1>2, <1>3, <1>4
    <2> QED BY <1>1, <1>5, <2>3, <2>4 DEF Unanswered, OnGet
  <1>11. TrackedOK'
    <2>1. \A m \in replayable : Tracked(m)'
      BY <1>5, <1>6, TypeFacts DEF OwnInd, TrackedOK
    <2>2. ASSUME NEW d \in Conns, thread'[d].pc \in Sending
          PROVE  Tracked(thread[d].req)'
      <3>1. d # c /\ thread'[d] = thread[d]
        BY <1>2, <1>3, <1>4, <2>2 DEF Sending
      <3>2. PICK m : m = thread[d].req
        OBVIOUS
      <3>3. m \in DOMAIN reqs /\ m # n /\ Tracked(m)
        BY <1>6, <2>2, <3>1, <3>2, SendingFacts DEF OwnInd, TrackedOK
      <3>4. Tracked(m)'
        BY <1>5, <3>3
      <3> QED BY <3>1, <3>2, <3>4
    <2>3. ASSUME NEW d \in Conns, thread'[d].pc = "sight"
          PROVE  Tracked(thread[d].got)'
      <3>1. d # c /\ thread'[d] = thread[d]
        BY <1>2, <1>3, <1>4, <2>3
      <3>2. PICK m : m = thread[d].got
        OBVIOUS
      <3>3. m \in DOMAIN reqs /\ (m = n => ~Alone(n)) /\ Tracked(m)
        BY <1>6, <2>3, <3>1, <3>2, ThreadFields DEF ThreadOK, OwnInd, TrackedOK
      <3>4. Tracked(m)'
        BY <1>7, <3>3
      <3> QED BY <3>1, <3>2, <3>4
    <2>4. \A d \in Conns : thread'[d].pc = "stream" \/ thread'[d].note =>
             thread'[d].req \in replayable
      BY <1>2, <1>3, <1>4 DEF OwnInd, TrackedOK
    <2> QED BY <1>1, <2>1, <2>2, <2>3, <2>4 DEF TrackedOK
  <1>12. RecordsOwn' /\ ShownOwn'
    BY <1>1, ShownKept
  <1>13. RedactedNeverShown'
    <2>1. shown.origin > 0 => shown.origin \in DOMAIN reqs
      BY DEF ProxyInd, RecordsOK
    <2>2. PICK m : m = shown.origin
      OBVIOUS
    <2>3. ASSUME m > 0, ~OnGet, reqs'[m].verdict = "redact", Alone(m)'
          PROVE  shown.masked \/ m \in evicted
      <3>1. m \in DOMAIN reqs /\ m # n
        BY <1>5, <1>6, <2>1, <2>2, <2>3
      <3>2. reqs[m].verdict = "redact" /\ Alone(m)
        BY <1>5, <2>3, <3>1
      <3> QED BY <2>2, <2>3, <3>2 DEF OwnInd, RedactedNeverShown
    <2> QED BY <1>1, <2>2, <2>3 DEF RedactedNeverShown, OnGet
  <1> QED BY <1>8, <1>9, <1>10, <1>11, <1>12, <1>13 DEF OwnInd

LEMMA AcceptOwn ==
    ASSUME ProxyInd, OwnInd, NEW c \in Conns, Accept(c)
    PROVE  OwnInd'
  <1>0. PICK n : n = Len(reqs) + 1
    OBVIOUS
  <1>1. /\ UNCHANGED <<server, sessions, inflight, pending, replayable, executions, shown,
                       evicted>>
        /\ thread[c].pc = "idle"
        /\ DOMAIN reqs' = DOMAIN reqs \cup {n} /\ n \notin DOMAIN reqs /\ n # 0
        /\ \A m \in DOMAIN reqs : reqs'[m] = reqs[m]
        /\ reqs'[n].verdict = "none"
        /\ \A m \in DOMAIN reqs : reqs[m].id = reqs'[n].id =>
              reqs[m].agent # reqs'[n].agent
        /\ Moves(c)
        /\ thread'[c] = [pc |-> IF reqs'[n].kind = "call" THEN "intercept" ELSE "post",
                         req |-> n, agent |-> reqs'[n].agent, got |-> 0, note |-> FALSE,
                         by |-> 0, gen |-> 0]
    BY <1>0, AcceptFacts
  <1>2. /\ thread'[c].pc \in {"intercept", "post"} /\ thread'[c].req = n
        /\ thread'[c].got = 0 /\ thread'[c].note = FALSE
    BY <1>1
  <1>3. \A d \in Conns \ {c} : thread'[d] = thread[d]
    BY <1>1 DEF Moves
  <1>4. \A m \in DOMAIN reqs :
           Key(m)' = Key(m) /\ (Alone(m)' => Alone(m)) /\ (Tracked(m) => Tracked(m)')
    <2>1. \A m \in DOMAIN reqs : Key(m)' = Key(m)
      BY <1>1 DEF Key, session_of
    <2>2. \A m \in DOMAIN reqs : Alone(m)' => Alone(m)
      BY <1>1, <2>1 DEF Alone
    <2> QED BY <1>1, <2>1, <2>2 DEF Tracked
  <1>5. ASSUME NEW d \in Conns
        PROVE  /\ thread[d].got \in {0} \cup DOMAIN reqs /\ thread[d].req \in {0} \cup DOMAIN reqs
               /\ thread[d].pc \in {"sight", "complete", "mask"} => thread[d].got \in DOMAIN reqs
    BY ThreadFields DEF ThreadOK
  <1>7. WaitersOK'
    <2> SUFFICES ASSUME NEW w \in pending
                 PROVE  /\ thread'[w.conn].pc \in {"send", "wait"} /\ thread'[w.conn].got = 0
                        /\ w.gen = thread'[w.conn].gen
                        /\ w.id = reqs'[thread'[w.conn].req].id
      BY <1>1 DEF OwnInd, WaitersOK
    <2>1. PICK d : d = w.conn
      OBVIOUS
    <2>2. /\ thread[d].pc \in {"send", "wait"} /\ thread[d].got = 0
          /\ w.gen = thread[d].gen /\ w.id = reqs[thread[d].req].id
      BY <2>1, WaiterFacts
    <2>3. d \in Conns \ {c}
      BY <1>1, <2>1, <2>2, TypeFacts
    <2>4. thread[d].req \in DOMAIN reqs /\ thread'[d] = thread[d]
      BY <1>3, <2>2, <2>3, AskingFacts DEF Asking
    <2> QED BY <1>1, <2>1, <2>2, <2>4
  <1>8. ASSUME NEW d \in Conns PROVE AnswerOwn(d)'
    <2>1. CASE d = c
      BY <1>2, <2>1 DEF AnswerOwn
    <2>2. CASE d # c
      BY <1>1, <1>3, <2>2, AnswerKept
    <2> QED BY <2>1, <2>2
  <1>9. AskingOK'
    <2> SUFFICES ASSUME NEW d \in Conns, NEW m \in DOMAIN reqs', thread'[d].pc \in Asking,
                        thread'[d].req = m
                 PROVE  Unanswered(d, m)'
      BY DEF AskingOK
    <2>2. CASE d = c
      <3>1. n \notin replayable /\ shown.origin # n
        BY <1>1 DEF ProxyInd, TypeOK, RecordsOK
      <3>2. \A e \in Conns \ {c} : thread'[e].got # n
        BY <1>1, <1>3, <1>5
      <3>3. m = n
        BY <1>2, <2>2
      <3> QED BY <1>1, <2>2, <3>1, <3>2, <3>3 DEF Unanswered
    <2>3. CASE d # c
      <3>1. thread[d].pc \in Asking /\ m = thread[d].req
        BY <1>3, <2>3
      <3>2. /\ m # 0 /\ m \in DOMAIN reqs /\ m \notin replayable
            /\ Alone(m) => /\ shown.origin = m => OnGet
                           /\ \A e \in Conns \ {d} : thread[e].got # m
        BY <3>1, AskingFacts DEF OwnInd, AskingOK, Unanswered
      <3>3. \A e \in Conns : thread'[e].got \in {0, thread[e].got}
        BY <1>2, <1>3
      <3> QED BY <1>1, <1>4, <3>2, <3>3 DEF Unanswered, OnGet
    <2> QED BY <2>2, <2>3
  <1>10. TrackedOK'
    <2>1. \A m \in replayable : Tracked(m)'
      BY <1>4, TypeFacts DEF OwnInd, TrackedOK
    <2>2. ASSUME NEW d \in Conns, thread'[d].pc \in Sending
          PROVE  Tracked(thread[d].req)'
      <3>1. PICK m : m = thread'[d].req
        OBVIOUS
      <3>2. CASE d = c
        <4>1. m = n
          BY <1>2, <3>1, <3>2
        <4>2. Tracked(n)'
          BY <1>1 DEF Tracked
        <4> QED BY <3>1, <4>1, <4>2
      <3>3. CASE d # c
        <4>1. thread[d].pc \in Sending /\ m = thread[d].req
          BY <1>3, <2>2, <3>1, <3>3
        <4>2. m \in DOMAIN reqs /\ Tracked(m)
          BY <4>1, SendingFacts DEF OwnInd, TrackedOK
        <4>3. Tracked(m)'
          BY <1>4, <4>2
        <4> QED BY <3>1, <4>3
      <3> QED BY <3>2, <3>3
    <2>3. ASSUME NEW d \in Conns, thread'[d].pc = "sight"
          PROVE  Tracked(thread[d].got)'
      <3>1. d # c /\ thread'[d] = thread[d]
        BY <1>2, <1>3, <2>3
      <3>2. PICK m : m = thread[d].got
        OBVIOUS
      <3>3. m \in DOMAIN reqs /\ Tracked(m)
        BY <1>5, <2>3, <3>1, <3>2 DEF OwnInd, TrackedOK
      <3>4. Tracked(m)'
        BY <1>4, <3>3
      <3> QED BY <3>1, <3>2, <3>4
    <2>4. \A d \in Conns : thread'[d].pc = "stream" \/ thread'[d].note =>
             thread'[d].req \in replayable
      BY <1>2, <1>3 DEF OwnInd, TrackedOK
    <2> QED BY <1>1, <2>1, <2>2, <2>3, <2>4 DEF TrackedOK
  <1>11. RecordsOwn' /\ ShownOwn'
    BY <1>1, ShownKept
  <1>12. RedactedNeverShown'
    <2>1. shown.origin > 0 => shown.origin \in DOMAIN reqs
      BY DEF ProxyInd, RecordsOK
    <2> QED BY <1>1, <1>4, <2>1 DEF OwnInd, RedactedNeverShown, OnGet
  <1> QED BY <1>7, <1>8, <1>9, <1>10, <1>11, <1>12 DEF OwnInd

LEMMA OwnStarts ==
    ASSUME Init
    PROVE  OwnInd
  <1>1. /\ \A c \in Conns : thread[c] = Idle
        /\ DOMAIN reqs = {} /\ pending = {} /\ replayable = {} /\ executions = {}
        /\ shown.origin = 0
    BY DEF Init, NothingShown
  <1>2. ASSUME NEW c \in Conns
        PROVE  /\ thread[c].pc = "idle" /\ thread[c].got = 0 /\ thread[c].note = FALSE
    BY <1>1 DEF Idle
  <1>3. \A c \in Conns : AnswerOwn(c)
    BY <1>2 DEF AnswerOwn
  <1>4. AskingOK /\ TrackedOK
    BY <1>1, <1>2 DEF AskingOK, TrackedOK, Asking, Sending
  <1> QED BY <1>1, <1>3, <1>4 DEF OwnInd, WaitersOK, RecordsOwn, ShownOwn,
        RedactedNeverShown

LEMMA OwnStep ==
    ASSUME ProxyInd, OwnInd, [Next]_vars
    PROVE  OwnInd'
  <1>1. CASE UNCHANGED vars
    BY <1>1, OwnStill DEF vars
  <1>2. ASSUME NEW c \in Conns,
               \/ Accept(c) \/ Intercept(c) \/ Insert(c) \/ StreamableFails(c)
               \/ StreamableFull(c) \/ StreamableStream(c) \/ StreamEvent(c) \/ StreamEnds(c)
               \/ OpenGet(c) \/ DeleteSession(c)
        PROVE  OwnInd'
    BY <1>2, AcceptOwn, InterceptOwn, InsertOwn, StreamableFailsOwn, StreamableFullOwn,
       StreamableStreamOwn, StreamEventOwn, StreamEndsOwn, OpenGetOwn, DeleteSessionOwn
  <1>3. ASSUME NEW c \in Conns,
               \/ Fallback(c) \/ Connect(c) \/ Register(c) \/ Send(c) \/ Receive(c)
               \/ Sight(c) \/ Complete(c) \/ Mask(c)
        PROVE  OwnInd'
    BY <1>3, FallbackOwn, ConnectOwn, RegisterOwn, SendOwn, ReceiveOwn, SightOwn, CompleteOwn,
       MaskOwn
  <1>4. ASSUME NEW n \in DOMAIN reqs, NEW g \in 1..MaxLinks, Deliver(n, g)
        PROVE  OwnInd'
    BY <1>4, DeliverOwn
  <1>5. ASSUME NEW g \in 1..MaxLinks, LinkDown(g)
        PROVE  OwnInd'
    BY <1>5, OwnStill DEF LinkDown, configVars, recordVars
  <1>6. CASE Stop
    BY <1>6, OwnStill DEF Stop, configVars, upstreamVars, recordVars
  <1> QED BY <1>1, <1>2, <1>3, <1>4, <1>5, <1>6 DEF Next

LEMMA OwnInduction == Spec => [](ProxyInd /\ OwnInd)
  <1>1. Init => ProxyInd /\ OwnInd
    BY ProxyStarts, OwnStarts
  <1>2. ProxyInd /\ OwnInd /\ [Next]_vars => (ProxyInd /\ OwnInd)'
    BY ProxyStep, OwnStep
  <1> QED BY <1>1, <1>2, PTL DEF Spec

(***************************************************************************)
(* Every forwarded call was decided and allowed, and every Execution       *)
(* record is the only one of its call and about that call's own output,    *)
(* unless another call has its session and id, whichever sessions and ids  *)
(* the agents use (gateway.rs, intercept, finish_response).                *)
(***************************************************************************)
THEOREM RecordsAttributed == Spec => []CallsOnRecord
  <1>1. ProxyInd /\ OwnInd => CallsOnRecord
    <2> SUFFICES ASSUME ProxyInd, OwnInd PROVE CallsOnRecord
      OBVIOUS
    <2>1. ExecutionAttributed
      BY DEF ProxyInd, RecordsOK, OwnInd, RecordsOwn, ExecutionAttributed, Alone
    <2> QED BY <2>1 DEF ProxyInd, CallsOnRecord
  <1> QED BY <1>1, OwnInduction, PTL

(***************************************************************************)
(* An agent is only shown the answer to its own request, also when the     *)
(* upstream replays it, with any number of connections and links and the   *)
(* threads in any order: over Streamable HTTP whatever sessions and ids    *)
(* the agents use, and over the one stream of a legacy upstream unless     *)
(* another request has the id (gateway.rs, and the pending map of          *)
(* upstream.rs).                                                           *)
(***************************************************************************)
THEOREM AnswersReachTheirAsker == Spec => []AnswersOwn
  <1>1. ProxyInd /\ OwnInd => AnswersOwn
    BY DEF OwnInd, ShownOwn, AnswersOwn, Alone
  <1> QED BY <1>1, OwnInduction, PTL

(***************************************************************************)
(* What a call under a redact verdict returns reaches an agent masked,     *)
(* unless another call has its session and id, or the book had to forget   *)
(* the call (gateway.rs, finish_response).                                 *)
(***************************************************************************)
THEOREM RedactedStaysRedacted == Spec => []RedactedNeverShown
  <1>1. OwnInd => RedactedNeverShown
    BY DEF OwnInd
  <1> QED BY <1>1, OwnInduction, PTL
==============================================================================
