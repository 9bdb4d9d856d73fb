--------------------------- MODULE ApprovalsProofs ---------------------------
(***************************************************************************)
(* Whoever asks, waits and is answered.  First, safety of the approval     *)
(* queue for any number of gateways and consoles, any timeouts and any     *)
(* length of time: nobody dispatches on an answer past its deadline, an    *)
(* answer in the file decides the wait, and a wait ends in time when the   *)
(* console is gone.  Then, safety of the SDK adapters for any number of    *)
(* callers, children, faults and restarts: nobody waits for a child that   *)
(* was given up, every call is on record, and the client keeps one child   *)
(* and its restart budget.                                                 *)
(***************************************************************************)
EXTENDS UiApprovals, SdkClient, SequenceTheorems, FiniteSetTheorems, TLAPS

GwShape(g) ==
    g = [pc |-> g.pc, format |-> g.format, begun |-> g.begun, wait |-> g.wait,
         created |-> g.created, start |-> g.start, last_beat |-> g.last_beat,
         polled |-> g.polled, checked |-> g.checked]

\* When ask a may be answered.
InWindow(a, t) == t \in gw[a].created..(gw[a].created + gw[a].wait)

\* Ask a has been put to the consoles, and its times do not change any more.
Asked(a) == gw[a].pc \in {"wait"} \cup Final

\* The request carries the deadline, an answer on file was checked against
\* it, and so was the one a gateway has dispatched on.
AskOK(a) ==
    /\ GwShape(gw[a])
    /\ gw[a].format \in {"writ", "claude-code"} /\ gw[a].wait \in Nat
    /\ gw[a].format = "claude-code" => gw[a].wait <= CLAUDE_CODE_CAP
    /\ request[a] # None =>
          gw[a].pc \in {"wait", "killed"} /\ request[a] = gw[a].created + gw[a].wait
    /\ decision[a] # None => Asked(a) /\ InWindow(a, decision[a].checked)
    /\ gw[a].pc = "approved" => InWindow(a, gw[a].checked)

AsksOK == gw = [a \in Asks |-> gw[a]] /\ \A a \in Asks : AskOK(a)

\* An answer that a console is about to write has passed its check.
HandlersOK ==
    \A c \in Consoles : handler[c] # None =>
        Asked(handler[c].ask) /\ InWindow(handler[c].ask, handler[c].checked)

\* A gateway that has been scheduled in time: it asks a console that was
\* alive, has looked at the heartbeat and at the deadline lately, and has
\* spent LockWait at most before the wait.
Timely(a) ==
    LET g == gw[a] IN
    /\ g.pc \in {"record", "check", "request"} => now <= g.begun + LockWait
    /\ g.pc = "request" => beat # None /\ now - beat <= HEARTBEAT_STALE
    /\ g.pc = "wait" =>
          /\ beat # None /\ g.last_beat - beat <= HEARTBEAT_STALE
          /\ now - g.last_beat <= HEARTBEAT_EVERY
          /\ g.polled = now => now - g.last_beat < HEARTBEAT_EVERY
          /\ g.start <= g.begun + LockWait
          /\ g.format = "claude-code" =>
                /\ now - g.start <= CLAUDE_CODE_CAP
                /\ g.polled = now => now - g.start < CLAUDE_CODE_CAP

PromptOK == prompt => \A a \in Asks : Timely(a)

\* The inductive invariant.
ApprovalsInd == TypeOK /\ AsksOK /\ HandlersOK /\ PromptOK
-----------------------------------------------------------------------------
\* The cap holds for claude-code.
LEMMA WaitFacts ==
    ASSUME NEW f \in Formats, NEW t \in Timeouts
    PROVE  /\ wait_ms(f, t) \in Nat
           /\ f = "claude-code" => wait_ms(f, t) <= CLAUDE_CODE_CAP
  BY ApprovalsAssumption DEF wait_ms, ApprovalsAssumption

\* What the types say of a gateway's times.
LEMMA TimeFacts ==
    ASSUME ApprovalsInd, NEW a \in Asks
    PROVE  /\ now \in Nat /\ gw[a].pc \in Steps /\ gw[a].wait \in Nat
           /\ gw[a].begun \in 0..now /\ gw[a].created \in 0..now
           /\ gw[a].start \in 0..now /\ gw[a].last_beat \in 0..now
           /\ gw[a].polled \in 0..now
           /\ beat # None => beat \in 0..now
           /\ LockWait \in Nat /\ HEARTBEAT_STALE \in Nat
           /\ HEARTBEAT_EVERY \in Nat /\ HEARTBEAT_EVERY > 0
           /\ CLAUDE_CODE_CAP \in Nat /\ CLAUDE_CODE_CAP > 0
  BY ApprovalsAssumption
  DEF ApprovalsInd, TypeOK, Times, AsksOK, AskOK, ApprovalsAssumption

\* A step of one gateway that leaves the others, the consoles, the clock and
\* the answers alone.
LEMMA GatewayMoves ==
    ASSUME ApprovalsInd, NEW a \in Asks,
           UNCHANGED <<now, decision, beat, up, handler, executed, prompt>>,
           gw' = [gw EXCEPT ![a] = gw'[a]],
           request' = [request EXCEPT ![a] = request'[a]],
           request'[a] \in Nat \cup {None},
           gw'[a].pc \in Steps,
           {gw'[a].begun, gw'[a].created, gw'[a].start, gw'[a].last_beat, gw'[a].polled}
              \subseteq Times,
           AskOK(a)',
           Asked(a) => /\ Asked(a)' /\ gw'[a].created = gw[a].created
                       /\ gw'[a].wait = gw[a].wait,
           prompt => Timely(a)'
    PROVE  ApprovalsInd'
  <1>0. /\ \A b \in Asks : b # a => gw'[b] = gw[b] /\ request'[b] = request[b]
        /\ gw' = [b \in Asks |-> gw'[b]]
        /\ request' \in [Asks -> Nat \cup {None}]
    BY DEF ApprovalsInd, AsksOK, TypeOK
  <1>1. TypeOK'
    BY <1>0 DEF ApprovalsInd, TypeOK, Times
  <1>2. AsksOK'
    <2>1. ASSUME NEW b \in Asks PROVE AskOK(b)'
      <3>1. CASE b = a
        BY <3>1
      <3>2. CASE b # a
        BY <1>0, <3>2 DEF ApprovalsInd, AsksOK, AskOK, Asked, InWindow
      <3> QED BY <3>1, <3>2
    <2> QED BY <1>0, <2>1 DEF AsksOK
  <1>3. HandlersOK'
    <2> SUFFICES ASSUME NEW c \in Consoles, handler'[c] # None
                 PROVE  Asked(handler[c].ask)' /\ InWindow(handler[c].ask, handler[c].checked)'
      BY DEF HandlersOK
    <2>1. PICK b, t : b = handler[c].ask /\ t = handler[c].checked
                      /\ b = handler'[c].ask /\ t = handler'[c].checked
      OBVIOUS
    <2>2. b \in Asks /\ Asked(b) /\ InWindow(b, t)
      BY <2>1 DEF ApprovalsInd, HandlersOK, TypeOK
    <2>3. Asked(b)' /\ InWindow(b, t)'
      BY <1>0, <2>2 DEF Asked, InWindow
    <2> QED BY <2>1, <2>3 DEF Asked, InWindow
  <1>4. PromptOK'
    <2> SUFFICES ASSUME prompt, NEW b \in Asks PROVE Timely(b)'
      BY DEF PromptOK
    <2>1. CASE b = a
      BY <2>1
    <2>2. CASE b # a
      BY <1>0, <2>2 DEF ApprovalsInd, PromptOK, Timely
    <2> QED BY <2>1, <2>2
  <1> QED BY <1>1, <1>2, <1>3, <1>4 DEF ApprovalsInd

\* A gateway begins.
LEMMA BeginKeeps ==
    ASSUME ApprovalsInd, NEW a \in Asks, Begin(a)
    PROVE  ApprovalsInd'
  <1>1. PICK f \in Formats, t \in Timeouts :
          gw' = [gw EXCEPT ![a].pc = "record", ![a].format = f, ![a].begun = now,
                           ![a].wait = wait_ms(f, t)]
    BY DEF Begin
  <1>2. /\ UNCHANGED <<now, request, decision, beat, up, handler, executed, prompt>>
        /\ gw[a].pc = "idle"
    BY DEF Begin
  <1>3. PICK w : w = wait_ms(f, t)
    OBVIOUS
  <1>4. w \in Nat /\ (f = "claude-code" => w <= CLAUDE_CODE_CAP)
    BY <1>3, WaitFacts
  <1>5. /\ gw' = [gw EXCEPT ![a] = gw'[a]] /\ GwShape(gw'[a])
        /\ gw'[a].pc = "record" /\ gw'[a].format = f /\ gw'[a].begun = now
        /\ gw'[a].wait = w /\ gw'[a].created = gw[a].created
        /\ gw'[a].start = gw[a].start /\ gw'[a].last_beat = gw[a].last_beat
        /\ gw'[a].polled = gw[a].polled
    <2>1. PICK g : g = gw[a] /\ GwShape(g)
      BY DEF ApprovalsInd, AsksOK, AskOK
    <2>2. gw' = [gw EXCEPT ![a] = [g EXCEPT !.pc = "record", !.format = f, !.begun = now,
                                            !.wait = w]]
      BY <1>1, <1>3, <2>1 DEF ApprovalsInd, AsksOK
    <2>3. /\ gw' = [gw EXCEPT ![a] = gw'[a]]
          /\ gw'[a] = [g EXCEPT !.pc = "record", !.format = f, !.begun = now, !.wait = w]
      BY <2>2 DEF ApprovalsInd, AsksOK
    <2> QED BY <2>1, <2>3 DEF GwShape
  <1>6. request[a] = None /\ decision[a] = None /\ ~Asked(a)
    BY <1>2 DEF ApprovalsInd, AsksOK, AskOK, Asked, Final
  <1>7. AskOK(a)'
    BY <1>2, <1>4, <1>5, <1>6, ApprovalsAssumption DEF AskOK, ApprovalsAssumption
  <1>8. Timely(a)'
    BY <1>2, <1>5, TimeFacts DEF Timely
  <1>9. {gw'[a].begun, gw'[a].created, gw'[a].start, gw'[a].last_beat, gw'[a].polled}
           \subseteq Times
    BY <1>5, TimeFacts DEF Times
  <1> QED BY <1>2, <1>5, <1>6, <1>7, <1>8, <1>9, GatewayMoves
          DEF Steps, ApprovalsInd, TypeOK

\* A step that only moves the gateway on, or ends it before it has asked.
LEMMA PcMoves ==
    ASSUME ApprovalsInd, NEW a \in Asks, NEW w \in Steps,
           UNCHANGED <<now, request, decision, beat, up, handler, executed, prompt>>,
           gw' = [gw EXCEPT ![a].pc = w],
           \/ gw[a].pc = "record" /\ w \in {"check", "denied"}
           \/ gw[a].pc \in {"check", "request"} /\ w = "denied"
           \/ gw[a].pc \in {"record", "check", "request", "wait"} /\ w = "killed"
    PROVE  ApprovalsInd'
  <1>1. /\ gw' = [gw EXCEPT ![a] = gw'[a]] /\ GwShape(gw'[a]) /\ gw'[a].pc = w
        /\ gw'[a].format = gw[a].format /\ gw'[a].begun = gw[a].begun
        /\ gw'[a].wait = gw[a].wait /\ gw'[a].created = gw[a].created
        /\ gw'[a].start = gw[a].start /\ gw'[a].last_beat = gw[a].last_beat
        /\ gw'[a].polled = gw[a].polled
    BY DEF ApprovalsInd, AsksOK, AskOK, GwShape
  <1>2. AskOK(a)'
    BY <1>1 DEF ApprovalsInd, AsksOK, AskOK, Asked, InWindow, Final
  <1>3. prompt => Timely(a)'
    BY <1>1 DEF ApprovalsInd, PromptOK, Timely
  <1>4. {gw'[a].begun, gw'[a].created, gw'[a].start, gw'[a].last_beat, gw'[a].polled}
           \subseteq Times
    BY <1>1, TimeFacts DEF Times
  <1>5. Asked(a) => Asked(a)'
    BY <1>1 DEF Asked, Final
  <1> QED BY <1>1, <1>2, <1>3, <1>4, <1>5, GatewayMoves DEF ApprovalsInd, TypeOK

\* The gateway finds a console alive, or gives up.
LEMMA CheckKeeps ==
    ASSUME ApprovalsInd, NEW a \in Asks, CheckConsole(a)
    PROVE  ApprovalsInd'
  <1>1. /\ UNCHANGED <<now, request, decision, beat, up, handler, executed, prompt>>
        /\ gw[a].pc = "check"
    BY DEF CheckConsole
  <1>2. CASE gw' = [gw EXCEPT ![a].pc = "denied"]
    BY <1>1, <1>2, PcMoves DEF Steps, Final
  <1>3. CASE heartbeat_fresh /\ gw' = [gw EXCEPT ![a].pc = "request", ![a].created = now]
    <2>1. PICK g : g = gw[a] /\ GwShape(g)
      BY DEF ApprovalsInd, AsksOK, AskOK
    <2>2. /\ gw' = [gw EXCEPT ![a] = gw'[a]]
          /\ gw'[a] = [g EXCEPT !.pc = "request", !.created = now]
      BY <1>3, <2>1 DEF ApprovalsInd, AsksOK
    <2>3. /\ GwShape(gw'[a]) /\ gw'[a].pc = "request" /\ gw'[a].created = now
          /\ gw'[a].format = g.format /\ gw'[a].begun = g.begun
          /\ gw'[a].wait = g.wait /\ gw'[a].start = g.start
          /\ gw'[a].last_beat = g.last_beat /\ gw'[a].polled = g.polled
      BY <2>1, <2>2 DEF GwShape
    <2>4. request[a] = None /\ decision[a] = None /\ ~Asked(a)
      BY <1>1 DEF ApprovalsInd, AsksOK, AskOK, Asked, Final
    <2>5. AskOK(a)'
      BY <1>1, <2>1, <2>3, <2>4 DEF ApprovalsInd, AsksOK, AskOK
    <2>6. prompt => Timely(a)'
      BY <1>1, <1>3, <2>1, <2>3, TimeFacts
      DEF ApprovalsInd, PromptOK, Timely, heartbeat_fresh
    <2>7. {gw'[a].begun, gw'[a].created, gw'[a].start, gw'[a].last_beat, gw'[a].polled}
             \subseteq Times
      BY <2>1, <2>3, TimeFacts DEF Times
    <2> QED BY <1>1, <2>2, <2>3, <2>4, <2>5, <2>6, <2>7, GatewayMoves
            DEF Steps, ApprovalsInd, TypeOK
  <1> QED BY <1>2, <1>3 DEF CheckConsole

\* The request goes into pending/, or the gateway gives up.
LEMMA WriteRequestKeeps ==
    ASSUME ApprovalsInd, NEW a \in Asks, WriteRequest(a)
    PROVE  ApprovalsInd'
  <1>1. /\ UNCHANGED <<now, decision, beat, up, handler, executed, prompt>>
        /\ gw[a].pc = "request"
    BY DEF WriteRequest
  <1>2. CASE gw' = [gw EXCEPT ![a].pc = "denied"] /\ UNCHANGED request
    BY <1>1, <1>2, PcMoves DEF Steps, Final
  <1>3. CASE /\ request' = [request EXCEPT ![a] = gw[a].created + gw[a].wait]
             /\ gw' = [gw EXCEPT ![a].pc = "wait", ![a].start = now, ![a].last_beat = now]
    <2>1. PICK g : g = gw[a] /\ GwShape(g)
      BY DEF ApprovalsInd, AsksOK, AskOK
    <2>2. /\ gw' = [gw EXCEPT ![a] = gw'[a]]
          /\ gw'[a] = [g EXCEPT !.pc = "wait", !.start = now, !.last_beat = now]
      BY <1>3, <2>1 DEF ApprovalsInd, AsksOK
    <2>3. /\ GwShape(gw'[a]) /\ gw'[a].pc = "wait" /\ gw'[a].created = g.created
          /\ gw'[a].format = g.format /\ gw'[a].begun = g.begun
          /\ gw'[a].wait = g.wait /\ gw'[a].start = now
          /\ gw'[a].last_beat = now /\ gw'[a].polled = g.polled
      BY <2>1, <2>2 DEF GwShape
    <2>4. decision[a] = None /\ ~Asked(a)
      BY <1>1 DEF ApprovalsInd, AsksOK, AskOK, Asked, Final
    <2>5. /\ request' = [request EXCEPT ![a] = request'[a]]
          /\ request'[a] = g.created + g.wait /\ request'[a] \in Nat
      BY <1>3, <2>1, TimeFacts DEF ApprovalsInd, TypeOK
    <2>6. AskOK(a)'
      BY <1>1, <2>1, <2>3, <2>4, <2>5 DEF ApprovalsInd, AsksOK, AskOK
    <2>7. prompt => Timely(a)'
      BY <1>1, <2>1, <2>3, TimeFacts DEF ApprovalsInd, PromptOK, Timely
    <2>8. {gw'[a].begun, gw'[a].created, gw'[a].start, gw'[a].last_beat, gw'[a].polled}
             \subseteq Times
      BY <2>1, <2>3, TimeFacts DEF Times
    <2> QED BY <1>1, <2>2, <2>3, <2>4, <2>5, <2>6, <2>7, <2>8, GatewayMoves DEF Steps
  <1> QED BY <1>2, <1>3 DEF WriteRequest

\* The wait is over: with the answer on file, or without one.
LEMMA EndKeeps ==
    ASSUME ApprovalsInd, NEW a \in Asks, NEW d, d \in {None, decision[a]}, End(a, d),
           gw[a].pc = "wait",
           UNCHANGED <<now, decision, beat, up, handler, executed, prompt>>
    PROVE  ApprovalsInd'
  <1>1. PICK w, k : /\ w = IF d # None /\ d.approve THEN "approved" ELSE "denied"
                    /\ k = IF d # None THEN d.checked ELSE None
    OBVIOUS
  <1>2. PICK g : g = gw[a] /\ GwShape(g)
    BY DEF ApprovalsInd, AsksOK, AskOK
  <1>3. w \in {"approved", "denied"} /\ (w = "approved" => InWindow(a, k))
    BY <1>1 DEF ApprovalsInd, AsksOK, AskOK
  <1>4. /\ gw' = [gw EXCEPT ![a] = gw'[a]]
        /\ gw'[a] = [g EXCEPT !.pc = w, !.checked = k]
    BY <1>1, <1>2 DEF End, ApprovalsInd, AsksOK
  <1>5. /\ GwShape(gw'[a]) /\ gw'[a].pc = w /\ gw'[a].created = g.created
        /\ gw'[a].format = g.format /\ gw'[a].begun = g.begun
        /\ gw'[a].wait = g.wait /\ gw'[a].start = g.start /\ gw'[a].checked = k
        /\ gw'[a].last_beat = g.last_beat /\ gw'[a].polled = g.polled
    BY <1>2, <1>4 DEF GwShape
  <1>6. request' = [request EXCEPT ![a] = request'[a]] /\ request'[a] = None
    BY DEF End, ApprovalsInd, TypeOK
  <1>7. AskOK(a)' /\ Asked(a)'
    BY <1>2, <1>3, <1>5, <1>6 DEF ApprovalsInd, AsksOK, AskOK, Asked, InWindow, Final
  <1>8. Timely(a)'
    BY <1>3, <1>5 DEF Timely
  <1>9. {gw'[a].begun, gw'[a].created, gw'[a].start, gw'[a].last_beat, gw'[a].polled}
           \subseteq Times
    BY <1>2, <1>5, TimeFacts DEF Times
  <1> QED BY <1>2, <1>3, <1>4, <1>5, <1>6, <1>7, <1>8, <1>9, GatewayMoves
          DEF Steps, Final

\* One turn of the loop.
LEMMA PollKeeps ==
    ASSUME ApprovalsInd, NEW a \in Asks, Poll(a)
    PROVE  ApprovalsInd'
  <1>1. /\ UNCHANGED <<now, decision, beat, up, handler, executed, prompt>>
        /\ gw[a].pc = "wait"
    BY DEF Poll
  <1>2. CASE End(a, decision[a]) \/ End(a, None)
    <2>1. PICK d : d \in {None, decision[a]} /\ End(a, d)
      BY <1>2 DEF End
    <2> QED BY <1>1, <2>1, EndKeeps
  <1>3. CASE /\ ~(now - gw[a].start >= gw[a].wait)
             /\ now - gw[a].last_beat >= HEARTBEAT_EVERY => heartbeat_fresh
             /\ gw' = [gw EXCEPT ![a].polled = now,
                                 ![a].last_beat = IF now - gw[a].last_beat >= HEARTBEAT_EVERY
                                                  THEN now ELSE @]
             /\ UNCHANGED request
    <2>1. PICK g : g = gw[a] /\ GwShape(g)
      BY DEF ApprovalsInd, AsksOK, AskOK
    <2>2. PICK l : l = IF now - g.last_beat >= HEARTBEAT_EVERY THEN now ELSE g.last_beat
      OBVIOUS
    <2>3. /\ gw' = [gw EXCEPT ![a] = gw'[a]]
          /\ gw'[a] = [g EXCEPT !.polled = now, !.last_beat = l]
      BY <1>3, <2>1, <2>2 DEF ApprovalsInd, AsksOK, GwShape
    <2>4. /\ GwShape(gw'[a]) /\ gw'[a].pc = "wait" /\ gw'[a].created = g.created
          /\ gw'[a].format = g.format /\ gw'[a].begun = g.begun
          /\ gw'[a].wait = g.wait /\ gw'[a].start = g.start
          /\ gw'[a].last_beat = l /\ gw'[a].polled = now
      BY <1>1, <2>1, <2>3 DEF GwShape
    <2>5. AskOK(a)' /\ Asked(a)'
      BY <1>1, <1>3, <2>1, <2>4 DEF ApprovalsInd, AsksOK, AskOK, Asked, InWindow, Final
    <2>6. l \in 0..now /\ now \in Nat
      BY <2>1, <2>2, TimeFacts
    <2>7. {gw'[a].begun, gw'[a].created, gw'[a].start, gw'[a].last_beat, gw'[a].polled}
             \subseteq Times
      BY <2>1, <2>4, <2>6, TimeFacts DEF Times
    <2>8. ASSUME prompt PROVE Timely(a)'
      <3>1. /\ beat # None /\ g.last_beat - beat <= HEARTBEAT_STALE
            /\ g.start <= g.begun + LockWait
        BY <1>1, <2>1, <2>8 DEF ApprovalsInd, PromptOK, Timely
      <3>2. l - beat <= HEARTBEAT_STALE /\ now - l < HEARTBEAT_EVERY
        BY <1>3, <2>1, <2>2, <3>1, TimeFacts DEF heartbeat_fresh
      <3>3. g.format = "claude-code" => now - g.start < CLAUDE_CODE_CAP
        BY <1>3, <2>1, TimeFacts DEF ApprovalsInd, AsksOK, AskOK
      <3> QED BY <1>1, <2>1, <2>4, <2>6, <3>1, <3>2, <3>3, TimeFacts DEF Timely
    <2> QED BY <1>1, <1>3, <2>1, <2>3, <2>4, <2>5, <2>7, <2>8, GatewayMoves
            DEF Steps, ApprovalsInd, TypeOK
  <1> QED BY <1>2, <1>3 DEF Poll
-----------------------------------------------------------------------------
\* A console checks an answer against the request's deadline.
LEMMA ValidateKeeps ==
    ASSUME ApprovalsInd, NEW c \in Consoles, NEW a \in Asks, NEW ok \in BOOLEAN,
           Validate(c, a, ok)
    PROVE  ApprovalsInd'
  <1>1. /\ UNCHANGED <<now, gw, request, decision, beat, up, executed, prompt>>
        /\ request[a] # None /\ now <= request[a]
        /\ handler' = [handler EXCEPT ![c] = [ask |-> a, approve |-> ok, checked |-> now]]
    BY DEF Validate
  <1>2. Asked(a) /\ InWindow(a, now)
    BY <1>1, TimeFacts DEF ApprovalsInd, AsksOK, AskOK, Asked, InWindow, Final
  <1>3. TypeOK'
    <2>1. now \in Times /\ now \in Nat
      BY TimeFacts DEF Times
    <2>2. handler' \in [Consoles -> [ask : Asks, approve : BOOLEAN, checked : Times] \cup {None}]
      BY <1>1, <2>1 DEF ApprovalsInd, TypeOK
    <2> QED BY <1>1, <2>2 DEF ApprovalsInd, TypeOK, Times
  <1>4. AsksOK'
    BY <1>1 DEF ApprovalsInd, AsksOK, AskOK, Asked, InWindow
  <1>5. HandlersOK'
    BY <1>1, <1>2 DEF ApprovalsInd, HandlersOK, TypeOK, Asked, InWindow
  <1>6. PromptOK'
    BY <1>1 DEF ApprovalsInd, PromptOK, Timely
  <1> QED BY <1>3, <1>4, <1>5, <1>6 DEF ApprovalsInd

\* A console writes the answer it has checked.
LEMMA WriteDecisionKeeps ==
    ASSUME ApprovalsInd, NEW c \in Consoles, WriteDecision(c)
    PROVE  ApprovalsInd'
  <1>1. /\ UNCHANGED <<now, gw, request, beat, up, executed, prompt>>
        /\ handler[c] # None /\ handler' = [handler EXCEPT ![c] = None]
    BY DEF WriteDecision
  <1>2. PICK h : h = handler[c] /\ h \in [ask : Asks, approve : BOOLEAN, checked : Times]
    BY <1>1 DEF ApprovalsInd, TypeOK
  <1>3. PICK d : d = [approve |-> h.approve, checked |-> h.checked]
    OBVIOUS
  <1>4. /\ d \in [approve : BOOLEAN, checked : Times] /\ h.ask \in Asks
        /\ Asked(h.ask) /\ InWindow(h.ask, d.checked)
    BY <1>1, <1>2, <1>3 DEF ApprovalsInd, HandlersOK
  <1>5. decision' = [decision EXCEPT ![h.ask] = d] \/ UNCHANGED decision
    BY <1>2, <1>3 DEF WriteDecision
  <1>6. TypeOK'
    <2>1. decision' \in [Asks -> [approve : BOOLEAN, checked : Times] \cup {None}]
      BY <1>4, <1>5 DEF ApprovalsInd, TypeOK
    <2>2. handler' \in [Consoles -> [ask : Asks, approve : BOOLEAN, checked : Times] \cup {None}]
      BY <1>1 DEF ApprovalsInd, TypeOK
    <2> QED BY <1>1, <2>1, <2>2 DEF ApprovalsInd, TypeOK, Times
  <1>7. AsksOK'
    BY <1>1, <1>4, <1>5 DEF ApprovalsInd, AsksOK, AskOK, Asked, InWindow, TypeOK
  <1>8. HandlersOK'
    BY <1>1 DEF ApprovalsInd, HandlersOK, TypeOK, Asked, InWindow
  <1>9. PromptOK'
    BY <1>1 DEF ApprovalsInd, PromptOK, Timely
  <1> QED BY <1>6, <1>7, <1>8, <1>9 DEF ApprovalsInd

\* Consoles start and stop, beat, and calls are executed.
LEMMA ConsoleKeeps ==
    ASSUME ApprovalsInd, UNCHANGED <<now, gw, request, decision, prompt>>,
           up' \subseteq Consoles, executed' \subseteq Asks,
           beat' = beat \/ beat' = now,
           \/ UNCHANGED handler
           \/ \E c \in Consoles : handler' = [handler EXCEPT ![c] = None]
    PROVE  ApprovalsInd'
  <1>1. handler' \in [Consoles -> [ask : Asks, approve : BOOLEAN, checked : Times] \cup {None}]
        /\ \A c \in Consoles : handler'[c] \in {None, handler[c]}
    BY DEF ApprovalsInd, TypeOK
  <1>2. TypeOK'
    <2>1. beat' \in Times \cup {None}
      BY DEF ApprovalsInd, TypeOK, Times
    <2> QED BY <1>1, <2>1 DEF ApprovalsInd, TypeOK, Times
  <1>3. AsksOK'
    BY DEF ApprovalsInd, AsksOK, AskOK, Asked, InWindow
  <1>4. HandlersOK'
    BY <1>1 DEF ApprovalsInd, HandlersOK, Asked, InWindow
  <1>5. PromptOK'
    <2> SUFFICES ASSUME prompt, NEW a \in Asks PROVE Timely(a)'
      BY DEF PromptOK
    <2>1. Timely(a)
      BY DEF ApprovalsInd, PromptOK
    <2>2. beat' = now => now # None
      BY TimeFacts, ApprovalsAssumption DEF ApprovalsAssumption
    <2>3. gw[a].pc \in {"request", "wait"} =>
             /\ beat' # None /\ beat # None /\ beat' >= beat
             /\ beat' \in Int /\ beat \in Int
      BY <2>1, <2>2, TimeFacts DEF Timely
    <2> QED BY <2>1, <2>3, TimeFacts DEF Timely
  <1> QED BY <1>2, <1>3, <1>4, <1>5 DEF ApprovalsInd

\* Time passes; a gateway that was not scheduled is no longer prompt.
LEMMA TickKeeps ==
    ASSUME ApprovalsInd, Tick
    PROVE  ApprovalsInd'
  <1>1. /\ UNCHANGED <<gw, request, decision, beat, up, handler, executed>>
        /\ now < MaxTime /\ now' = now + 1
        /\ prompt' = (prompt /\ \A a \in Asks : InTime(a))
    BY DEF Tick
  <1>2. now \in Nat /\ now' \in 0..MaxTime /\ Times \subseteq Times'
    BY <1>1, ApprovalsAssumption DEF ApprovalsInd, TypeOK, Times, ApprovalsAssumption
  <1>3. TypeOK'
    <2>1. \A a \in Asks :
             {gw[a].begun, gw[a].created, gw[a].start, gw[a].last_beat, gw[a].polled}
                \subseteq Times'
      BY <1>2 DEF ApprovalsInd, TypeOK
    <2>2. decision \in [Asks -> [approve : BOOLEAN, checked : Times'] \cup {None}]
      BY <1>2 DEF ApprovalsInd, TypeOK
    <2>3. handler \in [Consoles -> [ask : Asks, approve : BOOLEAN, checked : Times'] \cup {None}]
      BY <1>2 DEF ApprovalsInd, TypeOK
    <2>4. prompt' \in BOOLEAN
      BY <1>1
    <2> QED BY <1>1, <1>2, <2>1, <2>2, <2>3, <2>4 DEF ApprovalsInd, TypeOK
  <1>4. AsksOK'
    BY <1>1 DEF ApprovalsInd, AsksOK, AskOK, Asked, InWindow
  <1>5. HandlersOK'
    BY <1>1 DEF ApprovalsInd, HandlersOK, Asked, InWindow
  <1>6. PromptOK'
    <2> SUFFICES ASSUME prompt', NEW a \in Asks PROVE Timely(a)'
      BY DEF PromptOK
    <2>1. prompt /\ InTime(a)
      BY <1>1
    <2>2. Timely(a)
      BY <2>1 DEF ApprovalsInd, PromptOK
    <2> QED BY <1>1, <2>1, <2>2, TimeFacts DEF Timely, InTime
  <1> QED BY <1>3, <1>4, <1>5, <1>6 DEF ApprovalsInd

LEMMA ApprovalsInit == Init => ApprovalsInd
  <1> SUFFICES ASSUME Init PROVE ApprovalsInd
    OBVIOUS
  <1>1. TypeOK
    BY ApprovalsAssumption DEF Init, TypeOK, Times, Steps, ApprovalsAssumption
  <1>2. AsksOK
    BY ApprovalsAssumption DEF Init, AsksOK, AskOK, GwShape, ApprovalsAssumption
  <1>3. HandlersOK
    BY DEF Init, HandlersOK
  <1>4. PromptOK
    BY DEF Init, PromptOK, Timely
  <1> QED BY <1>1, <1>2, <1>3, <1>4 DEF ApprovalsInd

LEMMA ApprovalsStep == ApprovalsInd /\ [Next]_vars => ApprovalsInd'
  <1> SUFFICES ASSUME ApprovalsInd, [Next]_vars PROVE ApprovalsInd'
    OBVIOUS
  <1>0. up \subseteq Consoles /\ executed \subseteq Asks
    BY DEF ApprovalsInd, TypeOK
  <1>1. ASSUME NEW a \in Asks, RecordAsk(a) \/ Kill(a) PROVE ApprovalsInd'
    <2>1. PICK w \in Steps :
             /\ gw' = [gw EXCEPT ![a].pc = w]
             /\ \/ gw[a].pc = "record" /\ w \in {"check", "denied"}
                \/ gw[a].pc \in {"record", "check", "request", "wait"} /\ w = "killed"
      BY <1>1 DEF RecordAsk, Kill, Steps, Final
    <2> QED BY <1>1, <2>1, PcMoves DEF RecordAsk, Kill
  <1>2. ASSUME NEW a \in Asks, Execute(a) PROVE ApprovalsInd'
    BY <1>0, <1>2, ConsoleKeeps DEF Execute
  <1>3. ASSUME NEW c \in Consoles, StartConsole(c) \/ StopConsole(c) \/ Heartbeat(c)
        PROVE  ApprovalsInd'
    BY <1>0, <1>3, ConsoleKeeps DEF StartConsole, StopConsole, Heartbeat
  <1>4. CASE UNCHANGED vars
    BY <1>0, <1>4, ConsoleKeeps DEF vars
  <1> QED BY <1>1, <1>2, <1>3, <1>4, BeginKeeps, CheckKeeps, WriteRequestKeeps, PollKeeps,
             ValidateKeeps, WriteDecisionKeeps, TickKeeps
          DEF Next

\* The clock, the files and the gateways' times are of their types.
THEOREM ApprovalsTypeCorrect == Spec => []TypeOK
  <1>1. ApprovalsInd => TypeOK
    BY DEF ApprovalsInd
  <1> QED BY ApprovalsInit, ApprovalsStep, <1>1, PTL DEF Spec

\* However the writes of several consoles and the polls of the gateways
\* interleave: await_decision returns an approval only if it was checked
\* between the request and its deadline.
THEOREM ApprovalsInTime == Spec => []ApprovedInTime
  <1>1. ApprovalsInd => ApprovedInTime
    BY DEF ApprovalsInd, AsksOK, AskOK, InWindow, ApprovedInTime
  <1> QED BY ApprovalsInit, ApprovalsStep, <1>1, PTL DEF Spec

\* A gateway that is scheduled denies within HEARTBEAT_STALE and
\* HEARTBEAT_EVERY of the console's last heartbeat.
THEOREM ConsoleLossDenies == Spec => []VanishedConsoleDenied
  <1>1. ASSUME ApprovalsInd PROVE VanishedConsoleDenied
    <2> SUFFICES ASSUME NEW a \in Asks, prompt, gw[a].pc = "wait"
                 PROVE  beat # None /\ now - beat <= HEARTBEAT_STALE + HEARTBEAT_EVERY
      BY DEF VanishedConsoleDenied
    <2>1. Timely(a)
      BY <1>1 DEF ApprovalsInd, PromptOK
    <2> QED BY <1>1, <2>1, TimeFacts DEF Timely
  <1> QED BY ApprovalsInit, ApprovalsStep, <1>1, PTL DEF Spec

\* A hook of Claude Code keeps nobody waiting for longer than the ledger's
\* lock and the cap on the wait take, whatever the consoles do: wait_ms caps
\* the rule's timeout, and the loop looks at its deadline every time.
THEOREM HookAnswersInTime == Spec => []AnswersWithinCap
  <1>1. ASSUME ApprovalsInd PROVE AnswersWithinCap
    <2> SUFFICES ASSUME NEW a \in Asks, prompt, gw[a].format = "claude-code",
                        gw[a].pc \in {"record", "check", "request", "wait"}
                 PROVE  now <= gw[a].begun + LockWait + CLAUDE_CODE_CAP
      BY DEF AnswersWithinCap
    <2>1. Timely(a)
      BY <1>1 DEF ApprovalsInd, PromptOK
    <2> QED BY <1>1, <2>1, TimeFacts DEF Timely
  <1> QED BY ApprovalsInit, ApprovalsStep, <1>1, PTL DEF Spec

\* await_inner reads the decision first: an answer on file decides the wait,
\* whatever the deadline and the heartbeat say by then.
THEOREM AnswersDecide == Spec => AnswerDecidesWait
  <1>1. ASSUME ApprovalsInd, [Next]_vars, NEW a \in Asks,
               gw[a].pc = "wait", gw'[a].pc # "wait", decision[a] # None
        PROVE  gw'[a].pc \in {IF decision[a].approve THEN "approved" ELSE "denied", "killed"}
    <2>1. gw' # gw
      BY <1>1
    <2>2. PICK b \in Asks : Begin(b) \/ RecordAsk(b) \/ CheckConsole(b) \/ WriteRequest(b)
                            \/ Poll(b) \/ Kill(b)
      BY <1>1, <2>1 DEF Next, vars, Execute, StartConsole, StopConsole, Heartbeat,
                        WriteDecision, Validate, Tick
    <2>3. \A e \in Asks : e # b => gw'[e] = gw[e]
      <3>1. CASE Begin(b)
        BY <1>1, <3>1 DEF Begin, ApprovalsInd, AsksOK
      <3>2. CASE RecordAsk(b) \/ Kill(b)
        BY <1>1, <3>2 DEF RecordAsk, Kill, ApprovalsInd, AsksOK
      <3>3. CASE CheckConsole(b)
        BY <1>1, <3>3 DEF CheckConsole, ApprovalsInd, AsksOK
      <3>4. CASE WriteRequest(b)
        BY <1>1, <3>4 DEF WriteRequest, ApprovalsInd, AsksOK
      <3>5. CASE Poll(b)
        BY <1>1, <3>5 DEF Poll, End, ApprovalsInd, AsksOK
      <3> QED BY <2>2, <3>1, <3>2, <3>3, <3>4, <3>5
    <2>4. Poll(a) \/ Kill(a)
      <3>1. b = a
        BY <1>1, <2>3
      <3> QED BY <1>1, <2>2, <3>1 DEF Begin, RecordAsk, CheckConsole, WriteRequest
    <2>5. CASE Kill(a)
      BY <1>1, <2>5 DEF Kill, ApprovalsInd, AsksOK, AskOK, GwShape
    <2>6. CASE Poll(a)
      <3>1. End(a, decision[a])
        BY <1>1, <2>6 DEF Poll
      <3>2. PICK w, k : /\ gw' = [gw EXCEPT ![a].pc = w, ![a].checked = k]
                        /\ w = IF decision[a].approve THEN "approved" ELSE "denied"
        BY <1>1, <3>1 DEF End
      <3>3. gw'[a].pc = w
        <4>1. PICK g : g = gw[a] /\ GwShape(g)
          BY <1>1 DEF ApprovalsInd, AsksOK, AskOK
        <4>2. gw'[a] = [g EXCEPT !.pc = w, !.checked = k]
          BY <1>1, <3>2, <4>1 DEF ApprovalsInd, AsksOK
        <4> QED BY <4>1, <4>2 DEF GwShape
      <3> QED BY <3>2, <3>3
    <2> QED BY <2>4, <2>5, <2>6
  <1>2. ApprovalsInd /\ [Next]_vars =>
           [\A a \in Asks :
              gw[a].pc = "wait" /\ gw'[a].pc # "wait" /\ decision[a] # None
                 => gw'[a].pc \in {IF decision[a].approve THEN "approved" ELSE "denied",
                                   "killed"}]_vars
    BY <1>1
  <1> QED BY ApprovalsInit, ApprovalsStep, <1>2, PTL DEF Spec, AnswerDecidesWait
-----------------------------------------------------------------------------
(***************************************************************************)
(* The SDK adapters                                                        *)
(***************************************************************************)

Ops == {"decide", "resolve", "complete"}
Requesting == {"ensure", "register", "write", "wait"}

LineType == [caller : SdkCallers, op : Ops, sent : BOOLEAN]
AnswerType ==
    [caller : SdkCallers, op : Ops,
     kind : {"error", "allow", "redact", "deny", "ask", "masked", "recorded"}]
BadAnswer == [caller |-> "none", op |-> "none", kind |-> "bad"]

GatewayType ==
    [up : BOOLEAN, doomed : BOOLEAN, eof : BOOLEAN, dead : BOOLEAN,
     pending : Seq(SdkCallers), inbox : Seq(LineType),
     outbox : Seq(AnswerType \cup {BadAnswer})]

CallerType ==
    [pc : Requesting \cup {"ask", "run", "after", "done"}, op : Ops, gw : Nat,
     fut : {Silence, Failure} \cup AnswerType, decision : SdkVerdicts \cup {"none"},
     sent : BOOLEAN, said : {"nothing", "yes", "no", "late"},
     ran : {"no", "returned", "raised"}, overridden : BOOLEAN, evicted : BOOLEAN,
     shown : {"none", "refusal", "raised", "raw", "masked", "withheld"}]

\* What is in a sequence is there once.
Once(s) == \A i, j \in DOMAIN s : s[i] = s[j] => i = j

Waiting(q) == q.pc \in {"write", "wait"} /\ q.fut = Silence

\* The callers and the tables of the children agree: who waits is in the
\* table of a child that was not given up, and who is in a table waits for
\* it, or was cancelled.
TablesOK(callers, gs) ==
    /\ callers \in [SdkCallers -> CallerType] /\ gs \in Seq(GatewayType)
    /\ \A g \in DOMAIN gs :
          /\ Once(gs[g].pending)
          /\ gs[g].dead = TRUE => gs[g].pending = <<>>
          /\ \A c \in Range(gs[g].pending) :
                callers[c].pc = "done" \/ (callers[c].gw = g /\ Waiting(callers[c]))
    /\ \A c \in SdkCallers :
          /\ callers[c].pc \in {"register", "write"} => callers[c].gw \in DOMAIN gs
          /\ Waiting(callers[c]) =>
                /\ callers[c].gw \in DOMAIN gs /\ gs[callers[c].gw].dead = FALSE
                /\ c \in Range(gs[callers[c].gw].pending)

\* Before a program starts nothing happens.
Idle ==
    program = NoProgram =>
       gateways = <<>> /\ \A c \in SdkCallers : sdk[c] = NewCall

ClientInd ==
    /\ program \in SdkPrograms \cup {NoProgram} /\ Idle
    /\ TablesOK(sdk, gateways) /\ current \in 0..Len(gateways)
    /\ closing \in {"no", "waiting", "closed"}
    /\ closing = "waiting" => gateways # <<>>
    /\ TypeScript => \A g \in DOMAIN gateways : gateways[g].dead = FALSE <=> g = current
-----------------------------------------------------------------------------
LEMMA FutFacts ==
    /\ Silence # Failure /\ Silence.kind = "waiting" /\ Failure.kind = "error"
    /\ \A a \in AnswerType : a # Silence /\ a.kind # "waiting" /\ a.kind # "bad"
    /\ BadAnswer.kind = "bad"
  BY DEF Silence, Failure, AnswerType, BadAnswer

\* The element that is removed from a sequence is the only one that goes.
LEMMA RemovedFacts ==
    ASSUME NEW S, NEW s \in Seq(S), Once(s), NEW e
    PROVE  /\ RemoveFirst(s, e) \in Seq(S) /\ Once(RemoveFirst(s, e))
           /\ Range(RemoveFirst(s, e)) = Range(s) \ {e}
  <1>1. CASE ~\E i \in 1..Len(s) : s[i] = e
    BY <1>1 DEF RemoveFirst, Range
  <1>2. CASE \E i \in 1..Len(s) : s[i] = e
    <2>1. PICK k \in 1..Len(s) : s[k] = e
      BY <1>2
    <2>2. {i \in 1..Len(s) : s[i] = e} = {k}
      BY <2>1 DEF Once
    <2>3. SelectInSeq(s, LAMBDA v : v = e) = k
      <3>1. Min({k}) = k
        BY DEF Min
      <3> QED BY <2>2, <3>1 DEF SelectInSeq
    <2> DEFINE t == SubSeq(s, 1, k - 1) \o SubSeq(s, k + 1, Len(s))
    <2>4. RemoveFirst(s, e) = t
      BY <1>2, <2>3 DEF RemoveFirst, RemoveAt
    <2> DEFINE a == SubSeq(s, 1, k - 1)
               b == SubSeq(s, k + 1, Len(s))
    <2>5. /\ t \in Seq(S) /\ Len(t) = Len(s) - 1
          /\ \A j \in 1..(Len(s) - 1) : t[j] = IF j < k THEN s[j] ELSE s[j + 1]
      <3>1. a \in Seq(S) /\ Len(a) = k - 1 /\ \A j \in 1..(k - 1) : a[j] = s[j]
        OBVIOUS
      <3>2. b \in Seq(S) /\ Len(b) = Len(s) - k /\ \A j \in 1..(Len(s) - k) : b[j] = s[k + j]
        OBVIOUS
      <3> HIDE DEF a, b
      <3>3. t = a \o b
        BY DEF a, b
      <3>4. /\ t \in Seq(S) /\ Len(t) = Len(s) - 1
            /\ \A j \in 1..(Len(s) - 1) :
                  t[j] = IF j <= k - 1 THEN a[j] ELSE b[j - (k - 1)]
        <4>1. Len(a) = k - 1 /\ Len(a) + Len(b) = Len(s) - 1
          BY <3>1, <3>2
        <4> HIDE DEF t
        <4>2. /\ a \o b \in Seq(S) /\ Len(a \o b) = Len(a) + Len(b)
              /\ \A j \in 1..(Len(a) + Len(b)) :
                    (a \o b)[j] = IF j <= Len(a) THEN a[j] ELSE b[j - Len(a)]
          BY <3>1, <3>2, ConcatProperties
        <4> QED BY <3>3, <4>1, <4>2
      <3> HIDE DEF t
      <3>5. ASSUME NEW j \in 1..(Len(s) - 1)
            PROVE  t[j] = IF j < k THEN s[j] ELSE s[j + 1]
        <4>1. CASE j < k
          <5>1. j <= k - 1 /\ j \in 1..(k - 1)
            BY <4>1
          <5> QED BY <3>1, <3>4, <4>1, <5>1
        <4>2. CASE j >= k
          <5>1. j - (k - 1) \in 1..(Len(s) - k) /\ k + (j - (k - 1)) = j + 1
                /\ ~(j <= k - 1) /\ ~(j < k)
            BY <4>2
          <5>2. t[j] = b[j - (k - 1)]
            BY <3>4, <5>1
          <5>3. b[j - (k - 1)] = s[k + (j - (k - 1))]
            BY <3>2, <5>1
          <5> QED BY <5>1, <5>2, <5>3
        <4> QED BY <4>1, <4>2
      <3> QED BY <3>4, <3>5
    <2> HIDE DEF t, a, b
    <2>6. Once(t)
      <3> SUFFICES ASSUME NEW i \in DOMAIN t, NEW j \in DOMAIN t, t[i] = t[j] PROVE i = j
        BY DEF Once
      <3>1. i \in 1..(Len(s) - 1) /\ j \in 1..(Len(s) - 1)
        BY <2>5
      <3>2. PICK x \in DOMAIN s, y \in DOMAIN s :
               /\ x = (IF i < k THEN i ELSE i + 1) /\ t[i] = s[x]
               /\ y = (IF j < k THEN j ELSE j + 1) /\ t[j] = s[y]
        BY <2>5, <3>1
      <3>3. x = y
        BY <3>2 DEF Once
      <3> QED BY <3>1, <3>2, <3>3
    <2>7. Range(t) = Range(s) \ {e}
      <3>1. \A j \in DOMAIN t : t[j] \in Range(s) \ {e}
        BY <2>1, <2>5 DEF Once, Range
      <3>2. ASSUME NEW j \in DOMAIN s, s[j] # e PROVE s[j] \in Range(t)
        <4>1. CASE j < k
          BY <2>1, <2>5, <4>1 DEF Range
        <4>2. CASE j > k
          <5>1. j - 1 \in DOMAIN t /\ t[j - 1] = s[j]
            BY <2>1, <2>5, <4>2
          <5> QED BY <5>1 DEF Range
        <4> QED BY <2>1, <3>2, <4>1, <4>2
      <3> QED BY <3>1, <3>2 DEF Range
    <2> QED BY <2>4, <2>5, <2>6, <2>7
  <1> QED BY <1>1, <1>2
-----------------------------------------------------------------------------
\* gs2 is gs but for child g.
ChildOnly(gs, gs2, g) ==
    /\ gs2 \in Seq(GatewayType) /\ Len(gs2) = Len(gs)
    /\ \A h \in DOMAIN gs : h # g => gs2[h] = gs[h]

\* callers2 is callers but for c.
CallerOnly(callers, callers2, c) ==
    /\ callers2 \in [SdkCallers -> CallerType]
    /\ \A d \in SdkCallers : d # c => callers2[d] = callers[d]

InNoTable(gs, c) == \A g \in DOMAIN gs : c \notin Range(gs[g].pending)

\* Neither waits for an answer nor is about to send.
Settled(q) == ~Waiting(q) /\ q.pc \notin {"register", "write"}

\* Its future is set to an error.
Errs(q) == [q EXCEPT !.fut = Failure]

LEMMA SeqDomain ==
    ASSUME NEW S, NEW s \in Seq(S)
    PROVE  Len(s) \in Nat /\ DOMAIN s = 1..Len(s) /\ \A i \in DOMAIN s : s[i] \in S
  OBVIOUS

LEMMA ChildOnlyFacts ==
    ASSUME NEW gs \in Seq(GatewayType), NEW g \in DOMAIN gs, NEW gs2, ChildOnly(gs, gs2, g)
    PROVE  /\ gs2 \in Seq(GatewayType) /\ DOMAIN gs2 = DOMAIN gs
           /\ \A h \in DOMAIN gs : h # g => gs2[h] = gs[h]
  BY SeqDomain DEF ChildOnly

LEMMA ChildFacts ==
    ASSUME NEW gs \in Seq(GatewayType), NEW g \in DOMAIN gs
    PROVE  /\ gs[g] \in GatewayType /\ gs[g].pending \in Seq(SdkCallers)
           /\ \A c \in Range(gs[g].pending) : c \in SdkCallers
  <1>1. gs[g] \in GatewayType
    BY SeqDomain
  <1>2. gs[g].pending \in Seq(SdkCallers)
    BY <1>1 DEF GatewayType
  <1> QED BY <1>1, <1>2, SeqDomain DEF Range

LEMMA EmptyRange == Range(<<>>) = {} /\ Once(<<>>)
  BY DEF Range, Once

\* Who waits for child g has got an error, and nobody else has changed but
\* for one who has nothing to do with the other children.
AllFailed(base, callers, gs, g) ==
    \A d \in SdkCallers :
       \/ d \in Range(gs[g].pending) /\ callers[d] = Errs(base[d])
       \/ d \notin Range(gs[g].pending) /\ callers[d] = base[d]
       \/ /\ Settled(callers[d])
          /\ \A h \in DOMAIN gs : h # g => d \notin Range(gs[h].pending)

\* Child g is given up and whoever waits for it gets an error.
LEMMA Failing ==
    ASSUME NEW base, NEW gs, TablesOK(base, gs), NEW g \in DOMAIN gs,
           NEW gs2, ChildOnly(gs, gs2, g), gs2[g].dead = TRUE, gs2[g].pending = <<>>,
           NEW callers \in [SdkCallers -> CallerType],
           AllFailed(base, callers, gs, g)
    PROVE  TablesOK(callers, gs2)
  <1>1. base \in [SdkCallers -> CallerType] /\ gs \in Seq(GatewayType)
    BY DEF TablesOK
  <1>2. /\ gs2 \in Seq(GatewayType) /\ DOMAIN gs2 = DOMAIN gs
        /\ \A h \in DOMAIN gs : h # g => gs2[h] = gs[h]
    BY <1>1, ChildOnlyFacts
  <1>3. ASSUME NEW h \in DOMAIN gs
        PROVE  /\ Once(gs2[h].pending)
               /\ gs2[h].dead = TRUE => gs2[h].pending = <<>>
               /\ \A c \in Range(gs2[h].pending) :
                     callers[c].pc = "done" \/ (callers[c].gw = h /\ Waiting(callers[c]))
    <2>1. CASE h = g
      BY <2>1, EmptyRange
    <2>2. CASE h # g
      <3>1. gs2[h] = gs[h]
        BY <1>2, <2>2
      <3>2. ASSUME NEW c \in Range(gs[h].pending)
            PROVE  callers[c].pc = "done" \/ (callers[c].gw = h /\ Waiting(callers[c]))
        <4>1. gs[h] \in GatewayType /\ gs[h].pending \in Seq(SdkCallers) /\ c \in SdkCallers
          BY <1>1, ChildFacts
        <4>2. base[c].pc = "done" \/ (base[c].gw = h /\ Waiting(base[c]))
          BY DEF TablesOK
        <4>3. CASE c \in Range(gs[g].pending) /\ callers[c] = Errs(base[c])
          <5>1. base[c].pc = "done" \/ base[c].gw = g
            BY <4>3 DEF TablesOK
          <5>2. base[c] \in CallerType
            BY <1>1, <4>1
          <5> QED BY <2>2, <4>2, <4>3, <5>1, <5>2 DEF CallerType, Errs
        <4> QED BY <2>2, <4>1, <4>2, <4>3 DEF AllFailed
      <3> QED BY <3>1, <3>2 DEF TablesOK
    <2> QED BY <2>1, <2>2
  <1>4. ASSUME NEW c \in SdkCallers
        PROVE  /\ callers[c].pc \in {"register", "write"} => callers[c].gw \in DOMAIN gs
               /\ Waiting(callers[c]) =>
                     /\ callers[c].gw \in DOMAIN gs /\ gs2[callers[c].gw].dead = FALSE
                     /\ c \in Range(gs2[callers[c].gw].pending)
    <2>1. CASE c \in Range(gs[g].pending) /\ callers[c] = Errs(base[c])
      <3>1. base[c] \in CallerType
        BY <1>1
      <3>2. callers[c].pc = base[c].pc /\ callers[c].gw = base[c].gw /\ callers[c].fut = Failure
        BY <2>1, <3>1 DEF CallerType, Errs
      <3> QED BY <3>2, FutFacts DEF TablesOK, Waiting
    <2>2. CASE c \notin Range(gs[g].pending) /\ callers[c] = base[c]
      <3>1. Waiting(base[c]) => base[c].gw # g
        BY <2>2 DEF TablesOK
      <3> QED BY <1>2, <2>2, <3>1 DEF TablesOK
    <2>3. CASE Settled(callers[c])
      BY <2>3 DEF Settled
    <2> QED BY <2>1, <2>2, <2>3 DEF AllFailed
  <1> QED BY <1>2, <1>3, <1>4 DEF TablesOK

\* The caller, who is in no table, goes another step without waiting.
LEMMA Setting ==
    ASSUME NEW callers, NEW gs, TablesOK(callers, gs), NEW c \in SdkCallers,
           NEW callers2, CallerOnly(callers, callers2, c), ~Waiting(callers2[c]),
           callers2[c].pc \in {"register", "write"} => callers2[c].gw \in DOMAIN gs,
           InNoTable(gs, c) \/ callers2[c].pc = "done"
    PROVE  TablesOK(callers2, gs)
  <1>1. ASSUME NEW g \in DOMAIN gs, NEW d \in Range(gs[g].pending)
        PROVE  callers2[d].pc = "done" \/ (callers2[d].gw = g /\ Waiting(callers2[d]))
    <2>1. gs[g].pending \in Seq(SdkCallers) /\ d \in SdkCallers
      BY ChildFacts DEF TablesOK
    <2> QED BY <2>1 DEF TablesOK, CallerOnly, InNoTable
  <1>2. ASSUME NEW d \in SdkCallers
        PROVE  /\ callers2[d].pc \in {"register", "write"} => callers2[d].gw \in DOMAIN gs
               /\ Waiting(callers2[d]) =>
                     /\ callers2[d].gw \in DOMAIN gs /\ gs[callers2[d].gw].dead = FALSE
                     /\ d \in Range(gs[callers2[d].gw].pending)
    BY DEF TablesOK, CallerOnly
  <1> QED BY <1>1, <1>2 DEF TablesOK, CallerOnly

\* Another child is started.
LEMMA Adding ==
    ASSUME NEW callers, NEW gs, TablesOK(callers, gs)
    PROVE  /\ TablesOK(callers, Append(gs, NewGateway))
           /\ NewGateway \in GatewayType
           /\ Len(Append(gs, NewGateway)) = Len(gs) + 1
           /\ DOMAIN Append(gs, NewGateway) = 1..(Len(gs) + 1)
           /\ \A g \in DOMAIN gs : g # Len(gs) + 1 /\ Append(gs, NewGateway)[g] = gs[g]
           /\ Append(gs, NewGateway)[Len(gs) + 1] = NewGateway
  <1>1. NewGateway \in GatewayType
    BY DEF NewGateway, GatewayType
  <1>2. gs \in Seq(GatewayType) /\ DOMAIN gs = 1..Len(gs) /\ Len(gs) \in Nat
    BY SeqDomain DEF TablesOK
  <1>3. /\ Append(gs, NewGateway) \in Seq(GatewayType)
        /\ Len(Append(gs, NewGateway)) = Len(gs) + 1
        /\ DOMAIN Append(gs, NewGateway) = 1..(Len(gs) + 1)
        /\ \A g \in DOMAIN gs : g # Len(gs) + 1 /\ Append(gs, NewGateway)[g] = gs[g]
        /\ Append(gs, NewGateway)[Len(gs) + 1] = NewGateway
    BY <1>1, <1>2
  <1> DEFINE gs2 == Append(gs, NewGateway)
  <1> HIDE DEF gs2
  <1>4. NewGateway.pending = <<>> /\ NewGateway.dead = FALSE
    BY DEF NewGateway
  <1>5. ASSUME NEW g \in DOMAIN gs2
        PROVE  /\ Once(gs2[g].pending)
               /\ gs2[g].dead = TRUE => gs2[g].pending = <<>>
               /\ \A c \in Range(gs2[g].pending) :
                     callers[c].pc = "done" \/ (callers[c].gw = g /\ Waiting(callers[c]))
    <2>1. CASE g \in DOMAIN gs
      BY <1>3, <2>1 DEF TablesOK, gs2
    <2>2. CASE g = Len(gs) + 1
      <3>1. gs2[g].pending = <<>> /\ gs2[g].dead = FALSE
        BY <1>3, <1>4, <2>2 DEF gs2
      <3> QED BY <3>1, EmptyRange
    <2>3. g \in DOMAIN gs \/ g = Len(gs) + 1
      BY <1>2, <1>3 DEF gs2
    <2> QED BY <2>1, <2>2, <2>3
  <1>6. \A g \in DOMAIN gs : g \in DOMAIN gs2 /\ gs2[g] = gs[g]
    BY <1>2, <1>3 DEF gs2
  <1>7. TablesOK(callers, gs2)
    BY <1>3, <1>5, <1>6 DEF TablesOK, gs2
  <1> QED BY <1>1, <1>3, <1>7 DEF gs2

\* A caller puts itself in the table of child g.
LEMMA Entering ==
    ASSUME NEW callers, NEW gs, TablesOK(callers, gs), NEW c \in SdkCallers, InNoTable(gs, c),
           NEW g \in DOMAIN gs, gs[g].dead = FALSE,
           NEW gs2, ChildOnly(gs, gs2, g), gs2[g].dead = FALSE,
           gs2[g].pending = Append(gs[g].pending, c),
           NEW callers2, CallerOnly(callers, callers2, c),
           Waiting(callers2[c]), callers2[c].gw = g
    PROVE  TablesOK(callers2, gs2)
  <1>1. /\ gs \in Seq(GatewayType) /\ gs2 \in Seq(GatewayType) /\ DOMAIN gs2 = DOMAIN gs
        /\ \A h \in DOMAIN gs : h # g => gs2[h] = gs[h]
    BY ChildOnlyFacts DEF TablesOK
  <1>2. gs[g].pending \in Seq(SdkCallers)
    BY <1>1, ChildFacts
  <1>3. /\ Once(gs2[g].pending) /\ Range(gs2[g].pending) = Range(gs[g].pending) \cup {c}
    <2>1. Once(gs[g].pending) /\ c \notin Range(gs[g].pending)
      BY DEF TablesOK, InNoTable
    <2> DEFINE s == gs[g].pending
               t == gs2[g].pending
    <2>2. /\ Len(s) \in Nat /\ DOMAIN s = 1..Len(s) /\ DOMAIN t = 1..(Len(s) + 1)
          /\ t[Len(s) + 1] = c /\ \A i \in DOMAIN s : t[i] = s[i]
      BY <1>2
    <2> HIDE DEF s, t
    <2>3. Once(t)
      BY <2>1, <2>2 DEF Once, Range, s
    <2>4. Range(t) = Range(s) \cup {c}
      BY <2>2 DEF Range
    <2> QED BY <2>3, <2>4 DEF s, t
  <1>4. ASSUME NEW h \in DOMAIN gs, NEW d \in Range(gs2[h].pending)
        PROVE  callers2[d].pc = "done" \/ (callers2[d].gw = h /\ Waiting(callers2[d]))
    <2>1. CASE d = c
      <3>1. h = g
        BY <1>1, <2>1 DEF InNoTable
      <3> QED BY <2>1, <3>1
    <2>2. CASE d # c
      <3>1. d \in Range(gs[h].pending)
        BY <1>1, <1>3, <2>2
      <3>2. d \in SdkCallers
        BY <1>1, <3>1, ChildFacts
      <3>3. callers2[d] = callers[d]
        BY <2>2, <3>2 DEF CallerOnly
      <3> QED BY <3>1, <3>3 DEF TablesOK
    <2> QED BY <2>1, <2>2
  <1>5. ASSUME NEW h \in DOMAIN gs
        PROVE  /\ Once(gs2[h].pending)
               /\ gs2[h].dead = TRUE => gs2[h].pending = <<>>
    BY <1>1, <1>3 DEF TablesOK
  <1>6. ASSUME NEW d \in SdkCallers
        PROVE  /\ callers2[d].pc \in {"register", "write"} => callers2[d].gw \in DOMAIN gs2
               /\ Waiting(callers2[d]) =>
                     /\ callers2[d].gw \in DOMAIN gs2 /\ gs2[callers2[d].gw].dead = FALSE
                     /\ d \in Range(gs2[callers2[d].gw].pending)
    <2>1. CASE d = c
      BY <1>1, <1>3, <2>1
    <2>2. CASE d # c
      <3>1. callers2[d] = callers[d]
        BY <2>2 DEF CallerOnly
      <3>2. callers[d].pc \in {"register", "write"} => callers[d].gw \in DOMAIN gs
        BY DEF TablesOK
      <3>3. ASSUME Waiting(callers[d])
            PROVE  /\ callers[d].gw \in DOMAIN gs2 /\ gs2[callers[d].gw].dead = FALSE
                   /\ d \in Range(gs2[callers[d].gw].pending)
        <4>1. /\ callers[d].gw \in DOMAIN gs /\ gs[callers[d].gw].dead = FALSE
              /\ d \in Range(gs[callers[d].gw].pending)
          BY <3>3 DEF TablesOK
        <4> QED BY <1>1, <1>3, <4>1
      <3> QED BY <1>1, <3>1, <3>2, <3>3
    <2> QED BY <2>1, <2>2
  <1> QED BY <1>1, <1>4, <1>5, <1>6 DEF TablesOK, CallerOnly

\* Something else changes in child g.
LEMMA Touching ==
    ASSUME NEW callers, NEW gs, TablesOK(callers, gs), NEW g \in DOMAIN gs,
           NEW gs2, ChildOnly(gs, gs2, g), gs2[g].dead = gs[g].dead,
           gs2[g].pending = gs[g].pending
    PROVE  TablesOK(callers, gs2)
  <1>1. /\ gs2 \in Seq(GatewayType) /\ DOMAIN gs2 = DOMAIN gs
        /\ \A h \in DOMAIN gs : gs2[h].dead = gs[h].dead /\ gs2[h].pending = gs[h].pending
    BY ChildOnlyFacts DEF TablesOK
  <1> QED BY <1>1 DEF TablesOK

\* A caller that waits for g is answered; one that was cancelled is not.
LEMMA Leaving ==
    ASSUME NEW callers, NEW gs, TablesOK(callers, gs), NEW g \in DOMAIN gs,
           NEW c \in Range(gs[g].pending),
           NEW gs2, ChildOnly(gs, gs2, g), gs2[g].dead = gs[g].dead,
           gs2[g].pending = RemoveFirst(gs[g].pending, c),
           NEW callers2, CallerOnly(callers, callers2, c),
           callers2[c].pc = callers[c].pc, callers2[c].gw = callers[c].gw,
           callers2[c].fut # Silence
    PROVE  TablesOK(callers2, gs2)
  <1>1. /\ gs \in Seq(GatewayType) /\ gs2 \in Seq(GatewayType) /\ DOMAIN gs2 = DOMAIN gs
        /\ \A h \in DOMAIN gs : h # g => gs2[h] = gs[h]
    BY ChildOnlyFacts DEF TablesOK
  <1>2. gs[g].pending \in Seq(SdkCallers) /\ Once(gs[g].pending) /\ c \in SdkCallers
    BY <1>1, ChildFacts DEF TablesOK
  <1>3. Once(gs2[g].pending) /\ Range(gs2[g].pending) = Range(gs[g].pending) \ {c}
    BY <1>2, RemovedFacts
  <1>4. callers[c].pc = "done" \/ callers[c].gw = g
    BY DEF TablesOK
  <1>5. ASSUME NEW h \in DOMAIN gs, NEW d \in Range(gs2[h].pending)
        PROVE  callers2[d].pc = "done" \/ (callers2[d].gw = h /\ Waiting(callers2[d]))
    <2>1. d \in Range(gs[h].pending) /\ (d = c => h # g)
      BY <1>1, <1>3
    <2>2. d \in SdkCallers
      BY <1>1, <2>1, ChildFacts
    <2>3. callers[d].pc = "done" \/ (callers[d].gw = h /\ Waiting(callers[d]))
      BY <2>1 DEF TablesOK
    <2>4. CASE d = c
      BY <1>4, <2>1, <2>3, <2>4
    <2>5. CASE d # c
      BY <2>2, <2>3, <2>5 DEF CallerOnly
    <2> QED BY <2>4, <2>5
  <1>6. ASSUME NEW h \in DOMAIN gs
        PROVE  /\ Once(gs2[h].pending)
               /\ gs2[h].dead = TRUE => gs2[h].pending = <<>>
    <2>1. gs[g].dead # TRUE
      BY EmptyRange DEF TablesOK
    <2> QED BY <1>1, <1>3, <2>1 DEF TablesOK
  <1>7. ASSUME NEW d \in SdkCallers
        PROVE  /\ callers2[d].pc \in {"register", "write"} => callers2[d].gw \in DOMAIN gs2
               /\ Waiting(callers2[d]) =>
                     /\ callers2[d].gw \in DOMAIN gs2 /\ gs2[callers2[d].gw].dead = FALSE
                     /\ d \in Range(gs2[callers2[d].gw].pending)
    <2>1. CASE d = c
      BY <1>1, <2>1 DEF TablesOK, Waiting
    <2>2. CASE d # c
      <3>1. callers2[d] = callers[d]
        BY <2>2 DEF CallerOnly
      <3> QED BY <1>1, <1>3, <2>2, <3>1 DEF TablesOK
    <2> QED BY <2>1, <2>2
  <1> QED BY <1>1, <1>5, <1>6, <1>7 DEF TablesOK, CallerOnly
-----------------------------------------------------------------------------
SameCall(q, r) ==
    /\ r.op = q.op /\ r.decision = q.decision /\ r.sent = q.sent /\ r.said = q.said
    /\ r.ran = q.ran /\ r.overridden = q.overridden /\ r.evicted = q.evicted
    /\ r.shown = q.shown

Advances(q, r) ==
    \/ r.pc = q.pc
    \/ q.pc = "ensure" /\ r.pc \in {"register", "wait"}
    \/ q.pc = "register" /\ r.pc \in {"write", "wait"}
    \/ q.pc = "write" /\ r.pc = "wait"
    \/ q.pc = "wait" /\ r.pc = "done"

Heeds(q, r) ==
    \/ r.fut \in {q.fut, Silence, Failure}
    \/ \E g \in DOMAIN gateways : \E i \in DOMAIN gateways[g].outbox :
          r.fut = gateways[g].outbox[i] /\ r.fut.kind # "bad"

\* What the client does to a caller.
Moves(q, r) == SameCall(q, r) /\ Advances(q, r) /\ Heeds(q, r)

OldInbox(g) == IF g \in DOMAIN gateways THEN gateways[g].inbox ELSE <<>>
OldOutbox(g) == IF g \in DOMAIN gateways THEN gateways[g].outbox ELSE <<>>

SentTo(c, k) ==
    /\ sdk[c].pc \in {"ensure", "write"} /\ sdk'[c].pc = "wait"
    /\ gateways'[k].inbox = Append(OldInbox(k), Line(c))
    /\ \A g \in DOMAIN gateways' : g # k => gateways'[g].inbox = OldInbox(g)

\* What the client does to the pipes of its children.
PipesMove ==
    /\ DOMAIN gateways \subseteq DOMAIN gateways'
    /\ \A g \in DOMAIN gateways' : gateways'[g].outbox \in {OldOutbox(g), <<>>, Tail(OldOutbox(g))}
    /\ \/ \A g \in DOMAIN gateways' : gateways'[g].inbox = OldInbox(g)
       \/ \E c \in SdkCallers : \E k \in DOMAIN gateways' : SentTo(c, k)

ClientMoves ==
    /\ program' = program /\ tracked' = tracked /\ sdkLog' = sdkLog
    /\ \A c \in SdkCallers : Moves(sdk[c], sdk'[c])
    /\ PipesMove

\* Nothing of the call is touched.
LEMMA MovesRefl == \A q : Moves(q, q)
  BY DEF Moves, SameCall, Advances, Heeds

LEMMA PipesRefl ==
    ASSUME gateways' = gateways
    PROVE  PipesMove
  BY DEF PipesMove, OldInbox, OldOutbox

LEMMA PipesOne ==
    ASSUME gateways \in Seq(GatewayType), NEW g \in DOMAIN gateways, ChildOnly(gateways, gateways', g),
           gateways'[g].inbox = gateways[g].inbox,
           gateways'[g].outbox \in {gateways[g].outbox, <<>>, Tail(gateways[g].outbox)}
    PROVE  PipesMove
  <1>1. /\ DOMAIN gateways' = DOMAIN gateways
        /\ \A h \in DOMAIN gateways : h # g => gateways'[h] = gateways[h]
    BY ChildOnlyFacts
  <1> QED BY <1>1 DEF PipesMove, OldInbox, OldOutbox

\* Who is in a table.
LEMMA TableFacts ==
    ASSUME TablesOK(sdk, gateways), NEW c \in SdkCallers
    PROVE  /\ sdk[c] \in CallerType
           /\ sdk[c].pc \notin {"write", "wait", "done"} => InNoTable(gateways, c)
           /\ sdk[c].pc # "done" =>
                 \A h \in DOMAIN gateways : h # sdk[c].gw => c \notin Range(gateways[h].pending)
           /\ sdk[c].fut # Silence /\ sdk[c].pc # "done" => InNoTable(gateways, c)
  BY DEF TablesOK, InNoTable, Waiting

LEMMA GivenUpFacts ==
    ASSUME TablesOK(sdk, gateways), NEW g \in DOMAIN gateways
    PROVE  /\ ChildOnly(gateways, GivenUp(g), g)
           /\ GivenUp(g)[g] = [gateways[g] EXCEPT !.dead = TRUE, !.pending = <<>>,
                                                  !.outbox = <<>>, !.doomed = TRUE]
           /\ GivenUp(g)[g] \in GatewayType
           /\ GivenUp(g)[g].dead = TRUE /\ GivenUp(g)[g].pending = <<>>
           /\ GivenUp(g)[g].inbox = gateways[g].inbox /\ GivenUp(g)[g].outbox = <<>>
  <1> DEFINE x == [gateways[g] EXCEPT !.dead = TRUE, !.pending = <<>>,
                                      !.outbox = <<>>, !.doomed = TRUE]
  <1>1. gateways \in Seq(GatewayType) /\ gateways[g] \in GatewayType
    BY ChildFacts DEF TablesOK
  <1>2. x \in GatewayType /\ x.dead = TRUE /\ x.pending = <<>> /\ x.inbox = gateways[g].inbox
        /\ x.outbox = <<>>
    <2>1. <<>> \in Seq(SdkCallers) /\ <<>> \in Seq(AnswerType \cup {BadAnswer})
      OBVIOUS
    <2> QED BY <1>1, <2>1 DEF GatewayType
  <1>3. GivenUp(g) = [gateways EXCEPT ![g] = x]
    BY <1>1 DEF GivenUp
  <1> HIDE DEF x
  <1>4. ChildOnly(gateways, [gateways EXCEPT ![g] = x], g) /\ [gateways EXCEPT ![g] = x][g] = x
    BY <1>1, <1>2 DEF ChildOnly
  <1> QED BY <1>2, <1>3, <1>4 DEF x

LEMMA FailedInFacts ==
    ASSUME NEW callers \in [SdkCallers -> CallerType], NEW g
    PROVE  /\ FailedIn(g, callers) \in [SdkCallers -> CallerType]
           /\ \A d \in SdkCallers :
                 /\ d \notin Range(gateways[g].pending) => FailedIn(g, callers)[d] = callers[d]
                 /\ d \in Range(gateways[g].pending) =>
                       FailedIn(g, callers)[d] = Errs(callers[d])
                 /\ FailedIn(g, callers)[d].fut \in {callers[d].fut, Failure}
                 /\ FailedIn(g, callers)[d].pc = callers[d].pc
                 /\ SameCall(callers[d], FailedIn(g, callers)[d])
  <1>1. ASSUME NEW d \in SdkCallers
        PROVE  /\ Errs(callers[d]) \in CallerType /\ Errs(callers[d]).fut = Failure /\ Errs(callers[d]).pc = callers[d].pc
               /\ SameCall(callers[d], Errs(callers[d]))
    <2>1. callers[d] \in CallerType
      OBVIOUS
    <2> QED BY <2>1 DEF CallerType, SameCall, Errs
  <1>2. \A d \in SdkCallers : SameCall(callers[d], callers[d])
    BY DEF SameCall
  <1>3. FailedIn(g, callers) =
          [d \in SdkCallers |-> IF d \in Range(gateways[g].pending) THEN Errs(callers[d]) ELSE callers[d]]
    BY DEF FailedIn, Errs
  <1> QED BY <1>1, <1>2, <1>3

\* callers is sdk but for who gives child g up, and has got an error.
GivesUp(callers, g) ==
    \A d \in SdkCallers :
       \/ callers[d] = sdk[d]
       \/ /\ callers[d].pc = "wait" /\ callers[d].fut = Failure
          /\ SameCall(sdk[d], callers[d]) /\ Advances(sdk[d], callers[d])
          /\ \A h \in DOMAIN gateways : h # g => d \notin Range(gateways[h].pending)

LEMMA FailStep ==
    ASSUME TablesOK(sdk, gateways), NEW g \in DOMAIN gateways,
           ChildOnly(gateways, gateways', g), gateways'[g].dead = TRUE,
           gateways'[g].pending = <<>>, gateways'[g].inbox = gateways[g].inbox,
           gateways'[g].outbox = <<>>,
           NEW callers \in [SdkCallers -> CallerType], sdk' = FailedIn(g, callers),
           GivesUp(callers, g)
    PROVE  /\ TablesOK(sdk', gateways') /\ PipesMove
           /\ \A c \in SdkCallers : Moves(sdk[c], sdk'[c])
  <1>1. /\ sdk' \in [SdkCallers -> CallerType]
        /\ \A d \in SdkCallers :
              /\ d \notin Range(gateways[g].pending) => sdk'[d] = callers[d]
              /\ d \in Range(gateways[g].pending) => sdk'[d] = Errs(callers[d])
              /\ sdk'[d].fut \in {callers[d].fut, Failure}
              /\ sdk'[d].pc = callers[d].pc /\ SameCall(callers[d], sdk'[d])
    BY FailedInFacts
  <1>2. ASSUME NEW d \in SdkCallers
        PROVE  \/ d \in Range(gateways[g].pending) /\ sdk'[d] = Errs(sdk[d])
               \/ d \notin Range(gateways[g].pending) /\ sdk'[d] = sdk[d]
               \/ /\ Settled(sdk'[d])
                  /\ \A h \in DOMAIN gateways : h # g => d \notin Range(gateways[h].pending)
    <2>1. CASE callers[d] = sdk[d]
      BY <1>1, <2>1
    <2>2. CASE /\ callers[d].pc = "wait" /\ callers[d].fut = Failure
               /\ \A h \in DOMAIN gateways : h # g => d \notin Range(gateways[h].pending)
      <3>1. sdk'[d].pc = "wait" /\ sdk'[d].fut = Failure
        BY <1>1, <2>2
      <3> QED BY <2>2, <3>1, FutFacts DEF Settled, Waiting
    <2> QED BY <2>1, <2>2 DEF GivesUp
  <1>3. TablesOK(sdk', gateways')
    <2>1. PICK cs, gs : cs = sdk' /\ gs = gateways'
      OBVIOUS
    <2>2. PICK old, base : old = gateways /\ base = sdk
      OBVIOUS
    <2>3. TablesOK(base, old) /\ g \in DOMAIN old /\ ChildOnly(old, gs, g)
          /\ gs[g].dead = TRUE /\ gs[g].pending = <<>> /\ cs \in [SdkCallers -> CallerType]
      BY <1>1, <2>1, <2>2
    <2>4. AllFailed(base, cs, old, g)
      BY <1>2, <2>1, <2>2 DEF AllFailed
    <2>5. TablesOK(cs, gs)
      BY <2>3, <2>4, Failing
    <2> QED BY <2>1, <2>5
  <1>4. PipesMove
    BY PipesOne DEF TablesOK
  <1>5. ASSUME NEW d \in SdkCallers
        PROVE  Moves(sdk[d], sdk'[d])
    <2>1. SameCall(callers[d], sdk'[d]) /\ sdk'[d].pc = callers[d].pc
          /\ sdk'[d].fut \in {callers[d].fut, Failure}
      BY <1>1
    <2>2. SameCall(sdk[d], callers[d]) /\ Advances(sdk[d], callers[d])
          /\ callers[d].fut \in {sdk[d].fut, Failure}
      BY DEF SameCall, Advances, GivesUp
    <2> QED BY <2>1, <2>2 DEF Moves, SameCall, Advances, Heeds
  <1> QED BY <1>3, <1>4, <1>5
-----------------------------------------------------------------------------
\* Child g is given up, with other marks y.
LEMMA Reshaped ==
    ASSUME TablesOK(sdk, gateways), NEW g \in DOMAIN gateways, NEW y \in GatewayType
    PROVE  /\ ChildOnly(gateways, [GivenUp(g) EXCEPT ![g] = y], g)
           /\ [GivenUp(g) EXCEPT ![g] = y][g] = y
  <1> DEFINE gs == GivenUp(g)
  <1>1. /\ gs \in Seq(GatewayType) /\ DOMAIN gs = DOMAIN gateways /\ Len(gs) = Len(gateways)
        /\ \A h \in DOMAIN gateways : h # g => gs[h] = gateways[h]
    <2>1. gateways \in Seq(GatewayType) /\ ChildOnly(gateways, gs, g)
      BY GivenUpFacts DEF TablesOK
    <2> HIDE DEF gs
    <2>2. gs \in Seq(GatewayType) /\ DOMAIN gs = DOMAIN gateways
      BY <2>1, ChildOnlyFacts
    <2> QED BY <2>1, <2>2 DEF ChildOnly
  <1> HIDE DEF gs
  <1>2. ChildOnly(gateways, [gs EXCEPT ![g] = y], g) /\ [gs EXCEPT ![g] = y][g] = y
    BY <1>1 DEF ChildOnly
  <1> QED BY <1>2 DEF gs

\* A given up child whose stdin is closed.
LEMMA ClosedFacts ==
    ASSUME TablesOK(sdk, gateways), NEW g \in DOMAIN gateways, NEW gs,
           \/ gs = GivenUp(g)
           \/ gs = [GivenUp(g) EXCEPT ![g].eof = TRUE]
           \/ gs = [GivenUp(g) EXCEPT ![g].doomed = gateways[g].doomed, ![g].eof = TRUE]
    PROVE  /\ ChildOnly(gateways, gs, g) /\ gs[g].dead = TRUE /\ gs[g].pending = <<>>
           /\ gs[g].inbox = gateways[g].inbox /\ gs[g].outbox = <<>>
  <1>1. CASE gs = GivenUp(g)
    BY <1>1, GivenUpFacts
  <1> DEFINE v == GivenUp(g)[g]
             w == [v EXCEPT !.eof = TRUE]
             z == [v EXCEPT !.doomed = gateways[g].doomed, !.eof = TRUE]
  <1>2. /\ v \in GatewayType /\ v.dead = TRUE /\ v.pending = <<>>
        /\ v.inbox = gateways[g].inbox /\ v.outbox = <<>> /\ gateways[g].doomed \in BOOLEAN
    BY GivenUpFacts, ChildFacts DEF TablesOK, GatewayType
  <1> HIDE DEF v
  <1>3. /\ w \in GatewayType /\ w.dead = TRUE /\ w.pending = <<>>
        /\ w.inbox = gateways[g].inbox /\ w.outbox = <<>>
    BY <1>2 DEF GatewayType
  <1>4. /\ z \in GatewayType /\ z.dead = TRUE /\ z.pending = <<>>
        /\ z.inbox = gateways[g].inbox /\ z.outbox = <<>>
    BY <1>2 DEF GatewayType
  <1>5. CASE gs = [GivenUp(g) EXCEPT ![g].eof = TRUE]
    <2>1. gs = [GivenUp(g) EXCEPT ![g] = w]
      BY <1>5 DEF v
    <2> HIDE DEF w
    <2> QED BY <1>3, <2>1, Reshaped
  <1>6. CASE gs = [GivenUp(g) EXCEPT ![g].doomed = gateways[g].doomed, ![g].eof = TRUE]
    <2> DEFINE G == GivenUp(g)
    <2>0. g \in DOMAIN G
      <3>1. gateways \in Seq(GatewayType) /\ ChildOnly(gateways, G, g)
        BY GivenUpFacts DEF TablesOK
      <3> HIDE DEF G
      <3> QED BY <3>1, ChildOnlyFacts
    <2> HIDE DEF G
    <2>1. [G EXCEPT ![g].doomed = gateways[g].doomed, ![g].eof = TRUE]
            = [G EXCEPT ![g] = [G[g] EXCEPT !.doomed = gateways[g].doomed, !.eof = TRUE]]
      BY <2>0
    <2>2. gs = [GivenUp(g) EXCEPT ![g] = z]
      BY <1>6, <2>1 DEF v, G
    <2> HIDE DEF z
    <2> QED BY <1>4, <2>2, Reshaped
  <1> QED BY <1>1, <1>5, <1>6

\* Child g is given up, and everyone who waits for it gets an error.
LEMMA GiveUpTables ==
    ASSUME TablesOK(sdk, gateways), NEW g \in DOMAIN gateways, NEW gs,
           ChildOnly(gateways, gs, g), gs[g].dead = TRUE, gs[g].pending = <<>>
    PROVE  TablesOK(FailedIn(g, sdk), gs)
  <1> DEFINE cs == FailedIn(g, sdk)
  <1>1. sdk \in [SdkCallers -> CallerType]
    BY DEF TablesOK
  <1>2. /\ cs \in [SdkCallers -> CallerType]
        /\ \A d \in SdkCallers :
              /\ d \notin Range(gateways[g].pending) => cs[d] = sdk[d]
              /\ d \in Range(gateways[g].pending) => cs[d] = Errs(sdk[d])
    BY <1>1, FailedInFacts
  <1> HIDE DEF cs
  <1>3. AllFailed(sdk, cs, gateways, g)
    BY <1>2 DEF AllFailed
  <1>4. TablesOK(cs, gs)
    BY <1>2, <1>3, Failing
  <1> QED BY <1>4 DEF cs

CallerShape(q) ==
    q = [pc |-> q.pc, op |-> q.op, gw |-> q.gw, fut |-> q.fut, decision |-> q.decision,
         sent |-> q.sent, said |-> q.said, ran |-> q.ran, overridden |-> q.overridden,
         evicted |-> q.evicted, shown |-> q.shown]

\* r is q with another step, answer and child.
Stepped(q, r, p, f, g) == r = [q EXCEPT !.pc = p, !.fut = f, !.gw = g]

LEMMA CallerShaped == \A q \in CallerType : CallerShape(q)
  BY DEF CallerType, CallerShape

LEMMA RecordStep ==
    ASSUME NEW q, NEW r, NEW p, NEW f, NEW g, CallerShape(q), Stepped(q, r, p, f, g)
    PROVE  /\ r.pc = p /\ r.fut = f /\ r.gw = g /\ SameCall(q, r)
           /\ CallerShape(r)
  <1>1. r = [pc |-> p, op |-> q.op, gw |-> g, fut |-> f, decision |-> q.decision,
             sent |-> q.sent, said |-> q.said, ran |-> q.ran, overridden |-> q.overridden,
             evicted |-> q.evicted, shown |-> q.shown]
    BY DEF CallerShape, Stepped
  <1>2. r.pc = p /\ r.fut = f /\ r.gw = g /\ SameCall(q, r)
    BY <1>1 DEF SameCall
  <1>3. CallerShape(r)
    BY <1>1 DEF CallerShape
  <1> QED BY <1>2, <1>3

LEMMA SteppedFacts ==
    ASSUME NEW q, CallerShape(q), NEW r, NEW p, NEW f, NEW g,
           \/ r = [q EXCEPT !.fut = f, !.pc = p] /\ g = q.gw
           \/ r = [q EXCEPT !.pc = p] /\ f = q.fut /\ g = q.gw
           \/ r = [q EXCEPT !.fut = f] /\ p = q.pc /\ g = q.gw
           \/ r = [q EXCEPT !.gw = g, !.pc = p] /\ f = q.fut
           \/ r = [q EXCEPT !.gw = g, !.fut = f, !.pc = p]
           \/ r = [q EXCEPT !.fut = f, !.gw = g, !.pc = p]
    PROVE  Stepped(q, r, p, f, g)
  BY DEF CallerShape, Stepped

CallSteps == Requesting \cup {"ask", "run", "after", "done"}
Futures == {Silence, Failure} \cup AnswerType

\* cs is callers but for c, whatever c is then.
SetOnly(callers, cs, c) ==
    cs = [d \in SdkCallers |-> cs[d]] /\ \A d \in SdkCallers : d # c => cs[d] = callers[d]

\* A caller's next state.
LEMMA CallerStep ==
    ASSUME NEW callers \in [SdkCallers -> CallerType], NEW c \in SdkCallers,
           NEW cs, SetOnly(callers, cs, c), NEW p \in CallSteps, NEW f \in Futures,
           NEW g \in Nat, Stepped(callers[c], cs[c], p, f, g)
    PROVE  /\ cs[c].pc = p /\ cs[c].fut = f /\ cs[c].gw = g
           /\ SameCall(callers[c], cs[c]) /\ CallerOnly(callers, cs, c)
  <1> DEFINE r == cs[c]
  <1> DEFINE q == callers[c]
  <1>1. q \in CallerType /\ CallerShape(q)
    BY CallerShaped
  <1> HIDE DEF q, r
  <1>2. r.pc = p /\ r.fut = f /\ r.gw = g /\ SameCall(q, r) /\ CallerShape(r)
    BY <1>1, RecordStep DEF q, r
  <1>3. r \in CallerType
    <2>1. /\ q.op \in Ops /\ q.decision \in SdkVerdicts \cup {"none"} /\ q.sent \in BOOLEAN
          /\ q.said \in {"nothing", "yes", "no", "late"} /\ q.ran \in {"no", "returned", "raised"}
          /\ q.overridden \in BOOLEAN /\ q.evicted \in BOOLEAN
          /\ q.shown \in {"none", "refusal", "raised", "raw", "masked", "withheld"}
      BY <1>1 DEF CallerType
    <2>2. /\ r.op \in Ops /\ r.decision \in SdkVerdicts \cup {"none"} /\ r.sent \in BOOLEAN
          /\ r.said \in {"nothing", "yes", "no", "late"} /\ r.ran \in {"no", "returned", "raised"}
          /\ r.overridden \in BOOLEAN /\ r.evicted \in BOOLEAN
          /\ r.shown \in {"none", "refusal", "raised", "raw", "masked", "withheld"}
      BY <1>2, <2>1 DEF SameCall
    <2>3. r.pc \in Requesting \cup {"ask", "run", "after", "done"} /\ r.gw \in Nat
          /\ r.fut \in {Silence, Failure} \cup AnswerType
      BY <1>2 DEF CallSteps, Futures
    <2> QED BY <1>2, <2>2, <2>3 DEF CallerShape, CallerType
  <1>4. cs \in [SdkCallers -> CallerType]
    BY <1>3 DEF r, SetOnly
  <1> QED BY <1>2, <1>4 DEF CallerOnly, SetOnly, q, r
-----------------------------------------------------------------------------
\* A step of the client that keeps its tables keeps the invariant.
LEMMA Concluded ==
    ASSUME ClientInd, program # NoProgram, program' = program,
           TablesOK(sdk', gateways'), current' \in 0..Len(gateways'),
           closing' \in {"no", "waiting", "closed"},
           closing' = "waiting" => gateways' # <<>>,
           TypeScript => \A g \in DOMAIN gateways' : gateways'[g].dead = FALSE <=> g = current'
    PROVE  ClientInd'
  <1>1. TypeScript' = TypeScript
    BY DEF TypeScript
  <1>2. TablesOK(sdk, gateways)'
    BY DEF TablesOK, Waiting, Once
  <1>3. Idle'
    BY DEF Idle
  <1>4. program' \in SdkPrograms \cup {NoProgram}
    BY DEF ClientInd
  <1> QED BY <1>1, <1>2, <1>3, <1>4 DEF ClientInd

\* Caller c alone goes on, in no table.
LEMMA SetStep ==
    ASSUME TablesOK(sdk, gateways), NEW c \in SdkCallers, gateways' = gateways,
           SetOnly(sdk, sdk', c), NEW p \in CallSteps,
           NEW f \in {sdk[c].fut, Silence, Failure}, NEW g \in Nat,
           Stepped(sdk[c], sdk'[c], p, f, g),
           ~(p \in {"write", "wait"} /\ f = Silence),
           p \in {"register", "write"} => g \in DOMAIN gateways,
           InNoTable(gateways, c) \/ p = "done",
           Advances(sdk[c], sdk'[c])
    PROVE  /\ TablesOK(sdk', gateways') /\ PipesMove
           /\ \A d \in SdkCallers : Moves(sdk[d], sdk'[d])
  <1> DEFINE cs == sdk'
  <1>1. sdk \in [SdkCallers -> CallerType] /\ f \in Futures
    <2>1. sdk \in [SdkCallers -> CallerType] /\ sdk[c] \in CallerType
      BY DEF TablesOK
    <2> QED BY <2>1 DEF CallerType, Futures
  <1>2. /\ cs[c].pc = p /\ cs[c].fut = f /\ cs[c].gw = g
        /\ SameCall(sdk[c], cs[c]) /\ CallerOnly(sdk, cs, c)
    BY <1>1, CallerStep
  <1>3. ~Waiting(cs[c]) /\ (cs[c].pc \in {"register", "write"} => cs[c].gw \in DOMAIN gateways)
    BY <1>2 DEF Waiting
  <1> HIDE DEF cs
  <1>4. TablesOK(cs, gateways)
    BY <1>2, <1>3, Setting
  <1>5. Moves(sdk[c], sdk'[c])
    BY <1>2 DEF Moves, Heeds, cs
  <1> QED BY <1>4, <1>5, MovesRefl, PipesRefl DEF cs, SetOnly

\* What an EXCEPT does to one caller.
LEMMA ExceptCaller ==
    ASSUME NEW callers \in [SdkCallers -> CallerType], NEW c \in SdkCallers, NEW q
    PROVE  LET cs == [callers EXCEPT ![c] = q] IN
           SetOnly(callers, cs, c) /\ cs[c] = q
  BY DEF SetOnly

LEMMA RaiseStep ==
    ASSUME TablesOK(sdk, gateways), NEW c \in SdkCallers, gateways' = gateways,
           sdk[c].pc \in {"ensure", "register"}, Raise(c)
    PROVE  /\ TablesOK(sdk', gateways') /\ PipesMove
           /\ \A d \in SdkCallers : Moves(sdk[d], sdk'[d])
  <1>1. sdk \in [SdkCallers -> CallerType] /\ sdk[c] \in CallerType /\ sdk[c].gw \in Nat
        /\ InNoTable(gateways, c)
    BY TableFacts DEF TablesOK, CallerType
  <1>2. sdk' = [sdk EXCEPT ![c] = [sdk[c] EXCEPT !.fut = Failure, !.pc = "wait"]]
    BY <1>1 DEF Raise
  <1>3. /\ SetOnly(sdk, sdk', c)
        /\ sdk'[c] = [sdk[c] EXCEPT !.fut = Failure, !.pc = "wait"]
    BY <1>1, <1>2, ExceptCaller
  <1>4. CallerShape(sdk[c]) /\ Stepped(sdk[c], sdk'[c], "wait", Failure, sdk[c].gw)
    <2>1. CallerShape(sdk[c])
      BY <1>1, CallerShaped
    <2> QED BY <1>3, <2>1, SteppedFacts
  <1>5. Advances(sdk[c], sdk'[c])
    BY <1>4, RecordStep DEF Advances
  <1> QED BY <1>1, <1>3, <1>4, <1>5, SetStep, FutFacts DEF CallSteps, Requesting
-----------------------------------------------------------------------------
(***************************************************************************)
(* The steps of the Python client                                          *)
(***************************************************************************)
\* The callers and children when the one that is gone has been closed.
CallersThen == IF current = 0 THEN sdk ELSE FailedIn(current, sdk)
GatewaysThen ==
    IF current = 0 THEN gateways ELSE [GivenUp(current) EXCEPT ![current].eof = TRUE]

LEMMA ThenFacts ==
    ASSUME ClientInd, NEW c \in SdkCallers, sdk[c].pc \in {"ensure", "register"}
    PROVE  /\ TablesOK(CallersThen, GatewaysThen) /\ InNoTable(GatewaysThen, c)
           /\ CallersThen[c] = sdk[c] /\ Len(GatewaysThen) = Len(gateways)
           /\ DOMAIN GatewaysThen = DOMAIN gateways
           /\ \A d \in SdkCallers :
                 /\ SameCall(sdk[d], CallersThen[d]) /\ CallersThen[d].pc = sdk[d].pc
                 /\ CallersThen[d].fut \in {sdk[d].fut, Failure}
           /\ \A g \in DOMAIN gateways :
                 /\ GatewaysThen[g].inbox = gateways[g].inbox
                 /\ GatewaysThen[g].outbox \in {gateways[g].outbox, <<>>}
  <1>1. /\ TablesOK(sdk, gateways) /\ gateways \in Seq(GatewayType)
        /\ sdk \in [SdkCallers -> CallerType] /\ InNoTable(gateways, c)
    BY TableFacts DEF ClientInd, TablesOK
  <1>2. CASE current = 0
    BY <1>1, <1>2 DEF CallersThen, GatewaysThen, SameCall
  <1>3. CASE current # 0
    <2>1. current \in DOMAIN gateways
      <3>1. current \in 0..Len(gateways) /\ Len(gateways) \in Nat /\ DOMAIN gateways = 1..Len(gateways)
        BY <1>1, SeqDomain DEF ClientInd
      <3> QED BY <1>3, <3>1
    <2> DEFINE gs == GatewaysThen
               cs == CallersThen
    <2>2. gs = [GivenUp(current) EXCEPT ![current].eof = TRUE] /\ cs = FailedIn(current, sdk)
      BY <1>3 DEF GatewaysThen, CallersThen
    <2> HIDE DEF gs, cs
    <2>3. /\ ChildOnly(gateways, gs, current) /\ gs[current].dead = TRUE /\ gs[current].pending = <<>>
          /\ gs[current].inbox = gateways[current].inbox /\ gs[current].outbox = <<>>
      BY <1>1, <2>1, <2>2, ClosedFacts
    <2>4. TablesOK(cs, gs)
      BY <1>1, <2>1, <2>2, <2>3, GiveUpTables
    <2>5. /\ DOMAIN gs = DOMAIN gateways /\ Len(gs) = Len(gateways)
          /\ \A g \in DOMAIN gateways : g # current => gs[g] = gateways[g]
      BY <1>1, <2>1, <2>3, ChildOnlyFacts DEF ChildOnly
    <2>6. /\ \A d \in SdkCallers :
                /\ d \notin Range(gateways[current].pending) => cs[d] = sdk[d]
                /\ cs[d].fut \in {sdk[d].fut, Failure} /\ cs[d].pc = sdk[d].pc
                /\ SameCall(sdk[d], cs[d])
      BY <1>1, <2>2, FailedInFacts
    <2>7. cs[c] = sdk[c]
      BY <1>1, <2>1, <2>6 DEF InNoTable
    <2>8. InNoTable(gs, c)
      BY <1>1, <2>1, <2>3, <2>5, EmptyRange DEF InNoTable
    <2>9. \A g \in DOMAIN gateways :
             gs[g].inbox = gateways[g].inbox /\ gs[g].outbox \in {gateways[g].outbox, <<>>}
      BY <2>3, <2>5
    <2> QED BY <2>4, <2>5, <2>6, <2>7, <2>8, <2>9 DEF gs, cs
  <1> QED BY <1>2, <1>3

LEMMA BasicFacts ==
    ASSUME ClientInd, NEW c \in SdkCallers
    PROVE  /\ TablesOK(sdk, gateways) /\ gateways \in Seq(GatewayType)
           /\ sdk \in [SdkCallers -> CallerType] /\ sdk[c] \in CallerType
           /\ Len(gateways) \in Nat /\ DOMAIN gateways = 1..Len(gateways)
           /\ current \in 0..Len(gateways) /\ CallerShape(sdk[c]) /\ sdk[c].gw \in Nat
           /\ sdk[c].fut \in Futures
           /\ sdk[c].pc \notin {"write", "wait", "done"} => InNoTable(gateways, c)
  <1>1. TablesOK(sdk, gateways) /\ current \in 0..Len(gateways)
    BY DEF ClientInd
  <1>2. gateways \in Seq(GatewayType) /\ sdk \in [SdkCallers -> CallerType]
    BY <1>1 DEF TablesOK
  <1>3. sdk[c] \in CallerType
    BY <1>2
  <1>4. sdk[c].gw \in Nat /\ sdk[c].fut \in Futures
    BY <1>3 DEF CallerType, Futures
  <1> QED BY <1>1, <1>2, <1>3, <1>4, TableFacts, SeqDomain, CallerShaped

LEMMA EnsureStep ==
    ASSUME ClientInd, NEW c \in SdkCallers, Ensure(c)
    PROVE  ClientInd' /\ ClientMoves
  <1>0. sdk[c].pc = "ensure"
    BY DEF Ensure
  <1>1. /\ TablesOK(sdk, gateways) /\ gateways \in Seq(GatewayType)
        /\ sdk \in [SdkCallers -> CallerType] /\ sdk[c] \in CallerType /\ InNoTable(gateways, c)
        /\ Len(gateways) \in Nat /\ DOMAIN gateways = 1..Len(gateways)
        /\ current \in 0..Len(gateways) /\ CallerShape(sdk[c]) /\ sdk[c].gw \in Nat
        /\ sdk[c].fut \in Futures
    BY <1>0, BasicFacts
  <1>2. program # NoProgram /\ program' = program /\ ~TypeScript
    BY DEF Ensure, Python, TypeScript
  <1>3. tracked' = tracked /\ sdkLog' = sdkLog
    BY DEF Ensure
  <1>4. CASE closing # "no" /\ Raise(c) /\ UNCHANGED clientVars
    <2>1. gateways' = gateways /\ current' = current /\ closing' = closing
      BY <1>4 DEF clientVars
    <2>2. /\ TablesOK(sdk', gateways') /\ PipesMove
          /\ \A d \in SdkCallers : Moves(sdk[d], sdk'[d])
      BY <1>0, <1>1, <1>4, <2>1, RaiseStep
    <2>3. ClientInd'
      BY <1>1, <1>2, <2>1, <2>2, Concluded DEF ClientInd
    <2> QED BY <1>2, <1>3, <2>2, <2>3 DEF ClientMoves
  <1>5. CASE /\ closing = "no" /\ Alive(current) /\ UNCHANGED clientVars
             /\ sdk' = [sdk EXCEPT ![c].gw = current, ![c].pc = "register"]
    <2>1. gateways' = gateways /\ current' = current /\ closing' = closing /\ current \in DOMAIN gateways
          /\ current \in Nat
      <3>1. current # 0
        BY <1>5 DEF Alive
      <3> QED BY <1>1, <1>5, <3>1 DEF clientVars
    <2>2. sdk' = [sdk EXCEPT ![c] = [sdk[c] EXCEPT !.gw = current, !.pc = "register"]]
      BY <1>1, <1>5
    <2>3. /\ SetOnly(sdk, sdk', c)
          /\ sdk'[c] = [sdk[c] EXCEPT !.gw = current, !.pc = "register"]
      BY <1>1, <2>2, ExceptCaller
    <2>4. Stepped(sdk[c], sdk'[c], "register", sdk[c].fut, current)
      BY <1>1, <2>3, SteppedFacts
    <2>5. Advances(sdk[c], sdk'[c])
      BY <1>0, <1>1, <2>4, RecordStep DEF Advances
    <2>6. /\ TablesOK(sdk', gateways') /\ PipesMove
          /\ \A d \in SdkCallers : Moves(sdk[d], sdk'[d])
      BY <1>1, <2>1, <2>3, <2>4, <2>5, SetStep DEF CallSteps, Requesting
    <2>7. ClientInd'
      BY <1>1, <1>2, <2>1, <2>6, Concluded DEF ClientInd
    <2> QED BY <1>2, <1>3, <2>6, <2>7 DEF ClientMoves
  <1> DEFINE old == GatewaysThen
             callers == CallersThen
  <1>6. /\ TablesOK(callers, old) /\ InNoTable(old, c)
        /\ callers[c] = sdk[c] /\ Len(old) = Len(gateways) /\ DOMAIN old = DOMAIN gateways
        /\ \A d \in SdkCallers :
              /\ SameCall(sdk[d], callers[d]) /\ callers[d].pc = sdk[d].pc
              /\ callers[d].fut \in {sdk[d].fut, Failure}
        /\ \A g \in DOMAIN gateways :
              /\ old[g].inbox = gateways[g].inbox
              /\ old[g].outbox \in {gateways[g].outbox, <<>>}
    BY <1>0, ThenFacts
  <1>7. callers \in [SdkCallers -> CallerType]
    BY <1>6 DEF TablesOK
  <1> HIDE DEF old, callers
  <1>8. CASE /\ closing' = closing /\ current' = 0 /\ gateways' = old
             /\ sdk' = [callers EXCEPT ![c].fut = Failure, ![c].pc = "wait"]
    <2> DEFINE cs == sdk'
    <2>1. cs = [callers EXCEPT ![c] = [callers[c] EXCEPT !.fut = Failure, !.pc = "wait"]]
      BY <1>7, <1>8
    <2> HIDE DEF cs
    <2>2. /\ SetOnly(callers, cs, c)
          /\ cs[c] = [callers[c] EXCEPT !.fut = Failure, !.pc = "wait"]
      BY <1>7, <2>1, ExceptCaller
    <2>3. Stepped(callers[c], cs[c], "wait", Failure, sdk[c].gw)
      BY <1>1, <1>6, <2>2, SteppedFacts
    <2>4. /\ cs[c].pc = "wait" /\ cs[c].fut = Failure /\ SameCall(callers[c], cs[c])
          /\ CallerOnly(callers, cs, c)
      <3>1. "wait" \in CallSteps /\ Failure \in Futures
        BY DEF CallSteps, Requesting, Futures
      <3> QED BY <1>1, <1>6, <1>7, <2>2, <2>3, <3>1, CallerStep
    <2>5. TablesOK(cs, old)
      BY <1>6, <2>4, Setting, FutFacts DEF Waiting
    <2>6. PipesMove
      BY <1>6, <1>8 DEF PipesMove, OldInbox, OldOutbox
    <2>7. ASSUME NEW d \in SdkCallers PROVE Moves(sdk[d], sdk'[d])
      <3>1. CASE d = c
        BY <1>0, <1>6, <2>4, <3>1 DEF Moves, Advances, Heeds, cs
      <3>2. CASE d # c
        <4>1. sdk'[d] = callers[d]
          BY <2>2, <3>2 DEF cs, SetOnly
        <4> QED BY <1>6, <4>1 DEF Moves, Advances, Heeds
      <3> QED BY <3>1, <3>2
    <2>8. ClientInd'
      <3>1. sdk' = cs /\ gateways' = old /\ closing' = closing /\ current' = 0
        BY <1>8 DEF cs
      <3>2. /\ closing \in {"no", "waiting", "closed"} /\ (closing = "waiting" => old # <<>>)
        BY <1>1, <1>6 DEF ClientInd
      <3>3. 0 \in 0..Len(old)
        BY <1>1, <1>6
      <3> QED BY <1>2, <2>5, <3>1, <3>2, <3>3, Concluded
    <2> QED BY <1>2, <1>3, <2>6, <2>7, <2>8 DEF ClientMoves
  <1>9. CASE /\ closing' = closing /\ closing = "no"
             /\ gateways' = Append(old, NewGateway) /\ current' = Len(old) + 1
             /\ sdk' = [callers EXCEPT ![c].gw = Len(old) + 1, ![c].pc = "register"]
    <2> DEFINE cs == sdk'
               k == Len(old) + 1
               gs == Append(old, NewGateway)
    <2>1. cs = [callers EXCEPT ![c] = [callers[c] EXCEPT !.gw = k, !.pc = "register"]]
      BY <1>7, <1>9
    <2>2. /\ TablesOK(callers, gs) /\ Len(gs) = k /\ DOMAIN gs = 1..k /\ k \in Nat
          /\ \A g \in DOMAIN old : g # k /\ gs[g] = old[g]
          /\ gs[k] = NewGateway
      BY <1>1, <1>6, Adding
    <2> HIDE DEF cs, k, gs
    <2>3. /\ SetOnly(callers, cs, c)
          /\ cs[c] = [callers[c] EXCEPT !.gw = k, !.pc = "register"]
      BY <1>7, <2>1, ExceptCaller
    <2>4. Stepped(callers[c], cs[c], "register", sdk[c].fut, k)
      BY <1>1, <1>6, <2>3, SteppedFacts
    <2>5. /\ cs[c].pc = "register" /\ cs[c].fut = sdk[c].fut /\ cs[c].gw = k
          /\ SameCall(callers[c], cs[c]) /\ CallerOnly(callers, cs, c)
      <3>1. "register" \in CallSteps
        BY DEF CallSteps, Requesting
      <3>2. SetOnly(callers, cs, c) /\ k \in Nat /\ sdk[c].fut \in Futures
        BY <1>1, <2>2, <2>3
      <3> QED BY <1>7, <2>4, <3>1, <3>2, CallerStep
    <2>6. InNoTable(gs, c)
      <3>1. NewGateway.pending = <<>> /\ k \in Nat
        BY <2>2 DEF NewGateway
      <3>2. ASSUME NEW g \in DOMAIN gs PROVE c \notin Range(gs[g].pending)
        <4>1. CASE g = k
          BY <2>2, <3>1, <4>1, EmptyRange
        <4>2. CASE g # k
          <5>1. g \in DOMAIN old
            BY <1>1, <1>6, <2>2, <4>2 DEF k
          <5> QED BY <1>6, <2>2, <5>1 DEF InNoTable
        <4> QED BY <4>1, <4>2
      <3> QED BY <3>2 DEF InNoTable
    <2>7. TablesOK(cs, gs)
      <3>1. ~Waiting(cs[c]) /\ cs[c].gw \in DOMAIN gs
        BY <1>1, <1>6, <2>2, <2>5 DEF Waiting, k
      <3> QED BY <2>2, <2>5, <2>6, <3>1, Setting
    <2>8. PipesMove
      <3>1. gateways' = gs /\ NewGateway.inbox = <<>> /\ NewGateway.outbox = <<>>
        BY <1>9 DEF NewGateway, gs
      <3>2. DOMAIN gateways \subseteq DOMAIN gs /\ \A g \in DOMAIN gs : g \in DOMAIN gateways \/ g = k
        BY <1>1, <1>6, <2>2 DEF k
      <3>3. k \notin DOMAIN gateways
        BY <1>1, <1>6, <2>2
      <3> QED BY <1>6, <2>2, <3>1, <3>2, <3>3 DEF PipesMove, OldInbox, OldOutbox
    <2>9. ASSUME NEW d \in SdkCallers PROVE Moves(sdk[d], sdk'[d])
      <3>1. CASE d = c
        BY <1>0, <1>6, <2>5, <3>1 DEF Moves, Advances, Heeds, cs
      <3>2. CASE d # c
        <4>1. sdk'[d] = callers[d]
          BY <2>3, <3>2 DEF cs, SetOnly
        <4> QED BY <1>6, <4>1 DEF Moves, Advances, Heeds
      <3> QED BY <3>1, <3>2
    <2>10. ClientInd'
      <3>1. gateways' = gs /\ current' = k /\ closing' = "no" /\ sdk' = cs
        BY <1>9 DEF gs, k, cs
      <3>2. k \in 0..Len(gs)
        BY <2>2
      <3> QED BY <1>2, <2>7, <3>1, <3>2, Concluded
    <2> QED BY <1>2, <1>3, <2>8, <2>9, <2>10 DEF ClientMoves
  <1> QED BY <1>4, <1>5, <1>8, <1>9 DEF Ensure, old, callers, CallersThen, GatewaysThen

\* Child g is given up by one who waits for it, or by its reader.
LEMMA FailConcluded ==
    ASSUME ClientInd, program # NoProgram, program' = program, NEW g \in DOMAIN gateways,
           NEW callers \in [SdkCallers -> CallerType], GivesUp(callers, g), Fail(g, callers),
           current' \in {current, 0}, closing' \in {"no", "waiting", "closed"},
           TypeScript => g = current /\ current' = 0
    PROVE  /\ ClientInd' /\ PipesMove
           /\ \A c \in SdkCallers : Moves(sdk[c], sdk'[c])
  <1>1. /\ TablesOK(sdk, gateways) /\ gateways \in Seq(GatewayType) /\ current \in 0..Len(gateways)
        /\ DOMAIN gateways = 1..Len(gateways) /\ Len(gateways) \in Nat
    BY SeqDomain DEF ClientInd, TablesOK
  <1>2. gateways' = GivenUp(g) /\ sdk' = FailedIn(g, callers)
    BY DEF Fail
  <1>3. /\ ChildOnly(gateways, gateways', g) /\ gateways'[g].dead = TRUE
        /\ gateways'[g].pending = <<>> /\ gateways'[g].inbox = gateways[g].inbox
        /\ gateways'[g].outbox = <<>>
    BY <1>1, <1>2, GivenUpFacts
  <1>4. /\ TablesOK(sdk', gateways') /\ PipesMove
        /\ \A c \in SdkCallers : Moves(sdk[c], sdk'[c])
    BY <1>1, <1>2, <1>3, FailStep
  <1>5. /\ DOMAIN gateways' = DOMAIN gateways /\ Len(gateways') = Len(gateways)
        /\ \A h \in DOMAIN gateways : h # g => gateways'[h] = gateways[h]
    BY <1>1, <1>3, ChildOnlyFacts DEF ChildOnly
  <1>6. gateways' # <<>>
    <2>1. Len(<<>>) = 0
      OBVIOUS
    <2> QED BY <1>1, <1>5, <2>1
  <1>7. TypeScript => \A h \in DOMAIN gateways' : gateways'[h].dead = FALSE <=> h = current'
    BY <1>1, <1>3, <1>5 DEF ClientInd
  <1>8. current' \in 0..Len(gateways')
    BY <1>1, <1>5
  <1>9. ClientInd'
    BY <1>4, <1>6, <1>7, <1>8, Concluded
  <1> QED BY <1>4, <1>9

LEMMA GivesUpSelf == \A g : GivesUp(sdk, g)
  BY DEF GivesUp

\* Caller c gives up with an error.
LEMMA GivesUpOne ==
    ASSUME TablesOK(sdk, gateways), NEW c \in SdkCallers, sdk[c].pc \in {"write", "wait"},
           NEW callers, SetOnly(sdk, callers, c),
           Stepped(sdk[c], callers[c], "wait", Failure, sdk[c].gw)
    PROVE  callers \in [SdkCallers -> CallerType] /\ GivesUp(callers, sdk[c].gw)
  <1>1. sdk \in [SdkCallers -> CallerType] /\ sdk[c] \in CallerType /\ sdk[c].gw \in Nat
    BY TableFacts DEF TablesOK, CallerType
  <1>2. "wait" \in CallSteps /\ Failure \in Futures
    BY DEF CallSteps, Requesting, Futures
  <1>3. /\ callers[c].pc = "wait" /\ callers[c].fut = Failure
        /\ SameCall(sdk[c], callers[c]) /\ CallerOnly(sdk, callers, c)
    BY <1>1, <1>2, CallerStep
  <1>4. Advances(sdk[c], callers[c])
    BY <1>3 DEF Advances
  <1>5. \A h \in DOMAIN gateways : h # sdk[c].gw => c \notin Range(gateways[h].pending)
    BY TableFacts
  <1> QED BY <1>3, <1>4, <1>5 DEF GivesUp, CallerOnly

LEMMA RegisterStep ==
    ASSUME ClientInd, NEW c \in SdkCallers, Register(c)
    PROVE  ClientInd' /\ ClientMoves
  <1>0. /\ sdk[c].pc = "register" /\ program # NoProgram /\ program' = program /\ ~TypeScript
        /\ tracked' = tracked /\ sdkLog' = sdkLog /\ current' = current /\ closing' = closing
    BY DEF Register, Python, TypeScript
  <1>1. /\ TablesOK(sdk, gateways) /\ gateways \in Seq(GatewayType)
        /\ sdk \in [SdkCallers -> CallerType] /\ sdk[c] \in CallerType /\ InNoTable(gateways, c)
        /\ Len(gateways) \in Nat /\ DOMAIN gateways = 1..Len(gateways)
        /\ current \in 0..Len(gateways) /\ CallerShape(sdk[c]) /\ sdk[c].gw \in Nat
    BY <1>0, BasicFacts
  <1> DEFINE g == sdk[c].gw
  <1>2. g \in DOMAIN gateways /\ gateways[g] \in GatewayType
    BY <1>0, <1>1, ChildFacts DEF TablesOK
  <1>3. CASE Raise(c) /\ gateways' = gateways
    <2>1. /\ TablesOK(sdk', gateways') /\ PipesMove
          /\ \A d \in SdkCallers : Moves(sdk[d], sdk'[d])
      BY <1>0, <1>1, <1>3, RaiseStep
    <2>2. ClientInd'
      BY <1>0, <1>1, <1>3, <2>1, Concluded DEF ClientInd
    <2> QED BY <1>0, <2>1, <2>2 DEF ClientMoves
  <1>4. CASE /\ ~gateways[g].dead
             /\ gateways' = [gateways EXCEPT ![g].pending = Append(@, c)]
             /\ sdk' = [sdk EXCEPT ![c].fut = Silence, ![c].pc = "write"]
    <2> DEFINE cs == sdk'
               gs == gateways'
               x == [gateways[g] EXCEPT !.pending = Append(@, c)]
    <2>1. cs = [sdk EXCEPT ![c] = [sdk[c] EXCEPT !.fut = Silence, !.pc = "write"]]
      BY <1>1, <1>4
    <2>2. gs = [gateways EXCEPT ![g] = x]
      BY <1>1, <1>4
    <2>3. /\ x \in GatewayType /\ x.pending = Append(gateways[g].pending, c) /\ x.dead = FALSE
          /\ x.inbox = gateways[g].inbox /\ x.outbox = gateways[g].outbox
          /\ gateways[g].dead = FALSE
      <3>1. gateways[g].pending \in Seq(SdkCallers) /\ gateways[g].dead \in BOOLEAN
        BY <1>2 DEF GatewayType
      <3>2. Append(gateways[g].pending, c) \in Seq(SdkCallers)
        BY <3>1
      <3> QED BY <1>2, <1>4, <3>1, <3>2 DEF GatewayType
    <2> HIDE DEF cs, gs, x
    <2>4. ChildOnly(gateways, gs, g) /\ gs[g] = x
      BY <1>1, <1>2, <2>2, <2>3 DEF ChildOnly
    <2>5. SetOnly(sdk, cs, c) /\ cs[c] = [sdk[c] EXCEPT !.fut = Silence, !.pc = "write"]
      BY <1>1, <2>1, ExceptCaller
    <2>6. Stepped(sdk[c], cs[c], "write", Silence, g)
      BY <1>1, <2>5, SteppedFacts
    <2>7. /\ cs[c].pc = "write" /\ cs[c].fut = Silence /\ cs[c].gw = g
          /\ SameCall(sdk[c], cs[c]) /\ CallerOnly(sdk, cs, c)
      <3>1. "write" \in CallSteps /\ Silence \in Futures
        BY DEF CallSteps, Requesting, Futures
      <3> QED BY <1>1, <2>5, <2>6, <3>1, CallerStep
    <2>8. TablesOK(cs, gs)
      BY <1>1, <1>2, <2>3, <2>4, <2>7, Entering DEF Waiting
    <2>9. PipesMove
      BY <1>1, <1>2, <2>3, <2>4, PipesOne DEF gs
    <2>10. ASSUME NEW d \in SdkCallers PROVE Moves(sdk[d], sdk'[d])
      <3>1. CASE d = c
        BY <1>0, <2>7, <3>1 DEF Moves, Advances, Heeds, cs
      <3>2. CASE d # c
        BY <2>7, <3>2, MovesRefl DEF CallerOnly, cs
      <3> QED BY <3>1, <3>2
    <2>11. ClientInd'
      <3>1. Len(gs) = Len(gateways)
        BY <2>4 DEF ChildOnly
      <3>2. gs # <<>>
        <4>1. Len(<<>>) = 0
          OBVIOUS
        <4> QED BY <1>1, <1>2, <3>1, <4>1
      <3> QED BY <1>0, <1>1, <2>8, <3>1, <3>2, Concluded DEF ClientInd, cs, gs
    <2> QED BY <1>0, <2>9, <2>10, <2>11 DEF ClientMoves
  <1> QED BY <1>3, <1>4 DEF Register

\* A caller that has written its line waits.
LEMMA Writing ==
    ASSUME NEW callers, NEW gs, TablesOK(callers, gs), NEW c \in SdkCallers,
           callers[c].pc = "write", NEW callers2, CallerOnly(callers, callers2, c),
           callers2[c].pc = "wait", callers2[c].fut = callers[c].fut, callers2[c].gw = callers[c].gw
    PROVE  TablesOK(callers2, gs)
  <1>1. \A d \in SdkCallers :
           /\ Waiting(callers2[d]) <=> Waiting(callers[d])
           /\ callers2[d].gw = callers[d].gw
           /\ callers2[d].pc = "done" <=> callers[d].pc = "done"
           /\ callers2[d].pc \in {"register", "write"} => callers[d].pc \in {"register", "write"}
    BY DEF CallerOnly, Waiting
  <1>2. \A g \in DOMAIN gs : \A d \in Range(gs[g].pending) : d \in SdkCallers
    BY ChildFacts DEF TablesOK
  <1> QED BY <1>1, <1>2 DEF TablesOK, CallerOnly

LEMMA WriteStep ==
    ASSUME ClientInd, NEW c \in SdkCallers, Write(c)
    PROVE  ClientInd' /\ ClientMoves
  <1>0. /\ sdk[c].pc = "write" /\ program # NoProgram /\ program' = program /\ ~TypeScript
        /\ tracked' = tracked /\ sdkLog' = sdkLog /\ current' = current /\ closing' = closing
    BY DEF Write, Python, TypeScript
  <1>1. /\ TablesOK(sdk, gateways) /\ gateways \in Seq(GatewayType)
        /\ sdk \in [SdkCallers -> CallerType] /\ sdk[c] \in CallerType
        /\ Len(gateways) \in Nat /\ DOMAIN gateways = 1..Len(gateways)
        /\ current \in 0..Len(gateways) /\ CallerShape(sdk[c]) /\ sdk[c].gw \in Nat
        /\ sdk[c].fut \in Futures
    BY BasicFacts
  <1> DEFINE g == sdk[c].gw
  <1>2. g \in DOMAIN gateways /\ gateways[g] \in GatewayType
    BY <1>0, <1>1, ChildFacts DEF TablesOK
  <1>3. CASE Fail(g, [sdk EXCEPT ![c].fut = Failure, ![c].pc = "wait"])
    <2> DEFINE cs == [sdk EXCEPT ![c].fut = Failure, ![c].pc = "wait"]
    <2>1. cs = [sdk EXCEPT ![c] = [sdk[c] EXCEPT !.fut = Failure, !.pc = "wait"]]
      BY <1>1
    <2> HIDE DEF cs
    <2>2. SetOnly(sdk, cs, c) /\ cs[c] = [sdk[c] EXCEPT !.fut = Failure, !.pc = "wait"]
      BY <1>1, <2>1, ExceptCaller
    <2>3. Stepped(sdk[c], cs[c], "wait", Failure, g)
      BY <1>1, <2>2, SteppedFacts
    <2>4. cs \in [SdkCallers -> CallerType] /\ GivesUp(cs, g)
      BY <1>0, <1>1, <2>2, <2>3, GivesUpOne
    <2>5. Fail(g, cs) /\ closing' \in {"no", "waiting", "closed"}
      BY <1>0, <1>3 DEF cs, ClientInd
    <2> QED BY <1>0, <1>2, <2>4, <2>5, FailConcluded DEF ClientMoves
  <1>4. CASE /\ gateways' = [gateways EXCEPT ![g].inbox = Append(@, Line(c))]
             /\ sdk' = [sdk EXCEPT ![c].pc = "wait"]
    <2> DEFINE cs == sdk'
               gs == gateways'
               x == [gateways[g] EXCEPT !.inbox = Append(@, Line(c))]
    <2>1. cs = [sdk EXCEPT ![c] = [sdk[c] EXCEPT !.pc = "wait"]]
      BY <1>1, <1>4
    <2>2. gs = [gateways EXCEPT ![g] = x]
      BY <1>1, <1>4
    <2>3. /\ x \in GatewayType /\ x.pending = gateways[g].pending /\ x.dead = gateways[g].dead
          /\ x.inbox = Append(gateways[g].inbox, Line(c)) /\ x.outbox = gateways[g].outbox
      <3>1. Line(c) \in LineType
        BY <1>1 DEF Line, LineType, CallerType
      <3>2. gateways[g].inbox \in Seq(LineType)
        BY <1>2 DEF GatewayType
      <3>3. Append(gateways[g].inbox, Line(c)) \in Seq(LineType)
        BY <3>1, <3>2
      <3> QED BY <1>2, <3>3 DEF GatewayType
    <2> HIDE DEF cs, gs, x
    <2>4. ChildOnly(gateways, gs, g) /\ gs[g] = x
      BY <1>1, <1>2, <2>2, <2>3 DEF ChildOnly
    <2>5. SetOnly(sdk, cs, c) /\ cs[c] = [sdk[c] EXCEPT !.pc = "wait"]
      BY <1>1, <2>1, ExceptCaller
    <2>6. Stepped(sdk[c], cs[c], "wait", sdk[c].fut, g)
      BY <1>1, <2>5, SteppedFacts
    <2>7. /\ cs[c].pc = "wait" /\ cs[c].fut = sdk[c].fut /\ cs[c].gw = g
          /\ SameCall(sdk[c], cs[c]) /\ CallerOnly(sdk, cs, c)
      <3>1. "wait" \in CallSteps
        BY DEF CallSteps, Requesting
      <3> QED BY <1>1, <2>5, <2>6, <3>1, CallerStep
    <2>8. TablesOK(cs, gateways)
      BY <1>0, <1>1, <2>7, Writing
    <2>9. TablesOK(cs, gs)
      BY <1>2, <2>3, <2>4, <2>8, Touching
    <2>10. DOMAIN gs = DOMAIN gateways /\ \A h \in DOMAIN gateways : h # g => gs[h] = gateways[h]
      BY <1>1, <1>2, <2>4, ChildOnlyFacts, ZenonT(40)
    <2>11. PipesMove
      <3>1. SentTo(c, g)
        BY <1>0, <1>2, <2>3, <2>4, <2>7, <2>10 DEF SentTo, OldInbox, cs, gs
      <3>2. \A h \in DOMAIN gs : gs[h].outbox = OldOutbox(h)
        BY <2>3, <2>4, <2>10 DEF OldOutbox
      <3> QED BY <1>2, <2>10, <3>1, <3>2 DEF PipesMove, gs
    <2>12. ASSUME NEW d \in SdkCallers PROVE Moves(sdk[d], sdk'[d])
      <3>1. CASE d = c
        BY <1>0, <2>7, <3>1 DEF Moves, Advances, Heeds, cs
      <3>2. CASE d # c
        BY <2>7, <3>2, MovesRefl DEF CallerOnly, cs
      <3> QED BY <3>1, <3>2
    <2>13. ClientInd'
      <3>1. Len(gs) = Len(gateways)
        BY <2>4 DEF ChildOnly
      <3>2. gs # <<>>
        <4>1. Len(<<>>) = 0
          OBVIOUS
        <4> QED BY <1>1, <1>2, <3>1, <4>1
      <3> QED BY <1>0, <1>1, <2>9, <3>1, <3>2, Concluded DEF ClientInd, cs, gs
    <2> QED BY <1>0, <2>11, <2>12, <2>13 DEF ClientMoves
  <1> QED BY <1>3, <1>4 DEF Write

\* The first line a child has written answers c.
LEMMA DeliveredStep ==
    ASSUME ClientInd, program # NoProgram, program' = program, NEW g \in DOMAIN gateways,
           NEW a, a = Head(gateways[g].outbox), gateways[g].outbox # <<>>, a.kind # "bad",
           a.caller \in Range(gateways[g].pending), Delivered(g, a.caller, a),
           current' = current, closing' = closing
    PROVE  /\ ClientInd' /\ PipesMove
           /\ \A d \in SdkCallers : Moves(sdk[d], sdk'[d])
  <1> DEFINE c == a.caller
             box == gateways[g].outbox
  <1>1. gateways \in Seq(GatewayType) /\ gateways[g] \in GatewayType /\ c \in SdkCallers
        /\ gateways[g].pending \in Seq(SdkCallers)
    BY ChildFacts DEF ClientInd, TablesOK
  <1>2. /\ TablesOK(sdk, gateways) /\ sdk \in [SdkCallers -> CallerType] /\ sdk[c] \in CallerType
        /\ Len(gateways) \in Nat /\ DOMAIN gateways = 1..Len(gateways)
        /\ current \in 0..Len(gateways) /\ CallerShape(sdk[c]) /\ sdk[c].gw \in Nat
        /\ sdk[c].fut \in Futures
    BY <1>1, BasicFacts
  <1>3. box \in Seq(AnswerType \cup {BadAnswer}) /\ Tail(box) \in Seq(AnswerType \cup {BadAnswer})
        /\ 1 \in DOMAIN box /\ a = box[1]
    <2>1. box \in Seq(AnswerType \cup {BadAnswer})
      BY <1>1 DEF GatewayType
    <2> HIDE DEF box
    <2> QED BY <2>1 DEF box
  <1>4. a \in AnswerType /\ a # Silence
    <2>1. a \in AnswerType \cup {BadAnswer}
      BY <1>3
    <2> QED BY <2>1, FutFacts
  <1> DEFINE f == IF sdk[c].fut = Silence THEN a ELSE sdk[c].fut
             cs == sdk'
             gs == gateways'
             x == [gateways[g] EXCEPT !.outbox = Tail(@), !.pending = RemoveFirst(@, c)]
  <1>5. f \in Futures /\ f # Silence
    BY <1>2, <1>4 DEF Futures
  <1>6. cs = [sdk EXCEPT ![c] = [sdk[c] EXCEPT !.fut = f]]
    BY <1>2 DEF Delivered
  <1>7. gs = [gateways EXCEPT ![g] = x]
    <2> HIDE DEF c
    <2>1. gs = [gateways EXCEPT ![g].outbox = Tail(@), ![g].pending = RemoveFirst(@, c)]
      BY DEF Delivered, c
    <2> QED BY <1>1, <2>1
  <1>8. /\ x \in GatewayType /\ x.pending = RemoveFirst(gateways[g].pending, c)
        /\ x.dead = gateways[g].dead /\ x.inbox = gateways[g].inbox /\ x.outbox = Tail(box)
    <2>1. RemoveFirst(gateways[g].pending, c) \in Seq(SdkCallers)
      BY <1>1, <1>2, RemovedFacts DEF TablesOK
    <2> HIDE DEF c
    <2> QED BY <1>1, <1>3, <2>1 DEF GatewayType
  <1> HIDE DEF c, box, f, cs, gs, x
  <1>9. ChildOnly(gateways, gs, g) /\ gs[g] = x
    BY <1>1, <1>2, <1>7, <1>8 DEF ChildOnly
  <1>10. SetOnly(sdk, cs, c) /\ cs[c] = [sdk[c] EXCEPT !.fut = f]
    BY <1>1, <1>2, <1>6, ExceptCaller
  <1>11. Stepped(sdk[c], cs[c], sdk[c].pc, f, sdk[c].gw)
    BY <1>2, <1>10, SteppedFacts
  <1>12. /\ cs[c].pc = sdk[c].pc /\ cs[c].fut = f /\ cs[c].gw = sdk[c].gw
         /\ SameCall(sdk[c], cs[c]) /\ CallerOnly(sdk, cs, c)
    <2>1. sdk[c].pc \in CallSteps
      BY <1>2 DEF CallerType, CallSteps
    <2> QED BY <1>1, <1>2, <1>5, <1>10, <1>11, <2>1, CallerStep
  <1>13. TablesOK(cs, gs)
    <2>1. c \in Range(gateways[g].pending)
      BY DEF c
    <2> QED BY <1>2, <1>5, <1>8, <1>9, <1>12, <2>1, Leaving
  <1>14. PipesMove
    BY <1>1, <1>8, <1>9, PipesOne DEF gs, box
  <1>15. ASSUME NEW d \in SdkCallers PROVE Moves(sdk[d], sdk'[d])
    <2>1. CASE d = c
      <3>1. Heeds(sdk[c], cs[c])
        BY <1>3, <1>12 DEF Heeds, f, box
      <3> QED BY <1>12, <2>1, <3>1 DEF Moves, Advances, cs
    <2>2. CASE d # c
      BY <1>12, <2>2, MovesRefl DEF CallerOnly, cs
    <2> QED BY <2>1, <2>2
  <1>16. ClientInd'
    <2>1. Len(gs) = Len(gateways)
      BY <1>9 DEF ChildOnly
    <2>2. gs # <<>>
      <3>1. Len(<<>>) = 0
        OBVIOUS
      <3> QED BY <1>2, <2>1, <3>1
    <2>3. DOMAIN gs = DOMAIN gateways /\ \A h \in DOMAIN gateways : gs[h].dead = gateways[h].dead
      BY <1>1, <1>8, <1>9, ChildOnlyFacts
    <2> QED BY <1>2, <1>13, <2>1, <2>2, <2>3, Concluded DEF ClientInd, cs, gs
  <1> QED BY <1>14, <1>15, <1>16

LEMMA ReadStep ==
    ASSUME ClientInd, NEW g \in DOMAIN gateways, Read(g)
    PROVE  ClientInd' /\ ClientMoves
  <1>0. /\ program # NoProgram /\ program' = program /\ ~TypeScript /\ gateways[g].outbox # <<>>
        /\ tracked' = tracked /\ sdkLog' = sdkLog /\ current' = current /\ closing' = closing
        /\ closing' \in {"no", "waiting", "closed"}
    BY DEF Read, Python, TypeScript, ClientInd
  <1>1. sdk \in [SdkCallers -> CallerType]
    BY DEF ClientInd, TablesOK
  <1> DEFINE a == Head(gateways[g].outbox)
  <1>2. CASE a.kind # "bad" /\ a.caller \in Range(gateways[g].pending) /\ Delivered(g, a.caller, a)
    <2> HIDE DEF a
    <2>1. a = Head(gateways[g].outbox)
      BY DEF a
    <2> QED BY <1>0, <1>2, <2>1, DeliveredStep DEF ClientMoves
  <1>3. CASE Fail(g, sdk)
    BY <1>0, <1>1, <1>3, FailConcluded, GivesUpSelf DEF ClientMoves
  <1> QED BY <1>2, <1>3 DEF Read

LEMMA ReadEofStep ==
    ASSUME ClientInd, NEW g \in DOMAIN gateways, ReadEof(g)
    PROVE  ClientInd' /\ ClientMoves
  <1>0. /\ program # NoProgram /\ program' = program /\ ~TypeScript /\ Fail(g, sdk)
        /\ tracked' = tracked /\ sdkLog' = sdkLog /\ current' = current /\ closing' = closing
        /\ closing' \in {"no", "waiting", "closed"}
    BY DEF ReadEof, Python, TypeScript, ClientInd
  <1>1. sdk \in [SdkCallers -> CallerType]
    BY DEF ClientInd, TablesOK
  <1> QED BY <1>0, <1>1, FailConcluded, GivesUpSelf DEF ClientMoves

LEMMA TimesOutStep ==
    ASSUME ClientInd, NEW c \in SdkCallers, TimesOut(c)
    PROVE  ClientInd' /\ ClientMoves
  <1>0. /\ program # NoProgram /\ program' = program /\ ~TypeScript
        /\ sdk[c].pc = "wait" /\ sdk[c].fut = Silence
        /\ Fail(sdk[c].gw, [sdk EXCEPT ![c].fut = Failure])
        /\ tracked' = tracked /\ sdkLog' = sdkLog /\ current' = current /\ closing' = closing
        /\ closing' \in {"no", "waiting", "closed"}
    BY DEF TimesOut, Python, TypeScript, ClientInd
  <1>1. /\ TablesOK(sdk, gateways) /\ sdk \in [SdkCallers -> CallerType] /\ CallerShape(sdk[c])
    BY BasicFacts
  <1>2. sdk[c].gw \in DOMAIN gateways
    BY <1>0, <1>1 DEF TablesOK, Waiting
  <1> DEFINE cs == [sdk EXCEPT ![c].fut = Failure]
  <1>3. cs = [sdk EXCEPT ![c] = [sdk[c] EXCEPT !.fut = Failure]]
    BY <1>1
  <1>4. Fail(sdk[c].gw, cs)
    BY <1>0
  <1> HIDE DEF cs
  <1>5. SetOnly(sdk, cs, c) /\ cs[c] = [sdk[c] EXCEPT !.fut = Failure]
    BY <1>1, <1>3, ExceptCaller
  <1>6. Stepped(sdk[c], cs[c], "wait", Failure, sdk[c].gw)
    BY <1>0, <1>1, <1>5, SteppedFacts
  <1>7. cs \in [SdkCallers -> CallerType] /\ GivesUp(cs, sdk[c].gw)
    BY <1>0, <1>1, <1>5, <1>6, GivesUpOne
  <1> QED BY <1>0, <1>2, <1>4, <1>7, FailConcluded DEF ClientMoves

LEMMA CancelledStep ==
    ASSUME ClientInd, NEW c \in SdkCallers, Cancelled(c)
    PROVE  ClientInd' /\ ClientMoves
  <1>0. /\ program # NoProgram /\ program' = program /\ ~TypeScript
        /\ sdk[c].pc = "wait" /\ gateways' = gateways
        /\ sdk' = [sdk EXCEPT ![c].fut = Failure, ![c].gw = 0, ![c].pc = "done"]
        /\ tracked' = tracked /\ sdkLog' = sdkLog /\ current' = current /\ closing' = closing
    BY DEF Cancelled, clientVars, Python, TypeScript
  <1>1. /\ TablesOK(sdk, gateways) /\ sdk \in [SdkCallers -> CallerType] /\ CallerShape(sdk[c])
    BY BasicFacts
  <1>2. sdk' = [sdk EXCEPT ![c] = [sdk[c] EXCEPT !.fut = Failure, !.gw = 0, !.pc = "done"]]
    BY <1>0, <1>1
  <1>3. SetOnly(sdk, sdk', c) /\ sdk'[c] = [sdk[c] EXCEPT !.fut = Failure, !.gw = 0, !.pc = "done"]
    BY <1>1, <1>2, ExceptCaller
  <1>4. Stepped(sdk[c], sdk'[c], "done", Failure, 0)
    BY <1>1, <1>3, SteppedFacts
  <1>5. Advances(sdk[c], sdk'[c])
    BY <1>0, <1>1, <1>4, RecordStep DEF Advances
  <1>6. /\ TablesOK(sdk', gateways') /\ PipesMove
        /\ \A d \in SdkCallers : Moves(sdk[d], sdk'[d])
    BY <1>0, <1>1, <1>3, <1>4, <1>5, SetStep, FutFacts DEF CallSteps
  <1>7. ClientInd'
    BY <1>0, <1>6, Concluded DEF ClientInd
  <1> QED BY <1>0, <1>6, <1>7 DEF ClientMoves

\* A step that only touches what else child g keeps.
LEMMA TouchStep ==
    ASSUME ClientInd, NEW g \in DOMAIN gateways, ChildOnly(gateways, gateways', g),
           gateways'[g].dead = gateways[g].dead, gateways'[g].pending = gateways[g].pending,
           sdk' = sdk, program' = program, current' = current,
           closing' \in {"no", "waiting", "closed"}
    PROVE  ClientInd' /\ DOMAIN gateways' = DOMAIN gateways
  <1>1. /\ TablesOK(sdk, gateways) /\ gateways \in Seq(GatewayType) /\ current \in 0..Len(gateways)
        /\ DOMAIN gateways = 1..Len(gateways) /\ Len(gateways) \in Nat
    BY SeqDomain DEF ClientInd, TablesOK
  <1> DEFINE gs == gateways'
  <1>2. /\ DOMAIN gs = DOMAIN gateways /\ Len(gs) = Len(gateways)
        /\ \A h \in DOMAIN gateways : gs[h].dead = gateways[h].dead
    BY <1>1, ChildOnlyFacts DEF ChildOnly
  <1> HIDE DEF gs
  <1>3. TablesOK(sdk, gs)
    BY <1>1, Touching DEF gs
  <1>4. gs # <<>>
    <2>1. Len(<<>>) = 0
      OBVIOUS
    <2> QED BY <1>1, <1>2, <2>1
  <1>5. program # NoProgram
    <2>1. DOMAIN <<>> = {}
      OBVIOUS
    <2> QED BY <2>1 DEF ClientInd, Idle
  <1>6. TypeScript => \A h \in DOMAIN gs : gs[h].dead = FALSE <=> h = current
    BY <1>2 DEF ClientInd
  <1>7. sdk' = sdk /\ gateways' = gs
    BY DEF gs
  <1>8. ClientInd'
    BY <1>1, <1>2, <1>3, <1>4, <1>5, <1>6, <1>7, Concluded
  <1> QED BY <1>2, <1>8 DEF gs

LEMMA CloseStep ==
    ASSUME ClientInd, Close
    PROVE  ClientInd' /\ ClientMoves
  <1>0. /\ program # NoProgram /\ program' = program /\ ~TypeScript /\ current' = 0
        /\ tracked' = tracked /\ sdkLog' = sdkLog
    BY DEF Close, Python, TypeScript
  <1>1. /\ TablesOK(sdk, gateways) /\ gateways \in Seq(GatewayType) /\ current \in 0..Len(gateways)
        /\ DOMAIN gateways = 1..Len(gateways) /\ Len(gateways) \in Nat
        /\ sdk \in [SdkCallers -> CallerType]
    BY SeqDomain DEF ClientInd, TablesOK
  <1>2. CASE closing' = "closed" /\ gateways' = gateways /\ sdk' = sdk
    <2>1. ClientInd'
      <3>1. /\ TablesOK(sdk', gateways') /\ current' \in 0..Len(gateways')
            /\ closing' \in {"no", "waiting", "closed"} /\ closing' # "waiting"
        BY <1>0, <1>1, <1>2
      <3> QED BY <1>0, <3>1, Concluded
    <2> QED BY <1>0, <1>2, <2>1, MovesRefl, PipesRefl DEF ClientMoves
  <1>3. CASE /\ current # 0 /\ closing' = "waiting" /\ sdk' = FailedIn(current, sdk)
             /\ gateways' = [GivenUp(current) EXCEPT ![current].doomed = gateways[current].doomed,
                                                     ![current].eof = TRUE]
    <2> DEFINE g == current
               gs == gateways'
    <2>1. g \in DOMAIN gateways
      BY <1>1, <1>3
    <2>2. gs = [GivenUp(g) EXCEPT ![g].doomed = gateways[g].doomed, ![g].eof = TRUE]
      BY <1>3
    <2> HIDE DEF g, gs
    <2>3. /\ ChildOnly(gateways, gs, g) /\ gs[g].dead = TRUE /\ gs[g].pending = <<>>
          /\ gs[g].inbox = gateways[g].inbox /\ gs[g].outbox = <<>>
      BY <1>1, <2>1, <2>2, ClosedFacts
    <2>4. sdk' = FailedIn(g, sdk)
      BY <1>3 DEF g
    <2>5. /\ TablesOK(sdk', gateways') /\ PipesMove
          /\ \A c \in SdkCallers : Moves(sdk[c], sdk'[c])
      BY <1>1, <2>1, <2>3, <2>4, FailStep, GivesUpSelf DEF gs
    <2>6. Len(gs) = Len(gateways)
      BY <2>3 DEF ChildOnly
    <2>7. gs # <<>>
      <3>1. Len(<<>>) = 0
        OBVIOUS
      <3> QED BY <1>1, <2>1, <2>6, <3>1
    <2>8. ClientInd'
      <3>1. closing' = "waiting" /\ 0 \in 0..Len(gs)
        BY <1>1, <1>3, <2>6
      <3> QED BY <1>0, <2>5, <2>7, <3>1, Concluded DEF gs
    <2> QED BY <1>0, <2>5, <2>8 DEF ClientMoves
  <1> QED BY <1>2, <1>3 DEF Close

\* A step of the client that only touches what else child g keeps.
LEMMA TouchMoves ==
    ASSUME ClientInd, NEW g \in DOMAIN gateways, ChildOnly(gateways, gateways', g),
           gateways'[g].dead = gateways[g].dead, gateways'[g].pending = gateways[g].pending,
           gateways'[g].inbox = gateways[g].inbox, gateways'[g].outbox = gateways[g].outbox,
           sdk' = sdk, program' = program, current' = current,
           closing' \in {"no", "waiting", "closed"}, tracked' = tracked, sdkLog' = sdkLog
    PROVE  ClientInd' /\ ClientMoves
  <1>1. ClientInd'
    BY TouchStep
  <1>2. PipesMove
    BY PipesOne DEF ClientInd, TablesOK
  <1> QED BY <1>1, <1>2, MovesRefl DEF ClientMoves

LEMMA CloseReturnsStep ==
    ASSUME ClientInd, CloseReturns
    PROVE  ClientInd' /\ ClientMoves
  <1> DEFINE g == Len(gateways)
             x == [gateways[g] EXCEPT !.doomed = @ \/ gateways[g].up]
  <1>1. g \in DOMAIN gateways /\ gateways \in Seq(GatewayType) /\ gateways[g] \in GatewayType
    <2>1. gateways # <<>> /\ gateways \in Seq(GatewayType)
      BY DEF CloseReturns, ClientInd, TablesOK
    <2>2. g \in DOMAIN gateways
      BY <2>1
    <2> QED BY <2>1, <2>2, ChildFacts
  <1>2. gateways' = [gateways EXCEPT ![g] = x]
    BY <1>1 DEF CloseReturns
  <1>3. /\ x \in GatewayType /\ x.pending = gateways[g].pending /\ x.dead = gateways[g].dead
        /\ x.inbox = gateways[g].inbox /\ x.outbox = gateways[g].outbox
    BY <1>1 DEF GatewayType
  <1> HIDE DEF x
  <1>4. ChildOnly(gateways, gateways', g) /\ gateways'[g] = x
    BY <1>1, <1>2, <1>3 DEF ChildOnly
  <1>5. /\ sdk' = sdk /\ program' = program /\ current' = current
        /\ closing' \in {"no", "waiting", "closed"} /\ tracked' = tracked /\ sdkLog' = sdkLog
    BY DEF CloseReturns
  <1> HIDE DEF g
  <1> QED BY <1>1, <1>3, <1>4, <1>5, TouchMoves
-----------------------------------------------------------------------------
(***************************************************************************)
(* The steps of the TypeScript client                                      *)
(***************************************************************************)
\* The current child is given up by one who waits for it, or by its reader.
LEMMA PoisonConcluded ==
    ASSUME ClientInd, TypeScript, program' = program, current # 0,
           NEW callers \in [SdkCallers -> CallerType], GivesUp(callers, current), Poison(callers),
           closing' \in {"no", "waiting", "closed"}
    PROVE  /\ ClientInd' /\ PipesMove
           /\ \A c \in SdkCallers : Moves(sdk[c], sdk'[c])
  <1>1. current \in DOMAIN gateways
    <2>1. current \in 0..Len(gateways) /\ DOMAIN gateways = 1..Len(gateways) /\ Len(gateways) \in Nat
      BY SeqDomain DEF ClientInd, TablesOK
    <2> QED BY <2>1
  <1>2. Fail(current, callers) /\ current' = 0 /\ program # NoProgram
    BY DEF Poison, Fail, TypeScript
  <1> QED BY <1>1, <1>2, FailConcluded

LEMMA PoisonStep ==
    ASSUME ClientInd, TypeScript, program' = program, current # 0, Poison(sdk),
           closing' \in {"no", "waiting", "closed"}, tracked' = tracked, sdkLog' = sdkLog
    PROVE  ClientInd' /\ ClientMoves
  <1>1. sdk \in [SdkCallers -> CallerType] /\ GivesUp(sdk, current)
    BY GivesUpSelf DEF ClientInd, TablesOK
  <1> QED BY <1>1, PoisonConcluded DEF ClientMoves

LEMMA OnLineStep ==
    ASSUME ClientInd, OnLine
    PROVE  ClientInd' /\ ClientMoves
  <1>0. /\ TypeScript /\ program # NoProgram /\ program' = program /\ current # 0
        /\ gateways[current].outbox # <<>>
        /\ tracked' = tracked /\ sdkLog' = sdkLog /\ closing' = closing
        /\ closing' \in {"no", "waiting", "closed"}
    BY DEF OnLine, TypeScript, ClientInd
  <1>1. current \in DOMAIN gateways /\ gateways \in Seq(GatewayType)
    <2>1. /\ current \in 0..Len(gateways) /\ DOMAIN gateways = 1..Len(gateways)
          /\ Len(gateways) \in Nat /\ gateways \in Seq(GatewayType)
      BY SeqDomain DEF ClientInd, TablesOK
    <2> QED BY <1>0, <2>1
  <1> DEFINE a == Head(gateways[current].outbox)
             queue == gateways[current].pending
  <1>2. CASE /\ a.kind # "bad" /\ queue # <<>> /\ a.caller = Head(queue)
             /\ Delivered(current, a.caller, a) /\ current' = current
    <2>1. queue \in Seq(SdkCallers)
      BY <1>1, ChildFacts
    <2> HIDE DEF a
    <2>2. a = Head(gateways[current].outbox) /\ a.kind # "bad"
      BY <1>2 DEF a
    <2>3. a.caller \in Range(queue)
      <3>1. Head(queue) = queue[1] /\ 1 \in DOMAIN queue
        BY <1>2, <2>1
      <3> QED BY <1>2, <3>1 DEF Range
    <2> QED BY <1>0, <1>1, <1>2, <2>2, <2>3, DeliveredStep DEF ClientMoves
  <1>3. CASE Poison(sdk)
    BY <1>0, <1>3, PoisonStep
  <1> QED BY <1>2, <1>3 DEF OnLine

LEMMA OnCloseStep ==
    ASSUME ClientInd, OnClose
    PROVE  ClientInd' /\ ClientMoves
  <1>0. /\ TypeScript /\ program' = program /\ current # 0 /\ Poison(sdk)
        /\ tracked' = tracked /\ sdkLog' = sdkLog /\ closing' \in {"no", "waiting", "closed"}
    BY DEF OnClose, ClientInd
  <1> QED BY <1>0, PoisonStep

LEMMA TsTimesOutStep ==
    ASSUME ClientInd, NEW c \in SdkCallers, TsTimesOut(c)
    PROVE  ClientInd' /\ ClientMoves
  <1>0. /\ TypeScript /\ program' = program /\ Poison(sdk) /\ Waiting(sdk[c])
        /\ tracked' = tracked /\ sdkLog' = sdkLog /\ closing' \in {"no", "waiting", "closed"}
    BY DEF TsTimesOut, ClientInd, Waiting
  <1>1. current # 0
    <2>1. sdk[c].gw \in DOMAIN gateways /\ gateways[sdk[c].gw].dead = FALSE
      BY <1>0 DEF ClientInd, TablesOK
    <2>2. sdk[c].gw = current /\ 0 \notin DOMAIN gateways
      BY <1>0, <2>1, SeqDomain DEF ClientInd, TablesOK
    <2> QED BY <2>1, <2>2
  <1> QED BY <1>0, <1>1, PoisonStep

LEMMA TsCloseStep ==
    ASSUME ClientInd, TsClose
    PROVE  ClientInd' /\ ClientMoves
  <1>0. /\ TypeScript /\ program # NoProgram /\ program' = program
        /\ tracked' = tracked /\ sdkLog' = sdkLog
    BY DEF TsClose, TypeScript
  <1>1. /\ TablesOK(sdk, gateways) /\ gateways \in Seq(GatewayType) /\ current \in 0..Len(gateways)
        /\ DOMAIN gateways = 1..Len(gateways) /\ Len(gateways) \in Nat
    BY SeqDomain DEF ClientInd, TablesOK
  <1>2. CASE closing' = "closed" /\ gateways' = gateways /\ sdk' = sdk /\ current' = current
    <2>1. /\ TablesOK(sdk', gateways') /\ current' \in 0..Len(gateways')
          /\ closing' \in {"no", "waiting", "closed"} /\ closing' # "waiting"
      BY <1>1, <1>2
    <2>2. \A g \in DOMAIN gateways' : gateways'[g].dead = FALSE <=> g = current'
      BY <1>0, <1>2 DEF ClientInd
    <2>3. ClientInd'
      BY <1>0, <2>1, <2>2, Concluded
    <2> QED BY <1>0, <1>2, <2>3, MovesRefl, PipesRefl DEF ClientMoves
  <1>3. CASE /\ closing' = "waiting" /\ current # 0 /\ sdk' = sdk /\ current' = current
             /\ gateways' = [gateways EXCEPT ![current].eof = TRUE]
    <2> DEFINE x == [gateways[current] EXCEPT !.eof = TRUE]
    <2>1. current \in DOMAIN gateways /\ gateways[current] \in GatewayType
      BY <1>1, <1>3, SeqDomain
    <2>2. /\ x \in GatewayType /\ x.pending = gateways[current].pending
          /\ x.dead = gateways[current].dead /\ x.inbox = gateways[current].inbox
          /\ x.outbox = gateways[current].outbox
      BY <2>1 DEF GatewayType
    <2>3. gateways' = [gateways EXCEPT ![current] = x]
      BY <1>3
    <2> HIDE DEF x
    <2>4. ChildOnly(gateways, gateways', current) /\ gateways'[current] = x
      BY <1>1, <2>1, <2>2, <2>3 DEF ChildOnly
    <2> QED BY <1>0, <1>3, <2>1, <2>2, <2>4, TouchMoves
  <1>4. CASE closing' = "closed" /\ current # 0 /\ Poison(sdk)
    BY <1>0, <1>4, PoisonStep
  <1>5. \/ closing' = "closed" /\ gateways' = gateways /\ sdk' = sdk /\ current' = current
        \/ /\ closing' = "waiting" /\ current # 0 /\ sdk' = sdk /\ current' = current
           /\ gateways' = [gateways EXCEPT ![current].eof = TRUE]
        \/ closing' = "closed" /\ current # 0 /\ Poison(sdk)
    BY DEF TsClose
  <1> QED BY <1>2, <1>3, <1>4, <1>5

\* The child a request goes to.
LEMMA TsProcessFacts ==
    ASSUME ClientInd, TypeScript
    PROVE  /\ TablesOK(sdk, TsProcess.all) /\ TsProcess.it \in DOMAIN TsProcess.all
           /\ TsProcess.all[TsProcess.it].dead = FALSE
           /\ DOMAIN gateways \subseteq DOMAIN TsProcess.all
           /\ \A g \in DOMAIN TsProcess.all :
                 /\ TsProcess.all[g].inbox = OldInbox(g) /\ TsProcess.all[g].outbox = OldOutbox(g)
                 /\ g # TsProcess.it => TsProcess.all[g].dead = TRUE
           /\ \A c : InNoTable(gateways, c) => InNoTable(TsProcess.all, c)
  <1>1. /\ TablesOK(sdk, gateways) /\ gateways \in Seq(GatewayType) /\ current \in 0..Len(gateways)
        /\ DOMAIN gateways = 1..Len(gateways) /\ Len(gateways) \in Nat
    BY SeqDomain DEF ClientInd, TablesOK
  <1>2. \A g \in DOMAIN gateways : gateways[g].dead \in BOOLEAN /\ (gateways[g].dead = FALSE <=> g = current)
    <2>1. ASSUME NEW g \in DOMAIN gateways PROVE gateways[g].dead \in BOOLEAN
      BY <1>1, ChildFacts DEF GatewayType
    <2> QED BY <2>1 DEF ClientInd
  <1>3. CASE current # 0
    <2>1. TsProcess.all = gateways /\ TsProcess.it = current
      BY <1>3 DEF TsProcess
    <2>2. current \in DOMAIN gateways
      BY <1>1, <1>3
    <2>3. \A g \in DOMAIN gateways : OldInbox(g) = gateways[g].inbox /\ OldOutbox(g) = gateways[g].outbox
      BY DEF OldInbox, OldOutbox
    <2> QED BY <1>1, <1>2, <2>1, <2>2, <2>3
  <1>4. CASE current = 0
    <2> DEFINE k == Len(gateways) + 1
               gs == Append(gateways, NewGateway)
    <2>1. TsProcess.all = gs /\ TsProcess.it = k
      BY <1>4 DEF TsProcess
    <2>2. /\ TablesOK(sdk, gs) /\ DOMAIN gs = 1..k /\ gs[k] = NewGateway
          /\ \A g \in DOMAIN gateways : g # k /\ gs[g] = gateways[g]
      BY <1>1, Adding
    <2>3. NewGateway.inbox = <<>> /\ NewGateway.outbox = <<>> /\ NewGateway.dead = FALSE
          /\ NewGateway.pending = <<>>
      BY DEF NewGateway
    <2>4. /\ k \in DOMAIN gs /\ k \notin DOMAIN gateways /\ DOMAIN gateways \subseteq DOMAIN gs
          /\ \A g \in DOMAIN gs : g = k \/ g \in DOMAIN gateways
      BY <1>1, <2>2
    <2> HIDE DEF k, gs
    <2>5. ASSUME NEW g \in DOMAIN gs
          PROVE  /\ gs[g].inbox = OldInbox(g) /\ gs[g].outbox = OldOutbox(g)
                 /\ g # k => gs[g].dead = TRUE
      <3>1. CASE g = k
        BY <2>2, <2>3, <2>4, <3>1 DEF OldInbox, OldOutbox
      <3>2. CASE g \in DOMAIN gateways
        <4>1. g # current
          BY <1>1, <1>4, <3>2
        <4> QED BY <1>2, <2>2, <3>2, <4>1 DEF OldInbox, OldOutbox
      <3> QED BY <2>4, <3>1, <3>2
    <2>6. ASSUME NEW c, InNoTable(gateways, c) PROVE InNoTable(gs, c)
      <3>1. ASSUME NEW g \in DOMAIN gs PROVE c \notin Range(gs[g].pending)
        BY <2>2, <2>3, <2>4, <2>6, EmptyRange DEF InNoTable
      <3> QED BY <3>1 DEF InNoTable
    <2> QED BY <2>1, <2>2, <2>3, <2>4, <2>5, <2>6
  <1> QED BY <1>3, <1>4

LEMMA TsRequestStep ==
    ASSUME ClientInd, NEW c \in SdkCallers, TsRequest(c)
    PROVE  ClientInd' /\ ClientMoves
  <1>0. /\ TypeScript /\ program # NoProgram /\ program' = program /\ sdk[c].pc = "ensure"
        /\ tracked' = tracked /\ sdkLog' = sdkLog /\ closing' = closing
        /\ closing' \in {"no", "waiting", "closed"}
    BY DEF TsRequest, TypeScript, ClientInd
  <1>1. /\ TablesOK(sdk, gateways) /\ gateways \in Seq(GatewayType)
        /\ sdk \in [SdkCallers -> CallerType] /\ sdk[c] \in CallerType /\ InNoTable(gateways, c)
        /\ Len(gateways) \in Nat /\ DOMAIN gateways = 1..Len(gateways)
        /\ current \in 0..Len(gateways) /\ CallerShape(sdk[c]) /\ sdk[c].gw \in Nat
    BY <1>0, BasicFacts
  <1>2. CASE Raise(c) /\ gateways' = gateways /\ current' = current
    <2>1. /\ TablesOK(sdk', gateways') /\ PipesMove
          /\ \A d \in SdkCallers : Moves(sdk[d], sdk'[d])
      BY <1>0, <1>1, <1>2, RaiseStep
    <2>2. ClientInd'
      BY <1>0, <1>1, <1>2, <2>1, Concluded DEF ClientInd
    <2> QED BY <1>0, <2>1, <2>2 DEF ClientMoves
  <1> DEFINE all == TsProcess.all
             k == TsProcess.it
             y == IF all[k].up THEN Append(all[k].inbox, Line(c)) ELSE all[k].inbox
             x == [all[k] EXCEPT !.pending = Append(@, c), !.inbox = y]
  <1>3. CASE /\ closing = "no" /\ current' = k
             /\ gateways' = [all EXCEPT ![k].pending = Append(@, c),
                                        ![k].inbox = IF all[k].up THEN Append(@, Line(c)) ELSE @]
             /\ sdk' = [sdk EXCEPT ![c].gw = k, ![c].fut = Silence, ![c].pc = "wait"]
    <2>1. /\ TablesOK(sdk, all) /\ k \in DOMAIN all /\ all[k].dead = FALSE
          /\ DOMAIN gateways \subseteq DOMAIN all /\ InNoTable(all, c)
          /\ \A g \in DOMAIN all :
                /\ all[g].inbox = OldInbox(g) /\ all[g].outbox = OldOutbox(g)
                /\ g # k => all[g].dead = TRUE
      BY <1>0, <1>1, TsProcessFacts
    <2> HIDE DEF all, k
    <2>2. /\ all \in Seq(GatewayType) /\ all[k] \in GatewayType
          /\ DOMAIN all = 1..Len(all) /\ Len(all) \in Nat /\ k \in Nat
      <3>1. all \in Seq(GatewayType)
        BY <2>1 DEF TablesOK
      <3>2. DOMAIN all = 1..Len(all) /\ Len(all) \in Nat
        BY <3>1, SeqDomain
      <3> QED BY <2>1, <3>1, <3>2, ChildFacts
    <2> DEFINE cs == sdk'
               gs == gateways'
    <2>3. gs = [all EXCEPT ![k] = x]
      <3>1. all = [i \in DOMAIN all |-> all[i]]
        BY <2>2
      <3> QED BY <1>3, <2>1, <2>2, <3>1
    <2>4. cs = [sdk EXCEPT ![c] = [sdk[c] EXCEPT !.gw = k, !.fut = Silence, !.pc = "wait"]]
      BY <1>1, <1>3
    <2>5. /\ x \in GatewayType /\ x.pending = Append(all[k].pending, c) /\ x.dead = FALSE
          /\ x.inbox = y /\ x.outbox = all[k].outbox
      <3>1. Line(c) \in LineType
        BY <1>1 DEF Line, LineType, CallerType
      <3>2. all[k].inbox \in Seq(LineType) /\ all[k].pending \in Seq(SdkCallers)
        BY <2>2 DEF GatewayType
      <3>3. y \in Seq(LineType) /\ Append(all[k].pending, c) \in Seq(SdkCallers)
        BY <3>1, <3>2
      <3> HIDE DEF y
      <3> QED BY <2>1, <2>2, <3>3 DEF GatewayType
    <2> HIDE DEF cs, gs, x
    <2>6. ChildOnly(all, gs, k) /\ gs[k] = x
      BY <2>1, <2>2, <2>3, <2>5 DEF ChildOnly
    <2>7. SetOnly(sdk, cs, c) /\ cs[c] = [sdk[c] EXCEPT !.gw = k, !.fut = Silence, !.pc = "wait"]
      BY <1>1, <2>4, ExceptCaller
    <2>8. Stepped(sdk[c], cs[c], "wait", Silence, k)
      BY <1>1, <2>7, SteppedFacts
    <2>9. /\ cs[c].pc = "wait" /\ cs[c].fut = Silence /\ cs[c].gw = k
          /\ SameCall(sdk[c], cs[c]) /\ CallerOnly(sdk, cs, c)
      <3>1. "wait" \in CallSteps /\ Silence \in Futures
        BY DEF CallSteps, Requesting, Futures
      <3> QED BY <1>1, <2>2, <2>7, <2>8, <3>1, CallerStep
    <2>10. TablesOK(cs, gs)
      BY <2>1, <2>5, <2>6, <2>9, Entering DEF Waiting
    <2>11. /\ DOMAIN gs = DOMAIN all /\ Len(gs) = Len(all)
           /\ \A g \in DOMAIN all : g # k => gs[g] = all[g]
      BY <2>1, <2>2, <2>6, ChildOnlyFacts DEF ChildOnly
    <2>12. PipesMove
      <3>1. \A g \in DOMAIN gs : gs[g].outbox = OldOutbox(g)
        BY <2>1, <2>5, <2>6, <2>11
      <3>2. \A g \in DOMAIN gs : g # k => gs[g].inbox = OldInbox(g)
        BY <2>1, <2>11
      <3>3. CASE gs[k].inbox = OldInbox(k)
        <4>1. \A g \in DOMAIN gs : gs[g].inbox = OldInbox(g)
          BY <3>2, <3>3
        <4> QED BY <2>1, <2>11, <3>1, <4>1 DEF PipesMove, gs
      <3>4. CASE gs[k].inbox = Append(OldInbox(k), Line(c))
        <4>1. SentTo(c, k)
          BY <1>0, <2>9, <3>2, <3>4 DEF SentTo, cs, gs
        <4> QED BY <2>1, <2>11, <3>1, <4>1 DEF PipesMove, gs
      <3> QED BY <2>1, <2>5, <2>6, <3>3, <3>4
    <2>13. ASSUME NEW d \in SdkCallers PROVE Moves(sdk[d], sdk'[d])
      <3>1. CASE d = c
        BY <1>0, <2>9, <3>1 DEF Moves, Advances, Heeds, cs
      <3>2. CASE d # c
        BY <2>9, <3>2, MovesRefl DEF CallerOnly, cs
      <3> QED BY <3>1, <3>2
    <2>14. ClientInd'
      <3>1. current' = k /\ k \in 0..Len(gs) /\ closing' # "waiting"
        BY <1>0, <1>3, <2>1, <2>2, <2>11
      <3>2. \A g \in DOMAIN gs : gs[g].dead = FALSE <=> g = current'
        BY <2>1, <2>5, <2>6, <2>11, <3>1
      <3>3. sdk' = cs /\ gateways' = gs
        BY DEF cs, gs
      <3> QED BY <1>0, <2>10, <3>1, <3>2, <3>3, Concluded
    <2> QED BY <1>0, <2>12, <2>13, <2>14 DEF ClientMoves
  <1>4. CASE /\ closing = "no" /\ current # 0
             /\ Poison([sdk EXCEPT ![c].fut = Failure, ![c].pc = "wait"])
    <2> DEFINE cs == [sdk EXCEPT ![c].fut = Failure, ![c].pc = "wait"]
    <2>1. cs = [sdk EXCEPT ![c] = [sdk[c] EXCEPT !.fut = Failure, !.pc = "wait"]]
      BY <1>1
    <2>2. Poison(cs)
      BY <1>4
    <2> HIDE DEF cs
    <2>3. SetOnly(sdk, cs, c) /\ cs[c] = [sdk[c] EXCEPT !.fut = Failure, !.pc = "wait"]
      BY <1>1, <2>1, ExceptCaller
    <2>4. Stepped(sdk[c], cs[c], "wait", Failure, sdk[c].gw)
      BY <1>1, <2>3, SteppedFacts
    <2>5. /\ cs[c].pc = "wait" /\ cs[c].fut = Failure
          /\ SameCall(sdk[c], cs[c]) /\ CallerOnly(sdk, cs, c)
      <3>1. "wait" \in CallSteps /\ Failure \in Futures
        BY DEF CallSteps, Requesting, Futures
      <3> QED BY <1>1, <2>3, <2>4, <3>1, CallerStep
    <2>6. cs \in [SdkCallers -> CallerType] /\ GivesUp(cs, current)
      <3>1. Advances(sdk[c], cs[c])
        BY <1>0, <2>5 DEF Advances
      <3> QED BY <1>1, <2>5, <3>1 DEF GivesUp, CallerOnly, InNoTable
    <2> QED BY <1>0, <1>4, <2>2, <2>6, PoisonConcluded DEF ClientMoves
  <1> QED BY <1>2, <1>3, <1>4 DEF TsRequest
-----------------------------------------------------------------------------
(***************************************************************************)
(* The steps of the children                                               *)
(***************************************************************************)
\* What the gateway does with a request.
LEMMA ServedFacts ==
    ASSUME program \in SdkPrograms, NEW r \in LineType, NEW s \in Served(r)
    PROVE  /\ s[2] \in {"error", "allow", "redact", "deny", "ask", "masked", "recorded"}
           /\ s[2] = "error" => s[1] = sdkLog[r.caller]
           /\ s[2] # "error" /\ r.op = "decide" =>
                 /\ s[1] = [sdkLog[r.caller] EXCEPT !.decisions = @ + 1]
                 /\ s[2] = program.verdict[r.caller]
           /\ s[2] # "error" /\ r.op = "resolve" =>
                 s[1] = sdkLog[r.caller] /\ s[2] \in {"deny", "allow"}
           /\ s[2] # "error" /\ r.op = "complete" =>
                 /\ sdkLog[r.caller].executions = 0
                 /\ s[1] = [sdkLog[r.caller] EXCEPT !.executions = 1]
                 /\ s[2] = IF program.verdict[r.caller] = "redact" THEN "masked" ELSE "recorded"
  <1>1. program.verdict[r.caller] \in {"allow", "redact", "deny", "ask"}
    <2>1. program.verdict \in [SdkCallers -> {"allow", "redact", "deny", "ask"}] /\ r.caller \in SdkCallers
      BY SdkAssumption DEF LineType
    <2> QED BY <2>1
  <1> DEFINE records == sdkLog[r.caller]
             verdict == program.verdict[r.caller]
  <1>2. r.op \in {"decide", "resolve", "complete"}
    BY DEF LineType, Ops
  <1>3. CASE s = <<records, "error">>
    BY <1>3, <1>1
  <1>4. CASE r.op = "decide" /\ s = <<[records EXCEPT !.decisions = @ + 1], verdict>>
    BY <1>4, <1>1
  <1>5. CASE r.op = "resolve" /\ \E k \in {"deny", "allow"} : s = <<records, k>>
    BY <1>5
  <1>6. CASE /\ r.op = "complete" /\ records.executions = 0
             /\ s = <<[records EXCEPT !.executions = 1], IF verdict = "redact" THEN "masked" ELSE "recorded">>
    BY <1>6
  <1> QED BY <1>2, <1>3, <1>4, <1>5, <1>6 DEF Served

Reply(r, k) == [caller |-> r.caller, op |-> r.op, kind |-> k]

\* Child g takes its first line, r: what it does, and what it writes.
ServeDoes(g, r, s) ==
    /\ gateways[g].inbox # <<>> /\ r = gateways[g].inbox[1]
    /\ sdkLog' = [sdkLog EXCEPT ![r.caller] = s[1]]
    /\ ChildOnly(gateways, gateways', g)
    /\ gateways'[g].dead = gateways[g].dead /\ gateways'[g].pending = gateways[g].pending
    /\ gateways'[g].inbox \in {Tail(gateways[g].inbox), <<>>}
    /\ gateways'[g].outbox \in {gateways[g].outbox, Append(gateways[g].outbox, Reply(r, s[2]))}
    /\ Reply(r, s[2]) \in AnswerType

LEMMA ServeFacts ==
    ASSUME ClientInd, NEW g \in DOMAIN gateways, Serve(g)
    PROVE  /\ program \in SdkPrograms /\ sdk' = sdk /\ program' = program /\ tracked' = tracked
           /\ current' = current /\ closing' = closing
           /\ \E r \in LineType : \E s \in Served(r) : ServeDoes(g, r, s)
  <1>1. gateways \in Seq(GatewayType) /\ gateways[g] \in GatewayType /\ DOMAIN gateways = 1..Len(gateways)
    BY ChildFacts, SeqDomain DEF ClientInd, TablesOK
  <1>2. program \in SdkPrograms
    <2>1. DOMAIN <<>> = {}
      OBVIOUS
    <2> QED BY <2>1 DEF ClientInd, Idle
  <1>3. gateways[g].inbox # <<>> /\ gateways[g].inbox \in Seq(LineType)
    BY <1>1 DEF Serve, GatewayType
  <1> DEFINE box == gateways[g].inbox
             r == Head(box)
  <1>4. r \in LineType /\ r = box[1] /\ Tail(box) \in Seq(LineType)
    <2> HIDE DEF box
    <2>1. box # <<>> /\ box \in Seq(LineType)
      BY <1>3 DEF box
    <2> QED BY <2>1
  <1>5. PICK s \in Served(r), answered \in BOOLEAN :
           /\ sdkLog' = [sdkLog EXCEPT ![r.caller] = s[1]]
           /\ gateways' = [gateways EXCEPT
                 ![g].inbox = IF answered THEN Tail(@) ELSE <<>>, ![g].up = answered,
                 ![g].outbox = IF answered THEN Append(@, Reply(r, s[2])) ELSE @]
    BY DEF Serve, Reply
  <1> HIDE DEF r
  <1>6. Reply(r, s[2]) \in AnswerType
    BY <1>2, <1>4, ServedFacts DEF Reply, AnswerType, LineType
  <1> DEFINE in == IF answered THEN Tail(box) ELSE <<>>
             out == IF answered THEN Append(gateways[g].outbox, Reply(r, s[2])) ELSE gateways[g].outbox
             x == [gateways[g] EXCEPT !.inbox = in, !.up = answered, !.outbox = out]
  <1>7. gateways' = [gateways EXCEPT ![g] = x]
    BY <1>1, <1>5
  <1>8. in \in Seq(LineType) /\ out \in Seq(AnswerType \cup {BadAnswer})
    <2>1. gateways[g].outbox \in Seq(AnswerType \cup {BadAnswer})
      BY <1>1 DEF GatewayType
    <2>2. Append(gateways[g].outbox, Reply(r, s[2])) \in Seq(AnswerType \cup {BadAnswer})
      BY <1>6, <2>1
    <2>3. <<>> \in Seq(LineType)
      OBVIOUS
    <2> QED BY <1>4, <2>1, <2>2, <2>3
  <1> HIDE DEF box
  <1>9. in \in {Tail(box), <<>>} /\ out \in {gateways[g].outbox, Append(gateways[g].outbox, Reply(r, s[2]))}
    OBVIOUS
  <1> HIDE DEF in, out
  <1>10. /\ x \in GatewayType /\ x.pending = gateways[g].pending /\ x.dead = gateways[g].dead
         /\ x.inbox = in /\ x.outbox = out
    BY <1>1, <1>8 DEF GatewayType
  <1> HIDE DEF x
  <1>11. ChildOnly(gateways, gateways', g) /\ gateways'[g] = x
    BY <1>1, <1>7, <1>10 DEF ChildOnly
  <1>12. /\ sdk' = sdk /\ program' = program /\ tracked' = tracked
         /\ current' = current /\ closing' = closing
    BY DEF Serve
  <1>13. gateways[g].inbox # <<>> /\ r = gateways[g].inbox[1]
    BY <1>3, <1>4 DEF box
  <1>14. gateways'[g].inbox \in {Tail(gateways[g].inbox), <<>>}
    BY <1>9, <1>10, <1>11 DEF box
  <1>15. ServeDoes(g, r, s)
    BY <1>5, <1>6, <1>9, <1>10, <1>11, <1>13, <1>14 DEF ServeDoes
  <1> QED BY <1>2, <1>4, <1>12, <1>15

LEMMA ServeStep ==
    ASSUME ClientInd, NEW g \in DOMAIN gateways, Serve(g)
    PROVE  ClientInd'
  <1>1. /\ sdk' = sdk /\ program' = program /\ current' = current /\ closing' = closing
        /\ ChildOnly(gateways, gateways', g)
        /\ gateways'[g].dead = gateways[g].dead /\ gateways'[g].pending = gateways[g].pending
    BY ServeFacts DEF ServeDoes
  <1>2. closing' \in {"no", "waiting", "closed"}
    BY <1>1 DEF ClientInd
  <1> QED BY <1>1, <1>2, TouchStep

\* Child g ends, or writes a bad line.
LEMMA ChildFaults ==
    ASSUME ClientInd, NEW g \in DOMAIN gateways, ChildEnds(g) \/ BadLine(g)
    PROVE  /\ sdk' = sdk /\ program' = program /\ tracked' = tracked
           /\ current' = current /\ closing' = closing /\ sdkLog' = sdkLog
           /\ ChildOnly(gateways, gateways', g)
           /\ gateways'[g].dead = gateways[g].dead /\ gateways'[g].pending = gateways[g].pending
           /\ gateways'[g].inbox \in {gateways[g].inbox, <<>>}
           /\ gateways'[g].outbox \in {gateways[g].outbox, Append(gateways[g].outbox, BadAnswer)}
  <1>1. gateways \in Seq(GatewayType) /\ gateways[g] \in GatewayType /\ DOMAIN gateways = 1..Len(gateways)
    BY ChildFacts, SeqDomain DEF ClientInd, TablesOK
  <1>2. /\ sdk' = sdk /\ program' = program /\ tracked' = tracked
        /\ current' = current /\ closing' = closing /\ sdkLog' = sdkLog
    BY DEF ChildEnds, BadLine
  <1>3. CASE ChildEnds(g)
    <2> DEFINE x == [gateways[g] EXCEPT !.up = FALSE, !.inbox = <<>>]
    <2>1. gateways' = [gateways EXCEPT ![g] = x]
      BY <1>1, <1>3 DEF ChildEnds
    <2>2. /\ x \in GatewayType /\ x.pending = gateways[g].pending /\ x.dead = gateways[g].dead
          /\ x.inbox = <<>> /\ x.outbox = gateways[g].outbox
      <3>1. <<>> \in Seq(LineType)
        OBVIOUS
      <3> QED BY <1>1, <3>1 DEF GatewayType
    <2> HIDE DEF x
    <2>3. ChildOnly(gateways, gateways', g) /\ gateways'[g] = x
      BY <1>1, <2>1, <2>2 DEF ChildOnly
    <2> QED BY <1>2, <2>2, <2>3
  <1>4. CASE BadLine(g)
    <2> DEFINE out == Append(gateways[g].outbox, BadAnswer)
               x == [gateways[g] EXCEPT !.outbox = out]
    <2>1. gateways' = [gateways EXCEPT ![g] = x]
      BY <1>1, <1>4 DEF BadLine, BadAnswer
    <2>2. out \in Seq(AnswerType \cup {BadAnswer})
      <3>1. gateways[g].outbox \in Seq(AnswerType \cup {BadAnswer})
        BY <1>1 DEF GatewayType
      <3> QED BY <3>1
    <2> HIDE DEF out
    <2>3. /\ x \in GatewayType /\ x.pending = gateways[g].pending /\ x.dead = gateways[g].dead
          /\ x.inbox = gateways[g].inbox /\ x.outbox = out
      BY <1>1, <2>2 DEF GatewayType
    <2> HIDE DEF x
    <2>4. ChildOnly(gateways, gateways', g) /\ gateways'[g] = x
      BY <1>1, <2>1, <2>3 DEF ChildOnly
    <2> QED BY <1>2, <2>3, <2>4 DEF out
  <1> QED BY <1>3, <1>4

LEMMA ChildFaultStep ==
    ASSUME ClientInd, NEW g \in DOMAIN gateways, ChildEnds(g) \/ BadLine(g)
    PROVE  ClientInd'
  <1>1. /\ sdk' = sdk /\ program' = program /\ current' = current /\ closing' = closing
        /\ ChildOnly(gateways, gateways', g)
        /\ gateways'[g].dead = gateways[g].dead /\ gateways'[g].pending = gateways[g].pending
    BY ChildFaults
  <1>2. closing' \in {"no", "waiting", "closed"}
    BY <1>1 DEF ClientInd
  <1> QED BY <1>1, <1>2, TouchStep
-----------------------------------------------------------------------------
(***************************************************************************)
(* The steps of a tool call                                                *)
(***************************************************************************)
\* What a step of the call makes of its caller.
Shows == {"none", "refusal", "raised", "raw", "masked", "withheld"}
Decides(c, k, p) == [sdk[c] EXCEPT !.decision = k, !.pc = p]
Says(c, said) == [Issue(c, "resolve") EXCEPT !.said = said, !.sent = said = "yes"]
Told(c, said, p) == [sdk[c] EXCEPT !.said = said, !.pc = p]
Overridden(c) == [sdk[c] EXCEPT !.pc = "run", !.overridden = TRUE]
Ran(c, how) == [sdk[c] EXCEPT !.ran = how, !.pc = "after"]
GuardRan(c, how) == [Issue(c, "complete") EXCEPT !.ran = how]
Rejects(c) == [Issue(c, "resolve") EXCEPT !.sent = FALSE]

\* r has the ledger's and the approver's part of q.
Keeps(q, r) ==
    /\ r.said = q.said /\ r.overridden = q.overridden /\ r.evicted = q.evicted
    /\ r.decision = q.decision

LEMMA EndsFacts ==
    ASSUME NEW c, sdk[c] \in CallerType, NEW shown \in Shows
    PROVE  /\ Ends(c, shown) \in CallerType /\ Settled(Ends(c, shown)) /\ Keeps(sdk[c], Ends(c, shown))
           /\ Ends(c, shown).pc = "done" /\ Ends(c, shown).fut = Silence
           /\ Ends(c, shown).shown = shown /\ Ends(c, shown).op = sdk[c].op
           /\ Ends(c, shown).sent = sdk[c].sent /\ Ends(c, shown).ran = sdk[c].ran
  <1> DEFINE q == sdk[c]
             r == [q EXCEPT !.pc = "done", !.gw = 0, !.fut = Silence, !.shown = shown]
  <1>1. Ends(c, shown) = r
    BY DEF Ends
  <1> HIDE DEF q
  <1>2. q \in CallerType
    BY DEF q
  <1>3. /\ r \in CallerType /\ r.pc = "done" /\ r.fut = Silence /\ r.shown = shown /\ r.op = q.op
        /\ r.sent = q.sent /\ r.ran = q.ran /\ Keeps(q, r)
    BY <1>2, ZenonT(40) DEF CallerType, Keeps, Shows
  <1> HIDE DEF r
  <1> QED BY <1>1, <1>3 DEF q, Settled, Waiting

LEMMA IssueFacts ==
    ASSUME NEW c, sdk[c] \in CallerType, NEW op \in Ops
    PROVE  /\ Issue(c, op) \in CallerType /\ Settled(Issue(c, op)) /\ Keeps(sdk[c], Issue(c, op))
           /\ Issue(c, op).pc = "ensure" /\ Issue(c, op).fut = Silence
           /\ Issue(c, op).shown = sdk[c].shown /\ Issue(c, op).op = op
           /\ Issue(c, op).sent = sdk[c].sent /\ Issue(c, op).ran = sdk[c].ran
  <1> DEFINE q == sdk[c]
             r == [q EXCEPT !.pc = "ensure", !.op = op, !.gw = 0, !.fut = Silence]
  <1>1. Issue(c, op) = r
    BY DEF Issue
  <1> HIDE DEF q
  <1>2. q \in CallerType
    BY DEF q
  <1>3. /\ r \in CallerType /\ r.pc = "ensure" /\ r.fut = Silence /\ r.shown = q.shown /\ r.op = op
        /\ r.sent = q.sent /\ r.ran = q.ran /\ Keeps(q, r)
    BY <1>2, ZenonT(40) DEF CallerType, Keeps, Requesting, Ops
  <1> HIDE DEF r
  <1> QED BY <1>1, <1>3 DEF q, Settled, Waiting

SaidSo(q, r, said) ==
    /\ r \in CallerType /\ r.pc = q.pc /\ r.fut = q.fut /\ r.shown = q.shown /\ r.op = q.op
    /\ r.said = said /\ r.overridden = q.overridden /\ r.evicted = q.evicted
    /\ r.decision = q.decision /\ r.ran = q.ran

LEMMA SaidFacts ==
    ASSUME NEW q \in CallerType, NEW said \in {"yes", "no", "late"}
    PROVE  /\ SaidSo(q, [q EXCEPT !.said = said, !.sent = TRUE], said)
           /\ SaidSo(q, [q EXCEPT !.said = said, !.sent = FALSE], said)
           /\ [q EXCEPT !.said = said, !.sent = FALSE].sent = FALSE
  <1>1. SaidSo(q, [q EXCEPT !.said = said, !.sent = TRUE], said)
    BY DEF CallerType, SaidSo
  <1>2. /\ SaidSo(q, [q EXCEPT !.said = said, !.sent = FALSE], said)
        /\ [q EXCEPT !.said = said, !.sent = FALSE].sent = FALSE
    BY DEF CallerType, SaidSo
  <1> QED BY <1>1, <1>2

LEMMA SaysFacts ==
    ASSUME NEW c, sdk[c] \in CallerType, NEW said \in {"yes", "no", "late"}
    PROVE  /\ Says(c, said) \in CallerType /\ Settled(Says(c, said))
           /\ Says(c, said).pc = "ensure" /\ Says(c, said).fut = Silence
           /\ Says(c, said).shown = sdk[c].shown /\ Says(c, said).op = "resolve"
           /\ Says(c, said).said = said /\ (Says(c, said).sent = TRUE => said = "yes")
           /\ Says(c, said).overridden = sdk[c].overridden /\ Says(c, said).evicted = sdk[c].evicted
           /\ Says(c, said).decision = sdk[c].decision /\ Says(c, said).ran = sdk[c].ran
  <1>0. "resolve" \in Ops
    BY DEF Ops
  <1>1. PICK q \in CallerType : q = Issue(c, "resolve")
    BY <1>0, IssueFacts
  <1>2. /\ q.pc = "ensure" /\ q.fut = Silence /\ q.shown = sdk[c].shown
        /\ q.op = "resolve" /\ q.ran = sdk[c].ran /\ Keeps(sdk[c], q)
    BY <1>0, <1>1, IssueFacts
  <1>3. q \in CallerType
    BY <1>1
  <1>4. CASE said = "yes"
    <2>1. Says(c, said) = [q EXCEPT !.said = said, !.sent = TRUE]
      BY <1>1, <1>4 DEF Says
    <2>2. SaidSo(q, Says(c, said), said)
      BY <1>3, <2>1, SaidFacts
    <2> QED BY <1>2, <1>4, <2>2 DEF Settled, Waiting, Keeps, SaidSo
  <1>5. CASE said # "yes"
    <2>1. Says(c, said) = [q EXCEPT !.said = said, !.sent = FALSE]
      BY <1>1, <1>5 DEF Says
    <2>2. SaidSo(q, Says(c, said), said) /\ Says(c, said).sent = FALSE
      BY <1>3, <2>1, SaidFacts
    <2> QED BY <1>2, <2>2 DEF Settled, Waiting, Keeps, SaidSo
  <1> QED BY <1>4, <1>5

LEMMA GuardRanFacts ==
    ASSUME NEW c, sdk[c] \in CallerType, NEW how \in {"returned", "raised"}
    PROVE  /\ GuardRan(c, how) \in CallerType /\ Settled(GuardRan(c, how))
           /\ Keeps(sdk[c], GuardRan(c, how))
           /\ GuardRan(c, how).pc = "ensure" /\ GuardRan(c, how).fut = Silence
           /\ GuardRan(c, how).shown = sdk[c].shown /\ GuardRan(c, how).op = "complete"
           /\ GuardRan(c, how).sent = sdk[c].sent /\ GuardRan(c, how).ran = how
  <1> DEFINE q == Issue(c, "complete")
             r == [q EXCEPT !.ran = how]
  <1>0. "complete" \in Ops
    BY DEF Ops
  <1>1. /\ q \in CallerType /\ q.pc = "ensure" /\ q.fut = Silence /\ q.shown = sdk[c].shown
        /\ q.op = "complete" /\ q.sent = sdk[c].sent /\ Keeps(sdk[c], q)
    BY <1>0, IssueFacts
  <1>2. GuardRan(c, how) = r
    BY DEF GuardRan
  <1> HIDE DEF q
  <1>3. /\ r \in CallerType /\ r.pc = q.pc /\ r.fut = q.fut /\ r.shown = q.shown /\ r.op = q.op
        /\ r.sent = q.sent /\ r.ran = how /\ Keeps(q, r)
    BY <1>1 DEF CallerType, Keeps
  <1> HIDE DEF r
  <1> QED BY <1>1, <1>2, <1>3 DEF Settled, Waiting, Keeps

LEMMA RejectsFacts ==
    ASSUME NEW c, sdk[c] \in CallerType
    PROVE  /\ Rejects(c) \in CallerType /\ Settled(Rejects(c)) /\ Keeps(sdk[c], Rejects(c))
           /\ Rejects(c).pc = "ensure" /\ Rejects(c).fut = Silence
           /\ Rejects(c).shown = sdk[c].shown /\ Rejects(c).op = "resolve"
           /\ Rejects(c).sent = FALSE /\ Rejects(c).ran = sdk[c].ran
  <1> DEFINE q == Issue(c, "resolve")
             r == [q EXCEPT !.sent = FALSE]
  <1>0. "resolve" \in Ops
    BY DEF Ops
  <1>1. /\ q \in CallerType /\ q.pc = "ensure" /\ q.fut = Silence /\ q.shown = sdk[c].shown
        /\ q.op = "resolve" /\ q.ran = sdk[c].ran /\ Keeps(sdk[c], q)
    BY <1>0, IssueFacts
  <1>2. Rejects(c) = r
    BY DEF Rejects
  <1> HIDE DEF q
  <1>3. /\ r \in CallerType /\ r.pc = q.pc /\ r.fut = q.fut /\ r.shown = q.shown /\ r.op = q.op
        /\ r.sent = FALSE /\ r.ran = q.ran /\ Keeps(q, r)
    BY <1>1 DEF CallerType, Keeps
  <1> HIDE DEF r
  <1> QED BY <1>1, <1>2, <1>3 DEF Settled, Waiting, Keeps

LEMMA SetFacts ==
    ASSUME NEW c, sdk[c] \in CallerType
    PROVE  /\ \A k \in SdkVerdicts, p \in {"ask", "run"} :
                 LET r == Decides(c, k, p) IN
                 /\ r \in CallerType /\ Settled(r)
                 /\ r.pc = p /\ r.decision = k /\ r.op = sdk[c].op /\ r.fut = sdk[c].fut
                 /\ r.said = sdk[c].said /\ r.overridden = sdk[c].overridden
                 /\ r.evicted = sdk[c].evicted /\ r.shown = sdk[c].shown
                 /\ r.ran = sdk[c].ran /\ r.sent = sdk[c].sent
           /\ LET r == Overridden(c) IN
                 /\ r \in CallerType /\ Settled(r)
                 /\ r.pc = "run" /\ r.said = sdk[c].said /\ r.op = sdk[c].op /\ r.fut = sdk[c].fut
                 /\ r.decision = sdk[c].decision /\ r.overridden = TRUE
                 /\ r.evicted = sdk[c].evicted /\ r.shown = sdk[c].shown
                 /\ r.ran = sdk[c].ran /\ r.sent = sdk[c].sent
           /\ \A how \in {"returned", "raised"} :
                 LET r == Ran(c, how) IN
                 /\ r \in CallerType /\ Settled(r)
                 /\ r.pc = "after" /\ r.op = sdk[c].op /\ r.fut = sdk[c].fut
                 /\ r.shown = sdk[c].shown /\ r.ran = how /\ r.sent = sdk[c].sent
                 /\ Keeps(sdk[c], r)
  <1>1. ASSUME NEW k \in SdkVerdicts, NEW p \in {"ask", "run"}
        PROVE  LET r == Decides(c, k, p) IN
                 /\ r \in CallerType /\ Settled(r)
                 /\ r.pc = p /\ r.decision = k /\ r.op = sdk[c].op /\ r.fut = sdk[c].fut
                 /\ r.said = sdk[c].said /\ r.overridden = sdk[c].overridden
                 /\ r.evicted = sdk[c].evicted /\ r.shown = sdk[c].shown
                 /\ r.ran = sdk[c].ran /\ r.sent = sdk[c].sent
    BY DEF Decides, CallerType, Settled, Waiting
  <1>3. LET r == Overridden(c) IN
                 /\ r \in CallerType /\ Settled(r)
                 /\ r.pc = "run" /\ r.said = sdk[c].said /\ r.op = sdk[c].op /\ r.fut = sdk[c].fut
                 /\ r.decision = sdk[c].decision /\ r.overridden = TRUE
                 /\ r.evicted = sdk[c].evicted /\ r.shown = sdk[c].shown
                 /\ r.ran = sdk[c].ran /\ r.sent = sdk[c].sent
    BY DEF Overridden, CallerType, Settled, Waiting
  <1>4. ASSUME NEW how \in {"returned", "raised"}
        PROVE  LET r == Ran(c, how) IN
                 /\ r \in CallerType /\ Settled(r)
                 /\ r.pc = "after" /\ r.op = sdk[c].op /\ r.fut = sdk[c].fut
                 /\ r.shown = sdk[c].shown /\ r.ran = how /\ r.sent = sdk[c].sent
                 /\ Keeps(sdk[c], r)
    BY DEF Ran, CallerType, Settled, Waiting, Keeps
  <1> QED BY <1>1, <1>3, <1>4

LEMMA ToldFacts ==
    ASSUME NEW c, sdk[c] \in CallerType, NEW said \in {"yes", "no"}, NEW p \in {"run", "done"}
    PROVE  /\ Told(c, said, p) \in CallerType /\ Settled(Told(c, said, p))
           /\ Told(c, said, p).pc = p /\ Told(c, said, p).said = said
           /\ Told(c, said, p).op = sdk[c].op /\ Told(c, said, p).fut = sdk[c].fut
           /\ Told(c, said, p).decision = sdk[c].decision
           /\ Told(c, said, p).overridden = sdk[c].overridden
           /\ Told(c, said, p).evicted = sdk[c].evicted /\ Told(c, said, p).shown = sdk[c].shown
           /\ Told(c, said, p).ran = sdk[c].ran /\ Told(c, said, p).sent = sdk[c].sent
  BY ZenonT(40) DEF Told, CallerType, Settled, Waiting

\* The entry of e has made room.
Evicted(q) == [q EXCEPT !.evicted = TRUE]

LEMMA EvictedFacts ==
    ASSUME NEW q \in CallerType
    PROVE  /\ Evicted(q) \in CallerType /\ Evicted(q).evicted = TRUE
           /\ Evicted(q).pc = q.pc /\ Evicted(q).fut = q.fut /\ Evicted(q).gw = q.gw
           /\ Evicted(q).op = q.op /\ Evicted(q).decision = q.decision /\ Evicted(q).sent = q.sent
           /\ Evicted(q).said = q.said /\ Evicted(q).ran = q.ran
           /\ Evicted(q).overridden = q.overridden /\ Evicted(q).shown = q.shown
  BY DEF Evicted, CallerType

\* Caller c has become q, and of who made room that is noted.
GoesTo(callers, cs, c, q) ==
    /\ cs \in [SdkCallers -> CallerType]
    /\ cs[c] = q \/ cs[c] = Evicted(q)
    /\ \A d \in SdkCallers : d # c => cs[d] = callers[d] \/ cs[d] = Evicted(callers[d])

LEMMA GoesFacts ==
    ASSUME sdk \in [SdkCallers -> CallerType], NEW c \in SdkCallers, NEW q \in CallerType
    PROVE  /\ GoesTo(sdk, [sdk EXCEPT ![c] = q], c, q)
           /\ \A map : GoesTo(sdk, Lost(map, c, [sdk EXCEPT ![c] = q]), c, q)
  <1> DEFINE cs == [sdk EXCEPT ![c] = q]
  <1>1. cs \in [SdkCallers -> CallerType] /\ cs[c] = q /\ \A d \in SdkCallers : d # c => cs[d] = sdk[d]
    OBVIOUS
  <1> HIDE DEF cs
  <1>2. ASSUME NEW map PROVE GoesTo(sdk, Lost(map, c, cs), c, q)
    <2> DEFINE e == Head(tracked[map])
               ls == [cs EXCEPT ![e].evicted = TRUE]
    <2>1. Lost(map, c, cs) = cs \/ Lost(map, c, cs) = ls
      BY DEF Lost
    <2> HIDE DEF e
    <2>2. \A d \in SdkCallers : ls[d] = IF d = e THEN Evicted(cs[d]) ELSE cs[d]
      BY <1>1 DEF Evicted
    <2>3. ls \in [SdkCallers -> CallerType]
      <3>1. \A d \in SdkCallers : Evicted(cs[d]) \in CallerType /\ cs[d] \in CallerType
        BY <1>1, EvictedFacts
      <3>2. ls = [d \in SdkCallers |-> ls[d]]
        BY <1>1
      <3> HIDE DEF ls
      <3> QED BY <2>2, <3>1, <3>2
    <2> HIDE DEF ls
    <2>4. GoesTo(sdk, ls, c, q)
      BY <1>1, <2>2, <2>3 DEF GoesTo
    <2>5. GoesTo(sdk, cs, c, q)
      BY <1>1 DEF GoesTo
    <2> QED BY <2>1, <2>4, <2>5
  <1>3. GoesTo(sdk, cs, c, q)
    BY <1>1 DEF GoesTo
  <1> QED BY <1>2, <1>3 DEF cs

\* A call step keeps the client's tables.
LEMMA CallConcluded ==
    ASSUME ClientInd, NEW c \in SdkCallers,
           sdk[c].pc \in {"ask", "run", "after"} \/ Answered(c, sdk[c].op),
           NEW q \in CallerType, Settled(q), GoesTo(sdk, sdk', c, q),
           program' = program, gateways' = gateways, current' = current, closing' = closing
    PROVE  ClientInd'
  <1>1. /\ TablesOK(sdk, gateways) /\ sdk \in [SdkCallers -> CallerType]
        /\ current \in 0..Len(gateways) /\ closing \in {"no", "waiting", "closed"}
    BY BasicFacts DEF ClientInd
  <1>2. InNoTable(gateways, c)
    BY <1>1, TableFacts DEF Answered
  <1>3. program # NoProgram
    <2>1. NewCall.pc = "ensure"
      BY DEF NewCall
    <2> QED BY <2>1 DEF ClientInd, Idle, Answered
  <1> DEFINE cs == sdk'
  <1>4. /\ cs \in [SdkCallers -> CallerType] /\ Settled(cs[c])
        /\ \A d \in SdkCallers : d # c =>
              cs[d].pc = sdk[d].pc /\ cs[d].fut = sdk[d].fut /\ cs[d].gw = sdk[d].gw
    <2>1. \A d \in SdkCallers : sdk[d] \in CallerType
      BY <1>1
    <2>2. Settled(Evicted(q))
      BY EvictedFacts DEF Settled, Waiting
    <2>3. cs \in [SdkCallers -> CallerType] /\ Settled(cs[c])
      BY <2>2 DEF GoesTo
    <2>4. ASSUME NEW d \in SdkCallers, d # c
          PROVE  cs[d].pc = sdk[d].pc /\ cs[d].fut = sdk[d].fut /\ cs[d].gw = sdk[d].gw
      <3>1. cs[d] = sdk[d] \/ cs[d] = Evicted(sdk[d])
        BY <2>4 DEF GoesTo
      <3>2. sdk[d] \in CallerType
        BY <2>1
      <3>3. /\ Evicted(sdk[d]).pc = sdk[d].pc /\ Evicted(sdk[d]).fut = sdk[d].fut
            /\ Evicted(sdk[d]).gw = sdk[d].gw
        BY <3>2, EvictedFacts
      <3> QED BY <3>1, <3>3
    <2> QED BY <2>3, <2>4
  <1> HIDE DEF cs
  <1>5. TablesOK(cs, gateways)
    <2>1. ASSUME NEW g \in DOMAIN gateways, NEW d \in Range(gateways[g].pending)
          PROVE  cs[d].pc = "done" \/ (cs[d].gw = g /\ Waiting(cs[d]))
      <3>1. d \in SdkCallers /\ d # c
        BY <1>1, <1>2, ChildFacts DEF TablesOK, InNoTable
      <3>2. sdk[d].pc = "done" \/ (sdk[d].gw = g /\ Waiting(sdk[d]))
        BY <1>1 DEF TablesOK
      <3> QED BY <1>4, <3>1, <3>2 DEF Waiting
    <2>2. ASSUME NEW d \in SdkCallers
          PROVE  /\ cs[d].pc \in {"register", "write"} => cs[d].gw \in DOMAIN gateways
                 /\ Waiting(cs[d]) =>
                       /\ cs[d].gw \in DOMAIN gateways /\ gateways[cs[d].gw].dead = FALSE
                       /\ d \in Range(gateways[cs[d].gw].pending)
      <3>1. CASE d = c
        BY <1>4, <3>1 DEF Settled
      <3>2. CASE d # c
        <4>1. cs[d].pc = sdk[d].pc /\ cs[d].fut = sdk[d].fut /\ cs[d].gw = sdk[d].gw
          BY <1>4, <3>2
        <4> QED BY <1>1, <4>1 DEF TablesOK, Waiting
      <3> QED BY <3>1, <3>2
    <2> QED BY <1>1, <1>4, <2>1, <2>2 DEF TablesOK
  <1>6. TypeScript => \A g \in DOMAIN gateways' : gateways'[g].dead = FALSE <=> g = current'
    BY DEF ClientInd
  <1> QED BY <1>1, <1>3, <1>5, <1>6, Concluded DEF ClientInd, cs

Becomes(c, q) == sdk' = [sdk EXCEPT ![c] = q]
BecomesIn(map, c, q) == sdk' = Lost(map, c, [sdk EXCEPT ![c] = q])
EntersAsks(c) == tracked' = [tracked EXCEPT !.pendingAsks = Track("pendingAsks", c)]
EntersRuns(c) == tracked' = [tracked EXCEPT !.dispatched = Track("dispatched", c)]
LeavesAsks(c) == tracked' = [tracked EXCEPT !.pendingAsks = Untrack("pendingAsks", c)]
LeavesRuns(c) == tracked' = [tracked EXCEPT !.dispatched = Untrack("dispatched", c)]
Apart == /\ program' = program /\ gateways' = gateways /\ current' = current /\ closing' = closing
         /\ sdkLog' = sdkLog

\* What each of these steps does, with the caller it makes.
LEMMA DecidedForm ==
    ASSUME sdk \in [SdkCallers -> CallerType], NEW c \in SdkCallers, Decided(c)
    PROVE  /\ Answered(c, "decide") /\ Apart
           /\ \/ Heard(c) \in {"error", "deny"} /\ tracked' = tracked /\ Becomes(c, Ends(c, "refusal"))
              \/ /\ Heard(c) = "ask" /\ GatedBy(c) = "prompt" /\ EntersAsks(c)
                 /\ BecomesIn("pendingAsks", c, Decides(c, "ask", "ask"))
              \/ /\ Heard(c) = "ask" /\ GatedBy(c) # "prompt" /\ tracked' = tracked
                 /\ Becomes(c, Decides(c, "ask", "ask"))
              \/ /\ Heard(c) \in {"allow", "redact"} /\ GatedBy(c) = "guard" /\ tracked' = tracked
                 /\ Becomes(c, Decides(c, Heard(c), "run"))
              \/ /\ Heard(c) \in {"allow", "redact"} /\ GatedBy(c) # "guard" /\ EntersRuns(c)
                 /\ BecomesIn("dispatched", c, Decides(c, Heard(c), "run"))
  <1>1. Answered(c, "decide") /\ Apart
    BY DEF Decided, Apart, clientVars
  <1> DEFINE k == Heard(c)
  <1>2. /\ [sdk EXCEPT ![c].decision = k, ![c].pc = "ask"] = [sdk EXCEPT ![c] = Decides(c, k, "ask")]
        /\ [sdk EXCEPT ![c].decision = k, ![c].pc = "run"] = [sdk EXCEPT ![c] = Decides(c, k, "run")]
    BY DEF Decides
  <1> HIDE DEF k
  <1>3. \/ /\ k \in {"error", "deny"} /\ tracked' = tracked /\ Becomes(c, Ends(c, "refusal"))
        \/ /\ k = "ask" /\ GatedBy(c) = "prompt" /\ EntersAsks(c)
           /\ sdk' = Lost("pendingAsks", c, [sdk EXCEPT ![c].decision = k, ![c].pc = "ask"])
        \/ /\ k = "ask" /\ GatedBy(c) # "prompt" /\ tracked' = tracked
           /\ sdk' = [sdk EXCEPT ![c].decision = k, ![c].pc = "ask"]
        \/ /\ k \in {"allow", "redact"} /\ GatedBy(c) = "guard" /\ tracked' = tracked
           /\ sdk' = [sdk EXCEPT ![c].decision = k, ![c].pc = "run"]
        \/ /\ k \in {"allow", "redact"} /\ GatedBy(c) # "guard" /\ EntersRuns(c)
           /\ sdk' = Lost("dispatched", c, [sdk EXCEPT ![c].decision = k, ![c].pc = "run"])
    BY DEF Decided, Becomes, EntersAsks, EntersRuns, k
  <1> QED BY <1>1, <1>2, <1>3 DEF Becomes, BecomesIn, k

LEMMA CanUseToolForm ==
    ASSUME sdk \in [SdkCallers -> CallerType], NEW c \in SdkCallers, CanUseTool(c)
    PROVE  /\ sdk[c].pc = "ask" /\ GatedBy(c) = "prompt" /\ Apart
           /\ \E said \in {"yes", "no"} :
                 \/ /\ c \in Range(tracked.pendingAsks) /\ LeavesAsks(c) /\ Becomes(c, Says(c, said))
                 \/ /\ c \notin Range(tracked.pendingAsks) /\ tracked' = tracked
                    /\ Becomes(c, Told(c, said, IF said = "yes" THEN "run" ELSE "done"))
  <1>1. sdk[c].pc = "ask" /\ GatedBy(c) = "prompt" /\ Apart
    BY DEF CanUseTool, Apart, clientVars
  <1>2. PICK said \in {"yes", "no"} :
           IF c \in Range(tracked.pendingAsks)
           THEN /\ tracked' = [tracked EXCEPT !.pendingAsks = Untrack("pendingAsks", c)]
                /\ sdk' = [sdk EXCEPT ![c] = [Issue(c, "resolve") EXCEPT !.said = said, !.sent = said = "yes"]]
           ELSE /\ tracked' = tracked
                /\ sdk' = [sdk EXCEPT ![c].said = said, ![c].pc = IF said = "yes" THEN "run" ELSE "done"]
    BY DEF CanUseTool
  <1>3. CASE c \in Range(tracked.pendingAsks)
    BY <1>1, <1>2, <1>3 DEF LeavesAsks, Becomes, Says
  <1>4. CASE c \notin Range(tracked.pendingAsks)
    <2> DEFINE p == IF said = "yes" THEN "run" ELSE "done"
    <2>1. tracked' = tracked /\ sdk' = [sdk EXCEPT ![c].said = said, ![c].pc = p]
      BY <1>2, <1>4
    <2> HIDE DEF p
    <2>2. Becomes(c, Told(c, said, p))
      BY <2>1 DEF Becomes, Told
    <2> QED BY <1>1, <1>4, <2>1, <2>2 DEF p
  <1> QED BY <1>3, <1>4

LEMMA ResolvedForm ==
    ASSUME sdk \in [SdkCallers -> CallerType], NEW c \in SdkCallers, Resolved(c)
    PROVE  /\ Answered(c, "resolve") /\ sdk[c].ran = "no" /\ Apart
           /\ \/ /\ Heard(c) = "allow" /\ sdk[c].sent /\ GatedBy(c) = "guard" /\ tracked' = tracked
                 /\ Becomes(c, Decides(c, "allow", "run"))
              \/ /\ Heard(c) = "allow" /\ sdk[c].sent /\ GatedBy(c) # "guard" /\ EntersRuns(c)
                 /\ BecomesIn("dispatched", c, Decides(c, "allow", "run"))
              \/ tracked' = tracked /\ Becomes(c, Ends(c, "refusal"))
  <1>1. Answered(c, "resolve") /\ sdk[c].ran = "no" /\ Apart
    BY DEF Resolved, Apart, clientVars
  <1>2. \/ /\ Heard(c) = "allow" /\ sdk[c].sent /\ GatedBy(c) = "guard" /\ tracked' = tracked
           /\ sdk' = [sdk EXCEPT ![c].decision = "allow", ![c].pc = "run"]
        \/ /\ Heard(c) = "allow" /\ sdk[c].sent /\ GatedBy(c) # "guard" /\ EntersRuns(c)
           /\ sdk' = Lost("dispatched", c, [sdk EXCEPT ![c].decision = "allow", ![c].pc = "run"])
        \/ tracked' = tracked /\ Becomes(c, Ends(c, "refusal"))
    BY DEF Resolved, Becomes, EntersRuns
  <1>3. [sdk EXCEPT ![c].decision = "allow", ![c].pc = "run"] = [sdk EXCEPT ![c] = Decides(c, "allow", "run")]
    BY DEF Decides
  <1> QED BY <1>1, <1>2, <1>3 DEF Becomes, BecomesIn

LEMMA OverridesForm ==
    ASSUME sdk \in [SdkCallers -> CallerType], NEW c \in SdkCallers, AgentOverrides(c)
    PROVE  /\ sdk[c].pc = "ask" /\ GatedBy(c) = "prompt" /\ Apart /\ tracked' = tracked
           /\ Becomes(c, Overridden(c))
  BY DEF AgentOverrides, Apart, clientVars, Becomes, Overridden

LEMMA AgentRunsForm ==
    ASSUME sdk \in [SdkCallers -> CallerType], NEW c \in SdkCallers, AgentRuns(c)
    PROVE  /\ sdk[c].pc = "run" /\ GatedBy(c) # "guard" /\ Apart /\ tracked' = tracked
           /\ \/ \E how \in {"returned", "raised"} : Becomes(c, Ran(c, how))
              \/ Becomes(c, Ends(c, "none"))
  <1>1. sdk[c].pc = "run" /\ GatedBy(c) # "guard" /\ Apart /\ tracked' = tracked
    BY DEF AgentRuns, Apart, clientVars
  <1>2. CASE sdk' = [sdk EXCEPT ![c] = Ends(c, "none")]
    BY <1>1, <1>2 DEF Becomes
  <1>3. ASSUME NEW how \in {"returned", "raised"}, sdk' = [sdk EXCEPT ![c].ran = how, ![c].pc = "after"]
        PROVE  Becomes(c, Ran(c, how))
    BY <1>3 DEF Becomes, Ran
  <1> QED BY <1>1, <1>2, <1>3 DEF AgentRuns

RecordShows(c) ==
    IF sdk[c].ran = "raised" THEN "raised"
    ELSE IF GatedBy(c) = "guard" THEN GuardShows(c)
    ELSE IF Python THEN PyPostShows(c) ELSE TsPostShows(c)

LEMMA RestForms ==
    ASSUME sdk \in [SdkCallers -> CallerType], NEW c \in SdkCallers
    PROVE  /\ ApproverSays(c) =>
                 /\ sdk[c].pc = "ask" /\ GatedBy(c) # "prompt" /\ Apart /\ tracked' = tracked
                 /\ \E said \in {"yes", "no", "late"} : Becomes(c, Says(c, said))
           /\ GuardRuns(c) =>
                 /\ sdk[c].pc = "run" /\ GatedBy(c) = "guard" /\ Apart /\ tracked' = tracked
                 /\ \E how \in {"returned", "raised"} : Becomes(c, GuardRan(c, how))
           /\ PostHook(c) =>
                 /\ sdk[c].pc = "after" /\ Apart
                 /\ \/ /\ c \in Range(tracked.dispatched) /\ LeavesRuns(c)
                       /\ Becomes(c, Issue(c, "complete"))
                    \/ /\ c \notin Range(tracked.dispatched) /\ c \in Range(tracked.pendingAsks)
                       /\ sdk[c].ran = "returned" /\ LeavesAsks(c) /\ Becomes(c, Rejects(c))
                    \/ /\ c \notin Range(tracked.dispatched)
                       /\ ~(c \in Range(tracked.pendingAsks) /\ sdk[c].ran = "returned")
                       /\ tracked' = tracked
                       /\ Becomes(c, Ends(c, IF sdk[c].ran = "raised" THEN "raised" ELSE "raw"))
           /\ RejectionSent(c) =>
                 /\ Answered(c, "resolve") /\ sdk[c].ran # "no" /\ Apart /\ tracked' = tracked
                 /\ Becomes(c, Ends(c, "withheld"))
           /\ Recorded(c) =>
                 /\ Answered(c, "complete") /\ Apart /\ tracked' = tracked
                 /\ Becomes(c, Ends(c, RecordShows(c)))
  <1>1. ApproverSays(c) =>
           /\ sdk[c].pc = "ask" /\ GatedBy(c) # "prompt" /\ Apart /\ tracked' = tracked
           /\ \E said \in {"yes", "no", "late"} : Becomes(c, Says(c, said))
    BY DEF ApproverSays, Apart, clientVars, Becomes, Says
  <1>2. GuardRuns(c) =>
           /\ sdk[c].pc = "run" /\ GatedBy(c) = "guard" /\ Apart /\ tracked' = tracked
           /\ \E how \in {"returned", "raised"} : Becomes(c, GuardRan(c, how))
    BY DEF GuardRuns, Apart, clientVars, Becomes, GuardRan
  <1>3. PostHook(c) =>
           /\ sdk[c].pc = "after" /\ Apart
           /\ \/ /\ c \in Range(tracked.dispatched) /\ LeavesRuns(c)
                 /\ Becomes(c, Issue(c, "complete"))
              \/ /\ c \notin Range(tracked.dispatched) /\ c \in Range(tracked.pendingAsks)
                 /\ sdk[c].ran = "returned" /\ LeavesAsks(c) /\ Becomes(c, Rejects(c))
              \/ /\ c \notin Range(tracked.dispatched)
                 /\ ~(c \in Range(tracked.pendingAsks) /\ sdk[c].ran = "returned")
                 /\ tracked' = tracked
                 /\ Becomes(c, Ends(c, IF sdk[c].ran = "raised" THEN "raised" ELSE "raw"))
    BY DEF PostHook, Apart, clientVars, Becomes, Rejects, LeavesRuns, LeavesAsks
  <1>4. RejectionSent(c) =>
           /\ Answered(c, "resolve") /\ sdk[c].ran # "no" /\ Apart /\ tracked' = tracked
           /\ Becomes(c, Ends(c, "withheld"))
    BY DEF RejectionSent, Apart, clientVars, Becomes
  <1>5. Recorded(c) =>
           /\ Answered(c, "complete") /\ Apart /\ tracked' = tracked
           /\ Becomes(c, Ends(c, RecordShows(c)))
    BY DEF Recorded, Apart, clientVars, Becomes, RecordShows
  <1> QED BY <1>1, <1>2, <1>3, <1>4, <1>5

CallNext(c) ==
    \/ Decided(c) \/ ApproverSays(c) \/ CanUseTool(c) \/ AgentOverrides(c) \/ Resolved(c)
    \/ GuardRuns(c) \/ AgentRuns(c) \/ PostHook(c) \/ RejectionSent(c) \/ Recorded(c)

LEMMA RecordShowsType ==
    ASSUME NEW c
    PROVE  RecordShows(c) \in Shows
  BY DEF RecordShows, GuardShows, PyPostShows, TsPostShows, Shows

\* A step of a call makes a proper caller of c.
LEMMA CallGoes ==
    ASSUME ClientInd, NEW c \in SdkCallers, CallNext(c)
    PROVE  /\ sdk[c].pc \in {"ask", "run", "after"} \/ Answered(c, sdk[c].op)
           /\ Apart
           /\ \E q \in CallerType : Settled(q) /\ GoesTo(sdk, sdk', c, q)
  <1>1. sdk \in [SdkCallers -> CallerType] /\ sdk[c] \in CallerType
    BY BasicFacts
  <1>2. ASSUME NEW q \in CallerType, Settled(q), NEW map, Becomes(c, q) \/ BecomesIn(map, c, q)
        PROVE  \E r \in CallerType : Settled(r) /\ GoesTo(sdk, sdk', c, r)
    BY <1>1, <1>2, GoesFacts DEF Becomes, BecomesIn
  <1>3. ASSUME NEW shown \in Shows, Becomes(c, Ends(c, shown))
        PROVE  \E r \in CallerType : Settled(r) /\ GoesTo(sdk, sdk', c, r)
    BY <1>1, <1>2, <1>3, EndsFacts
  <1>4. "refusal" \in Shows /\ "none" \in Shows /\ "withheld" \in Shows /\ "raw" \in Shows /\ "raised" \in Shows
    BY DEF Shows
  <1>5. CASE Decided(c)
    <2>1. ASSUME NEW k \in {"ask", "allow", "redact"}, NEW p \in {"ask", "run"},
                 NEW map \in {"pendingAsks", "dispatched"},
                 Becomes(c, Decides(c, k, p)) \/ BecomesIn(map, c, Decides(c, k, p))
          PROVE  \E r \in CallerType : Settled(r) /\ GoesTo(sdk, sdk', c, r)
      <3>1. k \in SdkVerdicts
        BY DEF SdkVerdicts
      <3>2. Decides(c, k, p) \in CallerType /\ Settled(Decides(c, k, p))
        BY <1>1, <3>1, SetFacts
      <3> QED BY <1>2, <2>1, <3>2
    <2>2. Answered(c, sdk[c].op) /\ Apart
      BY <1>1, <1>5, DecidedForm DEF Answered
    <2>3. \/ Becomes(c, Ends(c, "refusal"))
          \/ \E k \in {"ask", "allow", "redact"}, p \in {"ask", "run"},
                map \in {"pendingAsks", "dispatched"} :
                Becomes(c, Decides(c, k, p)) \/ BecomesIn(map, c, Decides(c, k, p))
      <3>1. CASE /\ Heard(c) = "ask" /\ BecomesIn("pendingAsks", c, Decides(c, "ask", "ask"))
        BY <3>1
      <3>2. CASE Becomes(c, Decides(c, "ask", "ask"))
        BY <3>2
      <3>3. CASE Heard(c) \in {"allow", "redact"} /\ Becomes(c, Decides(c, Heard(c), "run"))
        BY <3>3
      <3>4. CASE Heard(c) \in {"allow", "redact"} /\ BecomesIn("dispatched", c, Decides(c, Heard(c), "run"))
        BY <3>4
      <3> QED BY <1>1, <1>5, <3>1, <3>2, <3>3, <3>4, DecidedForm
    <2> QED BY <1>3, <1>4, <2>1, <2>2, <2>3
  <1>6. CASE ApproverSays(c)
    <2>1. PICK said \in {"yes", "no", "late"} : Becomes(c, Says(c, said))
      BY <1>1, <1>6, RestForms
    <2>2. Says(c, said) \in CallerType /\ Settled(Says(c, said))
      BY <1>1, SaysFacts
    <2>3. \E r \in CallerType : Settled(r) /\ GoesTo(sdk, sdk', c, r)
      BY <1>2, <2>1, <2>2
    <2> QED BY <1>1, <1>6, <2>3, RestForms
  <1>7. CASE CanUseTool(c)
    <2>1. PICK said \in {"yes", "no"} :
             \/ Becomes(c, Says(c, said))
             \/ Becomes(c, Told(c, said, IF said = "yes" THEN "run" ELSE "done"))
      BY <1>1, <1>7, CanUseToolForm
    <2> DEFINE p == IF said = "yes" THEN "run" ELSE "done"
    <2>2. Says(c, said) \in CallerType /\ Settled(Says(c, said))
      BY <1>1, SaysFacts
    <2>3. Told(c, said, p) \in CallerType /\ Settled(Told(c, said, p))
      <3>1. /\ Told(c, said, "run") \in CallerType /\ Settled(Told(c, said, "run"))
            /\ Told(c, said, "done") \in CallerType /\ Settled(Told(c, said, "done"))
        BY <1>1, ToldFacts
      <3>2. p = "run" \/ p = "done"
        OBVIOUS
      <3> HIDE DEF p
      <3> QED BY <3>1, <3>2
    <2>4. \E r \in CallerType : Settled(r) /\ GoesTo(sdk, sdk', c, r)
      BY <1>2, <2>1, <2>2, <2>3
    <2> QED BY <1>1, <1>7, <2>4, CanUseToolForm
  <1>8. CASE AgentOverrides(c)
    <2>1. Overridden(c) \in CallerType /\ Settled(Overridden(c))
      BY <1>1, SetFacts
    <2>2. Becomes(c, Overridden(c)) /\ sdk[c].pc = "ask" /\ Apart
      BY <1>1, <1>8, OverridesForm
    <2>3. \E r \in CallerType : Settled(r) /\ GoesTo(sdk, sdk', c, r)
      BY <1>2, <2>1, <2>2
    <2> QED BY <2>2, <2>3
  <1>9. CASE Resolved(c)
    <2>1. Decides(c, "allow", "run") \in CallerType /\ Settled(Decides(c, "allow", "run"))
      <3>1. "allow" \in SdkVerdicts
        BY DEF SdkVerdicts
      <3> QED BY <1>1, <3>1, SetFacts
    <2>2. Answered(c, sdk[c].op) /\ Apart
      BY <1>1, <1>9, ResolvedForm DEF Answered
    <2>3. \/ Becomes(c, Ends(c, "refusal")) \/ Becomes(c, Decides(c, "allow", "run"))
          \/ BecomesIn("dispatched", c, Decides(c, "allow", "run"))
      BY <1>1, <1>9, ResolvedForm
    <2>4. \E r \in CallerType : Settled(r) /\ GoesTo(sdk, sdk', c, r)
      BY <1>2, <1>3, <1>4, <2>1, <2>3
    <2> QED BY <2>2, <2>4
  <1>10. CASE GuardRuns(c)
    <2>1. PICK how \in {"returned", "raised"} : Becomes(c, GuardRan(c, how))
      BY <1>1, <1>10, RestForms
    <2>2. GuardRan(c, how) \in CallerType /\ Settled(GuardRan(c, how))
      BY <1>1, GuardRanFacts
    <2>3. \E r \in CallerType : Settled(r) /\ GoesTo(sdk, sdk', c, r)
      BY <1>2, <2>1, <2>2
    <2> QED BY <1>1, <1>10, <2>3, RestForms
  <1>11. CASE AgentRuns(c)
    <2>1. /\ sdk[c].pc = "run" /\ Apart
          /\ \/ \E how \in {"returned", "raised"} : Becomes(c, Ran(c, how))
             \/ Becomes(c, Ends(c, "none"))
      BY <1>1, <1>11, AgentRunsForm
    <2>2. \A how \in {"returned", "raised"} : Ran(c, how) \in CallerType /\ Settled(Ran(c, how))
      BY <1>1, SetFacts
    <2>3. \E r \in CallerType : Settled(r) /\ GoesTo(sdk, sdk', c, r)
      BY <1>2, <1>3, <1>4, <2>1, <2>2
    <2> QED BY <2>1, <2>3
  <1>12. CASE PostHook(c)
    <2>1. /\ sdk[c].pc = "after" /\ Apart
          /\ \/ Becomes(c, Issue(c, "complete")) \/ Becomes(c, Rejects(c))
             \/ Becomes(c, Ends(c, "raised")) \/ Becomes(c, Ends(c, "raw"))
      BY <1>1, <1>12, RestForms
    <2>2. /\ Issue(c, "complete") \in CallerType /\ Settled(Issue(c, "complete"))
          /\ Rejects(c) \in CallerType /\ Settled(Rejects(c))
      BY <1>1, IssueFacts, RejectsFacts DEF Ops
    <2>3. \E r \in CallerType : Settled(r) /\ GoesTo(sdk, sdk', c, r)
      BY <1>2, <1>3, <1>4, <2>1, <2>2
    <2> QED BY <2>1, <2>3
  <1>13. CASE RejectionSent(c)
    <2>1. Answered(c, sdk[c].op) /\ Apart /\ Becomes(c, Ends(c, "withheld"))
      BY <1>1, <1>13, RestForms DEF Answered
    <2> QED BY <1>3, <1>4, <2>1
  <1>14. CASE Recorded(c)
    <2>1. Answered(c, sdk[c].op) /\ Apart /\ Becomes(c, Ends(c, RecordShows(c)))
      BY <1>1, <1>14, RestForms DEF Answered
    <2> QED BY <1>3, <2>1, RecordShowsType
  <1> QED BY <1>5, <1>6, <1>7, <1>8, <1>9, <1>10, <1>11, <1>12, <1>13, <1>14 DEF CallNext

LEMMA CallStep ==
    ASSUME ClientInd, NEW c \in SdkCallers, CallNext(c)
    PROVE  ClientInd'
  <1>1. PICK q \in CallerType : Settled(q) /\ GoesTo(sdk, sdk', c, q)
    BY CallGoes
  <1>2. sdk[c].pc \in {"ask", "run", "after"} \/ Answered(c, sdk[c].op)
    BY CallGoes
  <1>3. program' = program /\ gateways' = gateways /\ current' = current /\ closing' = closing
    BY CallGoes DEF Apart
  <1> QED BY <1>1, <1>2, <1>3, CallConcluded
-----------------------------------------------------------------------------
LEMMA ClientInit == SdkInit => ClientInd
  <1> SUFFICES ASSUME SdkInit PROVE ClientInd
    OBVIOUS
  <1>1. /\ program = NoProgram /\ gateways = <<>> /\ current = 0 /\ closing = "no"
        /\ sdk = [c \in SdkCallers |-> NewCall]
    BY DEF SdkInit
  <1>2. NewCall \in CallerType /\ ~Waiting(NewCall) /\ NewCall.pc = "ensure"
    <2>1. NewCall \in CallerType
      BY DEF NewCall, CallerType, Requesting, Ops
    <2>2. NewCall.pc = "ensure"
      BY DEF NewCall
    <2> QED BY <2>1, <2>2 DEF Waiting
  <1>3. <<>> \in Seq(GatewayType) /\ DOMAIN <<>> = {} /\ Len(<<>>) = 0
    OBVIOUS
  <1>4. TablesOK(sdk, gateways)
    BY <1>1, <1>2, <1>3 DEF TablesOK
  <1>5. Idle
    BY <1>1 DEF Idle
  <1> QED BY <1>1, <1>3, <1>4, <1>5 DEF ClientInd

\* A step that changes nothing of the client's, but for the program at first.
LEMMA ClientSame ==
    ASSUME ClientInd, sdk' = sdk, gateways' = gateways, current' = current, closing' = closing,
           program' = program \/ (program = NoProgram /\ program' \in SdkPrograms)
    PROVE  ClientInd'
  <1>1. TablesOK(sdk', gateways') /\ current' \in 0..Len(gateways')
        /\ closing' \in {"no", "waiting", "closed"} /\ (closing' = "waiting" => gateways' # <<>>)
    BY DEF ClientInd
  <1>2. TablesOK(sdk, gateways)'
    BY <1>1 DEF TablesOK, Waiting, Once
  <1>3. CASE program' = program
    <2>1. TypeScript' = TypeScript
      BY <1>3 DEF TypeScript
    <2>2. Idle'
      BY <1>3 DEF ClientInd, Idle
    <2> QED BY <1>1, <1>2, <1>3, <2>1, <2>2 DEF ClientInd
  <1>4. CASE program = NoProgram /\ program' \in SdkPrograms
    <2>1. gateways' = <<>> /\ DOMAIN <<>> = {}
      BY <1>4 DEF ClientInd, Idle
    <2>2. Idle'
      BY <1>4 DEF ClientInd, Idle
    <2> QED BY <1>1, <1>2, <1>4, <2>1, <2>2 DEF ClientInd
  <1> QED BY <1>3, <1>4

\* The client's own steps.
ClientNext ==
    \/ Close \/ CloseReturns \/ TsClose \/ OnLine \/ OnClose
    \/ \E g \in DOMAIN gateways : Read(g) \/ ReadEof(g)
    \/ \E c \in SdkCallers :
          \/ Ensure(c) \/ Register(c) \/ Write(c) \/ TimesOut(c) \/ Cancelled(c)
          \/ TsRequest(c) \/ TsTimesOut(c)

LEMMA ClientNextStep ==
    ASSUME ClientInd, ClientNext
    PROVE  ClientInd' /\ ClientMoves
  <1>1. CASE Close \/ CloseReturns \/ TsClose \/ OnLine \/ OnClose
    BY <1>1, CloseStep, CloseReturnsStep, TsCloseStep, OnLineStep, OnCloseStep
  <1>2. CASE \E g \in DOMAIN gateways : Read(g) \/ ReadEof(g)
    BY <1>2, ReadStep, ReadEofStep
  <1>3. ASSUME NEW c \in SdkCallers,
               \/ Ensure(c) \/ Register(c) \/ Write(c) \/ TimesOut(c) \/ Cancelled(c)
               \/ TsRequest(c) \/ TsTimesOut(c)
        PROVE  ClientInd' /\ ClientMoves
    BY <1>3, EnsureStep, RegisterStep, WriteStep, TimesOutStep, CancelledStep,
       TsRequestStep, TsTimesOutStep
  <1> QED BY <1>1, <1>2, <1>3 DEF ClientNext

LEMMA SdkSteps ==
    ASSUME SdkNext
    PROVE  \/ ClientNext
           \/ \E g \in DOMAIN gateways : Serve(g) \/ ChildEnds(g) \/ BadLine(g)
           \/ \E c \in SdkCallers : CallNext(c)
           \/ SdkStart \/ SdkTick
  BY DEF SdkNext, ClientNext, CallNext

LEMMA ClientStep == ClientInd /\ [SdkNext]_sdkVars => ClientInd'
  <1> SUFFICES ASSUME ClientInd, [SdkNext]_sdkVars PROVE ClientInd'
    OBVIOUS
  <1>1. CASE UNCHANGED sdkVars
    BY <1>1, ClientSame DEF sdkVars, clientVars
  <1>2. CASE SdkNext
    <2>1. CASE ClientNext
      BY <2>1, ClientNextStep
    <2>2. CASE \E g \in DOMAIN gateways : Serve(g) \/ ChildEnds(g) \/ BadLine(g)
      BY <2>2, ServeStep, ChildFaultStep
    <2>3. CASE \E c \in SdkCallers : CallNext(c)
      BY <2>3, CallStep
    <2>4. CASE SdkStart
      BY <2>4, ClientSame DEF SdkStart, clientVars
    <2>5. CASE SdkTick
      BY <2>5, ClientSame DEF SdkTick, clientVars
    <2> QED BY <1>2, <2>1, <2>2, <2>3, <2>4, <2>5, SdkSteps
  <1> QED BY <1>1, <1>2

\* No caller of the SDK waits for a child its client has given up: register,
\* _fail, poison and close (client.py, client.ts) keep whoever has no answer
\* in the table of a child whose end the client will notice.
THEOREM NobodyIsStranded == SdkSpec => []NobodyStranded
  <1>1. ClientInd => NobodyStranded
    <2> SUFFICES ASSUME ClientInd, NEW c \in SdkCallers, Waiting(sdk[c])
                 PROVE  ~gateways[sdk[c].gw].dead /\ c \in Range(gateways[sdk[c].gw].pending)
      BY DEF NobodyStranded, Waiting
    <2> QED BY DEF ClientInd, TablesOK
  <1> QED BY <1>1, ClientInit, ClientStep, PTL DEF SdkSpec

-----------------------------------------------------------------------------
(***************************************************************************)
(* What the calls, the ledger and the hooks agree about                    *)
(***************************************************************************)
\* The request for the decision is not written yet.
Unsent(q) == q.op = "decide" /\ q.pc \in {"ensure", "register", "write"}

\* The ledger has at most one record of a kind for a call.
LogOK(callers, log) ==
    /\ log \in [SdkCallers -> [decisions : {0, 1}, executions : {0, 1}]]
    /\ \A c \in SdkCallers : Unsent(callers[c]) => log[c].decisions = 0

DecideLine(gs, g, i) == i \in DOMAIN gs[g].inbox /\ gs[g].inbox[i].op = "decide"

\* A decision is asked for once at most, and is not on the ledger then.
LinesOK(gs, callers, log) ==
    /\ \A g \in DOMAIN gs : \A i \in DOMAIN gs[g].inbox : DecideLine(gs, g, i) =>
          /\ ~Unsent(callers[gs[g].inbox[i].caller])
          /\ log[gs[g].inbox[i].caller].decisions = 0
    /\ \A g, h \in DOMAIN gs : \A i \in DOMAIN gs[g].inbox : \A j \in DOMAIN gs[h].inbox :
          DecideLine(gs, g, i) /\ DecideLine(gs, h, j) /\ gs[g].inbox[i].caller = gs[h].inbox[j].caller
             => g = h /\ i = j

\* What an answer says is on the ledger, in l, and what the policy says, v.
Backed(a, l, v) ==
    /\ a.op = "decide" /\ a.kind # "error" => a.kind = v /\ l.decisions = 1
    /\ a.op = "complete" /\ a.kind # "error" =>
          /\ l.executions = 1
          /\ a.kind = IF v = "redact" THEN "masked" ELSE "recorded"

\* The decision a call goes by is the ledger's, or the approver's.
Fits(q, l, v) ==
    /\ l.decisions = 1
    /\ \/ q.decision = v /\ v \in {"allow", "redact"}
       \/ q.decision = "allow" /\ v = "ask" /\ q.said = "yes"

Asking(q, l, v) == l.decisions = 1 /\ v = "ask" /\ q.decision = "ask"

\* A call, its records l, the policy's verdict v, how it is gated, and whose
\* entries the hooks have.
CallOK(c, q, l, v, f, runs, asks) ==
    /\ q.pc # "done" => q.shown = "none"
    /\ q.sent = TRUE => q.said = "yes"
    /\ q.pc \in Requesting /\ q.op = "decide" => q.ran = "no" /\ q.evicted = FALSE /\ q.sent = FALSE
    /\ q.pc = "ask" => q.sent = FALSE
    /\ q.pc = "ask" \/ (q.pc \in Requesting /\ q.op = "resolve" /\ q.ran = "no") =>
          Asking(q, l, v) /\ q.ran = "no"
    /\ q.pc = "ask" /\ f = "prompt" => q.evicted = TRUE \/ c \in asks
    /\ q.pc = "run" => q.ran = "no" /\ (q.overridden = TRUE \/ q.evicted = TRUE \/ Fits(q, l, v))
    /\ q.pc = "run" /\ f = "guard" => Fits(q, l, v)
    /\ q.pc = "after" => f # "guard" /\ q.ran # "no"
    /\ q.pc \in {"run", "after"} /\ f # "guard" => q.evicted = TRUE \/ c \in runs \/ c \in asks
    /\ q.pc \in Requesting /\ q.op = "complete" => Fits(q, l, v) /\ q.ran # "no"
    /\ c \in runs => q.pc \in {"run", "after", "done"} /\ Fits(q, l, v) /\ f # "guard"
    /\ c \in asks => q.pc \in {"ask", "run", "after", "done"} /\ Asking(q, l, v) /\ f = "prompt"
    /\ q.ran # "no" /\ q.overridden = FALSE /\ q.evicted = FALSE =>
          l.decisions = 1 /\ (v \in {"allow", "redact"} \/ (v = "ask" /\ q.said = "yes"))
    /\ q.shown \in {"raw", "masked"} /\ f = "guard" => l.executions = 1
    /\ q.shown = "raw" /\ q.evicted = FALSE => v = "allow" \/ (v = "ask" /\ q.said = "yes")

AnswersOK(gs, callers, log) ==
    /\ \A g \in DOMAIN gs : \A i \in DOMAIN gs[g].outbox : gs[g].outbox[i].kind # "bad" =>
          LET a == gs[g].outbox[i] IN Backed(a, log[a.caller], program.verdict[a.caller])
    /\ \A c \in SdkCallers : callers[c].fut \in AnswerType =>
          LET a == callers[c].fut IN Backed(a, log[a.caller], program.verdict[a.caller])

CallsOK(callers, log, maps) ==
    \A c \in SdkCallers :
       CallOK(c, callers[c], log[c], program.verdict[c], GatedBy(c),
              Range(maps.dispatched), Range(maps.pendingAsks))

MapsOK(maps) ==
    /\ maps \in [dispatched : Seq(SdkCallers), pendingAsks : Seq(SdkCallers)]
    /\ Once(maps.dispatched) /\ Once(maps.pendingAsks)

RecordInd ==
    /\ LogOK(sdk, sdkLog) /\ LinesOK(gateways, sdk, sdkLog)
    /\ AnswersOK(gateways, sdk, sdkLog) /\ CallsOK(sdk, sdkLog, tracked) /\ MapsOK(tracked)

\* A step that leaves the program alone keeps the invariant if its parts hold.
LEMMA RecordConcluded ==
    ASSUME program' = program, LogOK(sdk', sdkLog'), LinesOK(gateways', sdk', sdkLog'),
           AnswersOK(gateways', sdk', sdkLog'), CallsOK(sdk', sdkLog', tracked'), MapsOK(tracked')
    PROVE  RecordInd'
  <1>1. LogOK(sdk, sdkLog)' /\ MapsOK(tracked)'
    BY DEF LogOK, MapsOK, Once, Unsent
  <1>2. LinesOK(gateways, sdk, sdkLog)'
    BY DEF LinesOK, DecideLine, Unsent
  <1>3. AnswersOK(gateways, sdk, sdkLog)'
    BY DEF AnswersOK
  <1>4. CallsOK(sdk, sdkLog, tracked)'
    BY DEF CallsOK, GatedBy
  <1> QED BY <1>1, <1>2, <1>3, <1>4 DEF RecordInd

LEMMA CallMoved ==
    ASSUME NEW c, NEW q \in CallerType, NEW r \in CallerType, NEW l, NEW v, NEW f, NEW runs, NEW asks,
           CallOK(c, q, l, v, f, runs, asks), SameCall(q, r), Advances(q, r)
    PROVE  CallOK(c, r, l, v, f, runs, asks) /\ (Unsent(r) => Unsent(q))
  <1>1. /\ Fits(r, l, v) <=> Fits(q, l, v)
        /\ Asking(r, l, v) <=> Asking(q, l, v)
    BY DEF SameCall, Fits, Asking
  <1>2. CASE r.pc = q.pc
    BY <1>1, <1>2 DEF SameCall, CallOK, Unsent
  <1>3. CASE q.pc \in {"ensure", "register", "write"} /\ r.pc \in {"register", "write", "wait"}
    <2>1. q.pc \in Requesting /\ r.pc \in Requesting
      BY <1>3 DEF Requesting
    <2> QED BY <1>1, <1>3, <2>1 DEF SameCall, CallOK, Unsent
  <1>4. CASE q.pc = "wait" /\ r.pc = "done"
    <2>1. "done" \notin Requesting
      BY DEF Requesting
    <2> QED BY <1>1, <1>4, <2>1 DEF SameCall, CallOK, Unsent
  <1> QED BY <1>2, <1>3, <1>4 DEF Advances

LEMMA ClientLog ==
    ASSUME ClientInd, ClientInd', RecordInd, ClientMoves
    PROVE  LogOK(sdk', sdkLog') /\ CallsOK(sdk', sdkLog', tracked') /\ MapsOK(tracked')
  <1>1. /\ LogOK(sdk, sdkLog) /\ CallsOK(sdk, sdkLog, tracked) /\ MapsOK(tracked)
        /\ sdkLog' = sdkLog /\ tracked' = tracked
    BY DEF RecordInd, ClientMoves
  <1>2. sdk \in [SdkCallers -> CallerType] /\ sdk' \in [SdkCallers -> CallerType]
    BY DEF ClientInd, TablesOK
  <1>3. ASSUME NEW c \in SdkCallers
        PROVE  /\ CallOK(c, sdk'[c], sdkLog[c], program.verdict[c], GatedBy(c),
                         Range(tracked.dispatched), Range(tracked.pendingAsks))
               /\ Unsent(sdk'[c]) => Unsent(sdk[c])
    <2>1. CallOK(c, sdk[c], sdkLog[c], program.verdict[c], GatedBy(c),
                 Range(tracked.dispatched), Range(tracked.pendingAsks))
      BY <1>1 DEF CallsOK
    <2>2. sdk[c] \in CallerType /\ sdk'[c] \in CallerType /\ SameCall(sdk[c], sdk'[c]) /\ Advances(sdk[c], sdk'[c])
      BY <1>2 DEF ClientMoves, Moves
    <2> QED BY <2>1, <2>2, CallMoved
  <1> QED BY <1>1, <1>3 DEF LogOK, CallsOK

LEMMA ClientLines ==
    ASSUME ClientInd, ClientInd', RecordInd, ClientMoves
    PROVE  LinesOK(gateways', sdk', sdkLog')
  <1> DEFINE gs == gateways'
             cs == sdk'
  <1>1. /\ LogOK(sdk, sdkLog) /\ LinesOK(gateways, sdk, sdkLog) /\ sdkLog' = sdkLog
        /\ \A c \in SdkCallers : Unsent(cs[c]) => Unsent(sdk[c])
    <2>1. \A c \in SdkCallers : Moves(sdk[c], cs[c])
      BY DEF ClientMoves
    <2>2. ASSUME NEW c \in SdkCallers PROVE Unsent(cs[c]) => Unsent(sdk[c])
      BY <2>1 DEF Moves, SameCall, Advances, Unsent
    <2> QED BY <2>2 DEF RecordInd, ClientMoves
  <1>2. gs \in Seq(GatewayType) /\ gateways \in Seq(GatewayType)
    BY DEF ClientInd, TablesOK
  <1>3. PipesMove
    BY DEF ClientMoves
  <1>4. CASE \A g \in DOMAIN gs : gs[g].inbox = OldInbox(g)
    <2>1. ASSUME NEW g \in DOMAIN gs, NEW i \in DOMAIN gs[g].inbox
          PROVE  g \in DOMAIN gateways /\ gs[g].inbox = gateways[g].inbox
      <3>1. DOMAIN <<>> = {}
        OBVIOUS
      <3> QED BY <1>4, <3>1 DEF OldInbox
    <2>2. ASSUME NEW g \in DOMAIN gs, NEW i \in DOMAIN gs[g].inbox
          PROVE  gs[g].inbox[i].caller \in SdkCallers
      <3>1. gs[g] \in GatewayType
        BY <1>2, ChildFacts
      <3>2. gs[g].inbox \in Seq(LineType)
        BY <3>1 DEF GatewayType
      <3>3. gs[g].inbox[i] \in LineType
        BY <3>2
      <3> QED BY <3>3 DEF LineType
    <2> HIDE DEF gs, cs
    <2>3. LinesOK(gs, cs, sdkLog)
      BY <1>1, <2>1, <2>2 DEF LinesOK, DecideLine
    <2> QED BY <1>1, <2>3 DEF gs, cs
  <1>5. ASSUME NEW c \in SdkCallers, NEW k \in DOMAIN gs, SentTo(c, k)
        PROVE  LinesOK(gs, cs, sdkLog)
    <2> DEFINE old == OldInbox(k)
    <2>1. /\ sdk[c].pc \in {"ensure", "write"} /\ cs[c].pc = "wait"
          /\ gs[k].inbox = Append(old, Line(c))
          /\ \A g \in DOMAIN gs : g # k => gs[g].inbox = OldInbox(g)
      BY <1>5 DEF SentTo
    <2>2. old \in Seq(LineType)
      <3>1. CASE k \in DOMAIN gateways
        <4>1. gateways[k] \in GatewayType
          BY <1>2, <3>1, ChildFacts
        <4> QED BY <3>1, <4>1 DEF OldInbox, GatewayType
      <3>2. CASE k \notin DOMAIN gateways
        BY <3>2 DEF OldInbox
      <3> QED BY <3>1, <3>2
    <2> HIDE DEF old
    <2>3. /\ DOMAIN gs[k].inbox = 1..(Len(old) + 1) /\ DOMAIN old = 1..Len(old) /\ Len(old) \in Nat
          /\ gs[k].inbox[Len(old) + 1] = Line(c)
          /\ \A i \in DOMAIN old : gs[k].inbox[i] = old[i]
      BY <2>1, <2>2
    <2>4. /\ Line(c).caller = c /\ Line(c).op = sdk[c].op
      BY DEF Line
    \* A line is an old one, or the one that is sent.
    <2>5. ASSUME NEW g \in DOMAIN gs, NEW i \in DOMAIN gs[g].inbox
          PROVE  \/ /\ g \in DOMAIN gateways /\ i \in DOMAIN gateways[g].inbox
                    /\ gs[g].inbox[i] = gateways[g].inbox[i]
                    /\ gs[g].inbox[i].caller \in SdkCallers
                 \/ g = k /\ i = Len(old) + 1 /\ gs[g].inbox[i] = Line(c)
      <3>1. CASE g = k /\ i = Len(old) + 1
        BY <2>3, <3>1
      <3>2. CASE ~(g = k /\ i = Len(old) + 1)
        <4>1. i \in DOMAIN OldInbox(g) /\ gs[g].inbox[i] = OldInbox(g)[i]
          <5>1. CASE g = k
            <6>1. i \in DOMAIN old
              BY <2>3, <3>2, <5>1
            <6> QED BY <2>3, <5>1, <6>1 DEF old
          <5>2. CASE g # k
            BY <2>1, <5>2
          <5> QED BY <5>1, <5>2
        <4>2. g \in DOMAIN gateways
          <5>1. DOMAIN <<>> = {}
            OBVIOUS
          <5> QED BY <4>1, <5>1 DEF OldInbox
        <4>3. i \in DOMAIN gateways[g].inbox /\ gs[g].inbox[i] = gateways[g].inbox[i]
          BY <4>1, <4>2 DEF OldInbox
        <4>4. gateways[g].inbox[i] \in LineType
          <5>1. gateways[g] \in GatewayType
            BY <1>2, <4>2, ChildFacts
          <5>2. gateways[g].inbox \in Seq(LineType)
            BY <5>1 DEF GatewayType
          <5> QED BY <4>3, <5>2
        <4> QED BY <4>2, <4>3, <4>4 DEF LineType
      <3> QED BY <3>1, <3>2
    <2>6. sdk[c].op = "decide" => Unsent(sdk[c]) /\ ~Unsent(cs[c]) /\ sdkLog[c].decisions = 0
      BY <1>1, <2>1 DEF Unsent, LogOK
    <2> HIDE DEF gs, cs
    <2>7. ASSUME NEW g \in DOMAIN gs, NEW i \in DOMAIN gs[g].inbox, DecideLine(gs, g, i)
          PROVE  /\ ~Unsent(cs[gs[g].inbox[i].caller])
                 /\ sdkLog[gs[g].inbox[i].caller].decisions = 0
      <3>1. CASE gs[g].inbox[i] = Line(c)
        BY <2>4, <2>6, <2>7, <3>1 DEF DecideLine
      <3>2. CASE /\ g \in DOMAIN gateways /\ i \in DOMAIN gateways[g].inbox
                 /\ gs[g].inbox[i] = gateways[g].inbox[i] /\ gs[g].inbox[i].caller \in SdkCallers
        BY <1>1, <2>7, <3>2 DEF DecideLine, LinesOK
      <3> QED BY <2>5, <3>1, <3>2
    <2>8. ASSUME NEW g \in DOMAIN gs, NEW h \in DOMAIN gs, NEW i \in DOMAIN gs[g].inbox,
                 NEW j \in DOMAIN gs[h].inbox, DecideLine(gs, g, i), DecideLine(gs, h, j),
                 gs[g].inbox[i].caller = gs[h].inbox[j].caller
          PROVE  g = h /\ i = j
      <3>1. CASE gs[g].inbox[i] = Line(c) /\ gs[h].inbox[j] = Line(c) /\ g = k /\ h = k
                 /\ i = Len(old) + 1 /\ j = Len(old) + 1
        BY <3>1
      <3>2. ASSUME NEW x \in DOMAIN gateways, NEW y \in DOMAIN gateways[x].inbox,
                   gateways[x].inbox[y].op = "decide", gateways[x].inbox[y].caller = c,
                   sdk[c].op = "decide"
            PROVE  FALSE
        BY <1>1, <2>6, <3>2 DEF LinesOK, DecideLine
      <3>3. CASE /\ g \in DOMAIN gateways /\ i \in DOMAIN gateways[g].inbox
                 /\ gs[g].inbox[i] = gateways[g].inbox[i]
                 /\ h \in DOMAIN gateways /\ j \in DOMAIN gateways[h].inbox
                 /\ gs[h].inbox[j] = gateways[h].inbox[j]
        BY <1>1, <2>8, <3>3 DEF LinesOK, DecideLine
      <3>4. CASE gs[g].inbox[i] = Line(c) /\ h \in DOMAIN gateways /\ j \in DOMAIN gateways[h].inbox
                 /\ gs[h].inbox[j] = gateways[h].inbox[j]
        BY <2>4, <2>8, <3>2, <3>4 DEF DecideLine
      <3>5. CASE gs[h].inbox[j] = Line(c) /\ g \in DOMAIN gateways /\ i \in DOMAIN gateways[g].inbox
                 /\ gs[g].inbox[i] = gateways[g].inbox[i]
        BY <2>4, <2>8, <3>2, <3>5 DEF DecideLine
      <3> QED BY <2>5, <3>1, <3>3, <3>4, <3>5
    <2> QED BY <2>7, <2>8 DEF LinesOK
  <1> QED BY <1>1, <1>3, <1>4, <1>5 DEF PipesMove, gs, cs

LEMMA TailFacts ==
    ASSUME NEW S, NEW s \in Seq(S), NEW i \in DOMAIN Tail(s)
    PROVE  i + 1 \in DOMAIN s /\ Tail(s)[i] = s[i + 1]
  <1>1. CASE s = <<>>
    <2>1. Tail(<<>>) = <<>> /\ DOMAIN <<>> = {}
      OBVIOUS
    <2> QED BY <1>1, <2>1
  <1>2. CASE s # <<>>
    BY <1>2
  <1> QED BY <1>1, <1>2

\* An answer that says what the ledger and the policy say.
IsBacked(a) == Backed(a, sdkLog[a.caller], program.verdict[a.caller])

LEMMA ClientAnswers ==
    ASSUME ClientInd, ClientInd', RecordInd, ClientMoves
    PROVE  AnswersOK(gateways', sdk', sdkLog')
  <1> DEFINE gs == gateways'
             cs == sdk'
  <1>1. /\ sdkLog' = sdkLog /\ gateways \in Seq(GatewayType)
        /\ \A g \in DOMAIN gs : gs[g].outbox \in {OldOutbox(g), <<>>, Tail(OldOutbox(g))}
        /\ \A c \in SdkCallers : Heeds(sdk[c], cs[c])
    BY DEF ClientInd, TablesOK, ClientMoves, PipesMove, Moves
  <1>2. /\ \A g \in DOMAIN gateways : \A i \in DOMAIN gateways[g].outbox :
              gateways[g].outbox[i].kind # "bad" => IsBacked(gateways[g].outbox[i])
        /\ \A c \in SdkCallers : sdk[c].fut \in AnswerType => IsBacked(sdk[c].fut)
    BY DEF RecordInd, AnswersOK, IsBacked
  <1>3. ASSUME NEW g \in DOMAIN gs, NEW i \in DOMAIN gs[g].outbox, gs[g].outbox[i].kind # "bad"
        PROVE  IsBacked(gs[g].outbox[i])
    <2> DEFINE old == OldOutbox(g)
    <2>1. DOMAIN <<>> = {}
      OBVIOUS
    <2>2. old \in Seq(AnswerType \cup {BadAnswer})
      <3>1. CASE g \in DOMAIN gateways
        <4>1. gateways[g] \in GatewayType
          BY <1>1, <3>1, ChildFacts
        <4> QED BY <3>1, <4>1 DEF OldOutbox, GatewayType
      <3>2. CASE g \notin DOMAIN gateways
        BY <3>2 DEF OldOutbox
      <3> QED BY <3>1, <3>2
    <2> HIDE DEF gs, old
    <2>3. PICK j \in DOMAIN old : gs[g].outbox[i] = old[j]
      <3>1. CASE gs[g].outbox = old
        BY <3>1
      <3>2. CASE gs[g].outbox = Tail(old)
        BY <2>2, <3>2, TailFacts
      <3> QED BY <1>1, <2>1, <3>1, <3>2 DEF old
    <2>4. g \in DOMAIN gateways /\ old = gateways[g].outbox
      BY <2>1, <2>3 DEF OldOutbox, old
    <2> QED BY <1>2, <1>3, <2>3, <2>4
  <1>4. ASSUME NEW c \in SdkCallers, cs[c].fut \in AnswerType
        PROVE  IsBacked(cs[c].fut)
    <2> HIDE DEF cs
    <2>1. CASE cs[c].fut \in {sdk[c].fut, Silence, Failure}
      <3>1. Silence \notin AnswerType /\ Failure \notin AnswerType
        BY DEF Silence, Failure, AnswerType
      <3> QED BY <1>2, <1>4, <2>1, <3>1
    <2>2. CASE \E g \in DOMAIN gateways : \E i \in DOMAIN gateways[g].outbox :
                  cs[c].fut = gateways[g].outbox[i] /\ cs[c].fut.kind # "bad"
      BY <1>2, <2>2
    <2> QED BY <1>1, <2>1, <2>2 DEF Heeds
  <1> HIDE DEF gs, cs
  <1>5. AnswersOK(gs, cs, sdkLog)
    BY <1>3, <1>4 DEF AnswersOK, IsBacked
  <1> QED BY <1>1, <1>5 DEF gs, cs

LEMMA ClientRecord ==
    ASSUME ClientInd, RecordInd, ClientNext
    PROVE  RecordInd'
  <1>1. ClientInd' /\ ClientMoves
    BY ClientNextStep
  <1>2. program' = program
    BY <1>1 DEF ClientMoves
  <1> QED BY <1>1, <1>2, ClientLog, ClientLines, ClientAnswers, RecordConcluded
-----------------------------------------------------------------------------
RecordType == [decisions : {0, 1}, executions : {0, 1}]

\* What was recorded stays recorded.
Grows(l, m) ==
    /\ l.decisions = 1 => m.decisions = 1
    /\ l.executions = 1 => m.executions = 1

LEMMA GrowsFacts ==
    ASSUME NEW l, NEW m, Grows(l, m), NEW v
    PROVE  /\ \A a : Backed(a, l, v) => Backed(a, m, v)
           /\ \A c, q, f, runs, asks :
                 CallOK(c, q, l, v, f, runs, asks) => CallOK(c, q, m, v, f, runs, asks)
  <1>1. ASSUME NEW a, Backed(a, l, v) PROVE Backed(a, m, v)
    BY <1>1 DEF Grows, Backed
  <1>2. ASSUME NEW c, NEW q, NEW f, NEW runs, NEW asks, CallOK(c, q, l, v, f, runs, asks)
        PROVE  CallOK(c, q, m, v, f, runs, asks)
    <2>1. /\ Fits(q, l, v) => Fits(q, m, v)
          /\ Asking(q, l, v) => Asking(q, m, v)
      BY DEF Grows, Fits, Asking
    <2> QED BY <1>2, <2>1 DEF Grows, CallOK
  <1> QED BY <1>1, <1>2

\* The ledger after child g served line r: the caller's records grow, a
\* decision is added for a line that asks for one, and the answer is backed.
LEMMA ServedRecord ==
    ASSUME ClientInd, RecordInd, program \in SdkPrograms, NEW g \in DOMAIN gateways,
           NEW r \in LineType, NEW s \in Served(r), ServeDoes(g, r, s)
    PROVE  /\ sdkLog' \in [SdkCallers -> RecordType]
           /\ \A c \in SdkCallers : Grows(sdkLog[c], sdkLog'[c])
           /\ \A c \in SdkCallers : sdkLog'[c].decisions # sdkLog[c].decisions =>
                 c = r.caller /\ r.op = "decide"
           /\ Backed(Reply(r, s[2]), sdkLog'[r.caller], program.verdict[r.caller])
  <1> DEFINE d == r.caller
             l == sdkLog[d]
             v == program.verdict[d]
  <1>1. d \in SdkCallers /\ r.op \in {"decide", "resolve", "complete"}
    BY DEF LineType, Ops
  <1>2. sdkLog \in [SdkCallers -> RecordType] /\ l \in RecordType
    BY <1>1 DEF RecordInd, LogOK, RecordType
  <1>3. sdkLog' = [sdkLog EXCEPT ![d] = s[1]]
    BY DEF ServeDoes
  <1>4. r.op = "decide" => l.decisions = 0
    <2>1. gateways[g].inbox # <<>> /\ r = gateways[g].inbox[1] /\ gateways[g].inbox \in Seq(LineType)
      <3>1. gateways[g] \in GatewayType
        BY ChildFacts DEF ClientInd, TablesOK
      <3> QED BY <3>1 DEF ServeDoes, GatewayType
    <2>2. 1 \in DOMAIN gateways[g].inbox
      BY <2>1
    <2> QED BY <2>1, <2>2 DEF RecordInd, LinesOK, DecideLine
  <1>5. /\ s[1] \in RecordType /\ Grows(l, s[1])
        /\ s[1].decisions # l.decisions => r.op = "decide"
        /\ Backed(Reply(r, s[2]), s[1], v)
    <2>0. /\ Reply(r, s[2]).op = r.op /\ Reply(r, s[2]).kind = s[2]
      BY DEF Reply
    <2>1. CASE s[2] = "error"
      <3>1. s[1] = l
        BY <2>1, ServedFacts
      <3> QED BY <1>2, <2>0, <2>1, <3>1 DEF Grows, Backed
    <2>2. CASE s[2] # "error" /\ r.op = "decide"
      <3>1. s[1] = [l EXCEPT !.decisions = @ + 1] /\ s[2] = v
        BY <2>2, ServedFacts
      <3>2. s[1] \in RecordType /\ s[1].decisions = 1 /\ s[1].executions = l.executions
        BY <1>2, <1>4, <2>2, <3>1 DEF RecordType
      <3> QED BY <2>0, <2>2, <3>1, <3>2 DEF Grows, Backed
    <2>3. CASE s[2] # "error" /\ r.op = "resolve"
      <3>1. s[1] = l
        BY <2>3, ServedFacts
      <3> QED BY <1>2, <2>0, <2>3, <3>1 DEF Grows, Backed
    <2>4. CASE s[2] # "error" /\ r.op = "complete"
      <3>1. s[1] = [l EXCEPT !.executions = 1] /\ s[2] = IF v = "redact" THEN "masked" ELSE "recorded"
        BY <2>4, ServedFacts
      <3>2. s[1] \in RecordType /\ s[1].decisions = l.decisions /\ s[1].executions = 1
        BY <1>2, <3>1 DEF RecordType
      <3> QED BY <2>0, <2>4, <3>1, <3>2 DEF Grows, Backed
    <2> QED BY <1>1, <2>1, <2>2, <2>3, <2>4
  <1> DEFINE log == sdkLog'
  <1>6. /\ log \in [SdkCallers -> RecordType] /\ log[d] = s[1]
        /\ \A c \in SdkCallers : c # d => log[c] = sdkLog[c]
    BY <1>1, <1>2, <1>3, <1>5
  <1> HIDE DEF log
  <1>7. /\ \A c \in SdkCallers : Grows(sdkLog[c], log[c])
        /\ \A c \in SdkCallers : log[c].decisions # sdkLog[c].decisions => c = d /\ r.op = "decide"
    BY <1>5, <1>6 DEF Grows
  <1> QED BY <1>5, <1>6, <1>7 DEF log

\* The callers stay as they are, the ledger grows: who waits to ask still
\* has no decision, and the calls are as they were.
LEMMA GrownCalls ==
    ASSUME RecordInd, NEW log \in [SdkCallers -> RecordType],
           \A c \in SdkCallers : Grows(sdkLog[c], log[c])
    PROVE  /\ CallsOK(sdk, log, tracked)
           /\ \A c \in SdkCallers : sdk[c].fut \in AnswerType =>
                 \A e \in SdkCallers : sdk[c].fut.caller = e =>
                    Backed(sdk[c].fut, log[e], program.verdict[e])
  <1>1. CallsOK(sdk, sdkLog, tracked) /\ AnswersOK(gateways, sdk, sdkLog)
    BY DEF RecordInd
  <1>2. CallsOK(sdk, log, tracked)
    BY <1>1, GrowsFacts DEF CallsOK
  <1>3. ASSUME NEW c \in SdkCallers, sdk[c].fut \in AnswerType, NEW e \in SdkCallers, sdk[c].fut.caller = e
        PROVE  Backed(sdk[c].fut, log[e], program.verdict[e])
    <2>1. Backed(sdk[c].fut, sdkLog[e], program.verdict[e])
      BY <1>1, <1>3 DEF AnswersOK
    <2> QED BY <2>1, GrowsFacts
  <1> QED BY <1>2, <1>3

LEMMA ServeLines ==
    ASSUME ClientInd, RecordInd, program \in SdkPrograms, NEW g \in DOMAIN gateways,
           NEW r \in LineType, NEW s \in Served(r), ServeDoes(g, r, s)
    PROVE  LogOK(sdk, sdkLog') /\ LinesOK(gateways', sdk, sdkLog')
  <1> DEFINE gs == gateways'
             log == sdkLog'
  <1>1. gateways \in Seq(GatewayType) /\ LogOK(sdk, sdkLog) /\ LinesOK(gateways, sdk, sdkLog)
    BY DEF ClientInd, TablesOK, RecordInd
  <1>2. /\ log \in [SdkCallers -> RecordType]
        /\ \A c \in SdkCallers : log[c].decisions # sdkLog[c].decisions => c = r.caller /\ r.op = "decide"
    BY ServedRecord
  <1>3. ChildOnly(gateways, gs, g) /\ gs[g].inbox \in {Tail(gateways[g].inbox), <<>>}
    BY DEF ServeDoes
  <1>4. r = gateways[g].inbox[1] /\ 1 \in DOMAIN gateways[g].inbox /\ gateways[g].inbox \in Seq(LineType)
    <2>1. gateways[g].inbox # <<>> /\ r = gateways[g].inbox[1] /\ gateways[g].inbox \in Seq(LineType)
      <3>1. gateways[g] \in GatewayType
        BY <1>1, ChildFacts
      <3> QED BY <3>1 DEF ServeDoes, GatewayType
    <2> QED BY <2>1
  <1> HIDE DEF gs, log
  <1>5. DOMAIN gs = DOMAIN gateways /\ \A h \in DOMAIN gateways : h # g => gs[h] = gateways[h]
    BY <1>1, <1>3, ChildOnlyFacts
  <1> DEFINE at(h, i) == IF h = g THEN i + 1 ELSE i
  \* What is left was there, and is not the line that was taken.
  <1>6. ASSUME NEW h \in DOMAIN gs, NEW i \in DOMAIN gs[h].inbox
        PROVE  /\ h \in DOMAIN gateways /\ at(h, i) \in DOMAIN gateways[h].inbox
               /\ gs[h].inbox[i] = gateways[h].inbox[at(h, i)]
               /\ ~(h = g /\ at(h, i) = 1) /\ gs[h].inbox[i].caller \in SdkCallers
               /\ i \in Nat
    <2>1. CASE h # g
      <3>1. gateways[h].inbox \in Seq(LineType) /\ gs[h] = gateways[h] /\ h \in DOMAIN gateways
        <4>1. gateways[h] \in GatewayType
          BY <1>1, <1>5, ChildFacts
        <4> QED BY <1>5, <2>1, <4>1 DEF GatewayType
      <3>2. gateways[h].inbox[i] \in LineType /\ i \in Nat
        BY <3>1
      <3> QED BY <2>1, <3>1, <3>2 DEF LineType
    <2>2. CASE h = g
      <3>1. DOMAIN <<>> = {}
        OBVIOUS
      <3>2. gs[g].inbox = Tail(gateways[g].inbox) /\ i \in DOMAIN Tail(gateways[g].inbox)
        BY <1>3, <2>2, <3>1
      <3> DEFINE box == gateways[g].inbox
      <3>3. box \in Seq(LineType) /\ i \in DOMAIN Tail(box)
        BY <1>4, <3>2
      <3> HIDE DEF box
      <3>4. i + 1 \in DOMAIN box /\ Tail(box)[i] = box[i + 1]
        BY <3>3, TailFacts
      <3>5. Tail(box) \in Seq(LineType)
        <4>1. CASE box = <<>>
          <5>1. Tail(<<>>) = <<>>
            OBVIOUS
          <5>2. DOMAIN Tail(box) = {}
            BY <3>1, <4>1, <5>1
          <5> QED BY <3>3, <5>2
        <4>2. CASE box # <<>>
          BY <3>3, <4>2
        <4> QED BY <4>1, <4>2
      <3>6. i \in Nat /\ i # 0 /\ box[i + 1] \in LineType
        BY <3>3, <3>4, <3>5
      <3>7. i + 1 # 1
        BY <3>6
      <3> QED BY <1>5, <2>2, <3>2, <3>4, <3>6, <3>7 DEF box, LineType
    <2> QED BY <2>1, <2>2
  <1>7. at(g, 1) \in Nat /\ \A h, i, j : i \in Nat /\ j \in Nat /\ at(h, i) = at(h, j) => i = j
    OBVIOUS
  <1> HIDE DEF at
  <1>8. ASSUME NEW h \in DOMAIN gs, NEW i \in DOMAIN gs[h].inbox, DecideLine(gs, h, i)
        PROVE  /\ DecideLine(gateways, h, at(h, i))
               /\ ~Unsent(sdk[gs[h].inbox[i].caller])
               /\ log[gs[h].inbox[i].caller].decisions = 0
    <2> DEFINE d == gs[h].inbox[i].caller
    <2>1. /\ DecideLine(gateways, h, at(h, i)) /\ h \in DOMAIN gateways
          /\ at(h, i) \in DOMAIN gateways[h].inbox /\ d = gateways[h].inbox[at(h, i)].caller
          /\ ~(h = g /\ at(h, i) = 1) /\ d \in SdkCallers
      BY <1>6, <1>8 DEF DecideLine
    <2> HIDE DEF d
    <2>2. ~Unsent(sdk[d]) /\ sdkLog[d].decisions = 0
      BY <1>1, <2>1 DEF LinesOK
    <2>3. CASE d = r.caller /\ r.op = "decide"
      <3>1. DecideLine(gateways, g, 1) /\ gateways[g].inbox[1].caller = d
        BY <1>4, <2>3 DEF DecideLine
      <3>2. FALSE
        BY <1>1, <1>4, <2>1, <3>1 DEF LinesOK
      <3> QED BY <3>2
    <2>4. CASE ~(d = r.caller /\ r.op = "decide")
      BY <1>2, <2>1, <2>2, <2>4 DEF d
    <2> QED BY <2>1, <2>2, <2>3, <2>4 DEF d
  <1>9. ASSUME NEW h \in DOMAIN gs, NEW k \in DOMAIN gs, NEW i \in DOMAIN gs[h].inbox,
               NEW j \in DOMAIN gs[k].inbox, DecideLine(gs, h, i), DecideLine(gs, k, j),
               gs[h].inbox[i].caller = gs[k].inbox[j].caller
        PROVE  h = k /\ i = j
    <2>1. /\ DecideLine(gateways, h, at(h, i)) /\ DecideLine(gateways, k, at(k, j))
          /\ h \in DOMAIN gateways /\ k \in DOMAIN gateways
          /\ at(h, i) \in DOMAIN gateways[h].inbox /\ at(k, j) \in DOMAIN gateways[k].inbox
          /\ gateways[h].inbox[at(h, i)].caller = gateways[k].inbox[at(k, j)].caller
          /\ i \in Nat /\ j \in Nat
      BY <1>6, <1>8, <1>9
    <2>2. h = k /\ at(h, i) = at(k, j)
      BY <1>1, <2>1 DEF LinesOK
    <2> QED BY <1>7, <2>1, <2>2
  <1>10. ASSUME NEW c \in SdkCallers, Unsent(sdk[c])
         PROVE  log[c].decisions = 0
    <2>1. sdkLog[c].decisions = 0
      BY <1>1, <1>10 DEF LogOK
    <2>2. ~(c = r.caller /\ r.op = "decide")
      BY <1>1, <1>4, <1>10 DEF LinesOK, DecideLine
    <2> QED BY <1>2, <2>1, <2>2
  <1>11. LogOK(sdk, log)
    BY <1>2, <1>10 DEF LogOK, RecordType
  <1>12. LinesOK(gs, sdk, log)
    BY <1>8, <1>9 DEF LinesOK
  <1> QED BY <1>11, <1>12 DEF gs, log

LEMMA ServeRecord ==
    ASSUME ClientInd, RecordInd, NEW g \in DOMAIN gateways, Serve(g)
    PROVE  RecordInd'
  <1>1. /\ program \in SdkPrograms /\ sdk' = sdk /\ program' = program /\ tracked' = tracked
        /\ \E r \in LineType : \E s \in Served(r) : ServeDoes(g, r, s)
    BY ServeFacts
  <1>2. PICK r \in LineType : \E s \in Served(r) : ServeDoes(g, r, s)
    BY <1>1
  <1>3. PICK s \in Served(r) : ServeDoes(g, r, s)
    BY <1>2
  <1> DEFINE gs == gateways'
             log == sdkLog'
             new == Reply(r, s[2])
  <1>4. /\ log \in [SdkCallers -> RecordType]
        /\ \A c \in SdkCallers : Grows(sdkLog[c], log[c])
        /\ Backed(new, log[r.caller], program.verdict[r.caller])
    BY <1>1, <1>3, ServedRecord
  <1>5. LogOK(sdk, log) /\ LinesOK(gs, sdk, log)
    BY <1>1, <1>3, ServeLines
  <1>6. gateways \in Seq(GatewayType) /\ sdk \in [SdkCallers -> CallerType] /\ AnswersOK(gateways, sdk, sdkLog)
    BY DEF ClientInd, TablesOK, RecordInd
  <1>7. /\ ChildOnly(gateways, gs, g)
        /\ gs[g].outbox \in {gateways[g].outbox, Append(gateways[g].outbox, new)}
    BY <1>3 DEF ServeDoes
  <1>8. new.caller = r.caller
    BY DEF Reply
  <1> HIDE DEF gs, log, new
  <1>9. CallsOK(sdk, log, tracked)
    BY <1>4, GrownCalls
  <1>10. ASSUME NEW h \in DOMAIN gs, NEW i \in DOMAIN gs[h].outbox, gs[h].outbox[i].kind # "bad"
         PROVE  Backed(gs[h].outbox[i], log[gs[h].outbox[i].caller], program.verdict[gs[h].outbox[i].caller])
    <2> DEFINE a == gs[h].outbox[i]
    <2>1. h \in DOMAIN gateways /\ gateways[h] \in GatewayType
      BY <1>6, <1>7, ChildOnlyFacts, ChildFacts
    <2>2. gateways[h].outbox \in Seq(AnswerType \cup {BadAnswer})
      BY <2>1 DEF GatewayType
    <2>3. a = new \/ \E j \in DOMAIN gateways[h].outbox : a = gateways[h].outbox[j]
      <3>1. CASE h # g
        BY <1>6, <1>7, <3>1, ChildOnlyFacts
      <3>2. CASE h = g
        <4> DEFINE old == gateways[g].outbox
        <4>1. old \in Seq(AnswerType \cup {BadAnswer})
          BY <2>2, <3>2
        <4> HIDE DEF old
        <4>2. \A j \in DOMAIN Append(old, new) : Append(old, new)[j] = new \/ (j \in DOMAIN old /\ Append(old, new)[j] = old[j])
          BY <4>1
        <4> QED BY <1>7, <3>2, <4>2 DEF old
      <3> QED BY <3>1, <3>2
    <2>4. CASE a = new
      BY <1>4, <1>8, <2>4
    <2>5. ASSUME NEW j \in DOMAIN gateways[h].outbox, a = gateways[h].outbox[j]
          PROVE  Backed(a, log[a.caller], program.verdict[a.caller])
      <3>1. Backed(a, sdkLog[a.caller], program.verdict[a.caller])
        BY <1>6, <1>10, <2>1, <2>5 DEF AnswersOK
      <3>2. a.caller \in SdkCallers
        <4>1. gateways[h].outbox[j] \in AnswerType \cup {BadAnswer}
          BY <2>2
        <4> QED BY <1>10, <2>5, <4>1 DEF AnswerType, BadAnswer
      <3> HIDE DEF a
      <3> QED BY <1>4, <3>1, <3>2, GrowsFacts
    <2> QED BY <2>3, <2>4, <2>5
  <1>11. ASSUME NEW c \in SdkCallers, sdk[c].fut \in AnswerType
         PROVE  Backed(sdk[c].fut, log[sdk[c].fut.caller], program.verdict[sdk[c].fut.caller])
    <2>1. sdk[c].fut.caller \in SdkCallers
      BY <1>11 DEF AnswerType
    <2> QED BY <1>4, <1>11, <2>1, GrownCalls
  <1>12. AnswersOK(gs, sdk, log)
    BY <1>10, <1>11 DEF AnswersOK
  <1>13. MapsOK(tracked')
    BY <1>1 DEF RecordInd
  <1> QED BY <1>1, <1>5, <1>9, <1>12, <1>13, RecordConcluded DEF gs, log

\* A child that ends loses its lines, and a bad line answers nothing.
LEMMA FaultRecord ==
    ASSUME ClientInd, RecordInd, NEW g \in DOMAIN gateways, ChildEnds(g) \/ BadLine(g)
    PROVE  RecordInd'
  <1>1. /\ sdk' = sdk /\ program' = program /\ tracked' = tracked /\ sdkLog' = sdkLog
        /\ ChildOnly(gateways, gateways', g)
        /\ gateways'[g].inbox \in {gateways[g].inbox, <<>>}
        /\ gateways'[g].outbox \in {gateways[g].outbox, Append(gateways[g].outbox, BadAnswer)}
    BY ChildFaults
  <1> DEFINE gs == gateways'
  <1>2. /\ gateways \in Seq(GatewayType) /\ sdk \in [SdkCallers -> CallerType]
        /\ LogOK(sdk, sdkLog) /\ LinesOK(gateways, sdk, sdkLog) /\ AnswersOK(gateways, sdk, sdkLog)
        /\ CallsOK(sdk, sdkLog, tracked) /\ MapsOK(tracked)
    BY DEF ClientInd, TablesOK, RecordInd
  <1>3. /\ ChildOnly(gateways, gs, g) /\ gs[g].inbox \in {gateways[g].inbox, <<>>}
        /\ gs[g].outbox \in {gateways[g].outbox, Append(gateways[g].outbox, BadAnswer)}
    BY <1>1
  <1> HIDE DEF gs
  <1>4. DOMAIN gs = DOMAIN gateways /\ \A h \in DOMAIN gateways : h # g => gs[h] = gateways[h]
    BY <1>2, <1>3, ChildOnlyFacts
  <1>5. ASSUME NEW h \in DOMAIN gs, NEW i \in DOMAIN gs[h].inbox
        PROVE  /\ h \in DOMAIN gateways /\ i \in DOMAIN gateways[h].inbox
               /\ gs[h].inbox[i] = gateways[h].inbox[i]
    <2>1. DOMAIN <<>> = {}
      OBVIOUS
    <2> QED BY <1>3, <1>4, <2>1
  <1>6. LinesOK(gs, sdk, sdkLog)
    <2>1. \A h \in DOMAIN gs : \A i \in DOMAIN gs[h].inbox : DecideLine(gs, h, i) =>
             /\ ~Unsent(sdk[gs[h].inbox[i].caller])
             /\ sdkLog[gs[h].inbox[i].caller].decisions = 0
      BY <1>2, <1>5 DEF LinesOK, DecideLine
    <2>2. ASSUME NEW h \in DOMAIN gs, NEW k \in DOMAIN gs, NEW i \in DOMAIN gs[h].inbox,
                 NEW j \in DOMAIN gs[k].inbox, DecideLine(gs, h, i), DecideLine(gs, k, j),
                 gs[h].inbox[i].caller = gs[k].inbox[j].caller
          PROVE  h = k /\ i = j
      <3>1. /\ h \in DOMAIN gateways /\ i \in DOMAIN gateways[h].inbox
            /\ gs[h].inbox[i] = gateways[h].inbox[i]
            /\ k \in DOMAIN gateways /\ j \in DOMAIN gateways[k].inbox
            /\ gs[k].inbox[j] = gateways[k].inbox[j]
        BY <1>5
      <3>2. DecideLine(gateways, h, i) /\ DecideLine(gateways, k, j)
        BY <2>2, <3>1 DEF DecideLine
      <3> QED BY <1>2, <2>2, <3>1, <3>2 DEF LinesOK
    <2> QED BY <2>1, <2>2 DEF LinesOK
  <1>7. ASSUME NEW h \in DOMAIN gs, NEW i \in DOMAIN gs[h].outbox, gs[h].outbox[i].kind # "bad"
        PROVE  /\ h \in DOMAIN gateways /\ i \in DOMAIN gateways[h].outbox
               /\ gs[h].outbox[i] = gateways[h].outbox[i]
    <2>1. CASE h # g
      BY <1>4, <2>1
    <2>2. CASE h = g
      <3> DEFINE old == gateways[g].outbox
      <3>1. old \in Seq(AnswerType \cup {BadAnswer})
        <4>1. gateways[g] \in GatewayType
          BY <1>2, ChildFacts
        <4> QED BY <4>1 DEF GatewayType
      <3> HIDE DEF old
      <3>2. \A j \in DOMAIN Append(old, BadAnswer) :
               Append(old, BadAnswer)[j] = BadAnswer \/ (j \in DOMAIN old /\ Append(old, BadAnswer)[j] = old[j])
        BY <3>1
      <3>3. gs[g].outbox[i] # BadAnswer
        BY <1>7, <2>2, FutFacts
      <3> QED BY <1>3, <1>7, <2>2, <3>2, <3>3 DEF old
    <2> QED BY <2>1, <2>2
  <1>8. AnswersOK(gs, sdk, sdkLog)
    BY <1>2, <1>7 DEF AnswersOK
  <1> QED BY <1>1, <1>2, <1>6, <1>8, RecordConcluded DEF gs
-----------------------------------------------------------------------------
\* What each step makes of the call's own part of the invariant.
LEMMA EndOK ==
    ASSUME NEW c, NEW q, NEW r, NEW l, NEW v, NEW f, NEW runs, NEW asks,
           CallOK(c, q, l, v, f, runs, asks), Keeps(q, r),
           r.pc = "done", r.sent = q.sent, r.ran = q.ran,
           r.shown \in {"raw", "masked"} /\ f = "guard" => l.executions = 1,
           r.shown = "raw" /\ r.evicted = FALSE => v = "allow" \/ (v = "ask" /\ r.said = "yes")
    PROVE  CallOK(c, r, l, v, f, runs, asks)
  <1>1. /\ Fits(r, l, v) <=> Fits(q, l, v)
        /\ Asking(r, l, v) <=> Asking(q, l, v)
    BY DEF Keeps, Fits, Asking
  <1>2. "done" \notin Requesting
    BY DEF Requesting
  <1> QED BY <1>1, <1>2 DEF CallOK, Keeps

\* A decision that asks.
LEMMA AskedOK ==
    ASSUME NEW c, NEW q, NEW r, NEW l, NEW v, NEW f, NEW runs, NEW asks, NEW asks2,
           CallOK(c, q, l, v, f, runs, asks), q.pc \in Requesting, q.op = "decide",
           r.pc = "ask", r.decision = "ask", r.said = q.said, r.evicted = q.evicted,
           r.shown = q.shown, r.ran = q.ran, r.sent = q.sent,
           l.decisions = 1, v = "ask", c \in asks2 <=> f = "prompt"
    PROVE  CallOK(c, r, l, v, f, runs, asks2)
  <1>1. {"ask", "run", "after", "done"} \cap Requesting = {}
    BY DEF Requesting
  <1>2. Asking(r, l, v)
    BY DEF Asking
  <1> QED BY <1>1, <1>2 DEF CallOK

\* A decision, or an approval, that lets the tool run.
LEMMA RunOK ==
    ASSUME NEW c, NEW q, NEW r, NEW l, NEW v, NEW f, NEW runs, NEW asks, NEW runs2,
           CallOK(c, q, l, v, f, runs, asks), q.pc \in Requesting, q.ran = "no",
           r.pc = "run", r.said = q.said, r.evicted = q.evicted, r.shown = q.shown,
           r.ran = q.ran, r.sent = q.sent, Fits(r, l, v), c \in runs2 <=> f # "guard"
    PROVE  CallOK(c, r, l, v, f, runs2, asks)
  <1>1. {"ask", "run", "after", "done"} \cap Requesting = {}
    BY DEF Requesting
  <1> QED BY <1>1 DEF CallOK

\* An answer to the ask is sent.
LEMMA SaysOK ==
    ASSUME NEW c, NEW q, NEW r, NEW l, NEW v, NEW f, NEW runs, NEW asks, NEW asks2,
           CallOK(c, q, l, v, f, runs, asks), q.pc = "ask",
           r.pc = "ensure", r.op = "resolve", r.sent = TRUE => r.said = "yes",
           r.decision = q.decision, r.shown = q.shown, r.ran = q.ran, c \notin asks2
    PROVE  CallOK(c, r, l, v, f, runs, asks2)
  <1>1. Asking(r, l, v) <=> Asking(q, l, v)
    BY DEF Asking
  <1> QED BY <1>1 DEF CallOK

\* The answer to an ask the hooks had to forget.
LEMMA ToldOK ==
    ASSUME NEW c, NEW q, NEW r, NEW l, NEW v, NEW f, NEW runs, NEW asks,
           CallOK(c, q, l, v, f, runs, asks), q.pc = "ask", f = "prompt", c \notin asks,
           r.pc \in {"run", "done"}, r.evicted = q.evicted, r.shown = q.shown, r.ran = q.ran,
           r.sent = q.sent
    PROVE  CallOK(c, r, l, v, f, runs, asks)
  <1>1. {"run", "done"} \cap Requesting = {}
    BY DEF Requesting
  <1> QED BY <1>1 DEF CallOK

LEMMA OverriddenOK ==
    ASSUME NEW c, NEW q, NEW r, NEW l, NEW v, NEW f, NEW runs, NEW asks,
           CallOK(c, q, l, v, f, runs, asks), q.pc = "ask", f = "prompt",
           r.pc = "run", r.overridden = TRUE, r.evicted = q.evicted, r.shown = q.shown,
           r.ran = q.ran, r.sent = q.sent, r.said = q.said, r.decision = q.decision
    PROVE  CallOK(c, r, l, v, f, runs, asks)
  <1>1. "run" \notin Requesting
    BY DEF Requesting
  <1>2. Asking(r, l, v) <=> Asking(q, l, v)
    BY DEF Asking
  <1> QED BY <1>1, <1>2 DEF CallOK

\* The tool runs under the guard, or under the agent's hooks.
LEMMA RanOK ==
    ASSUME NEW c, NEW q, NEW r, NEW l, NEW v, NEW f, NEW runs, NEW asks,
           CallOK(c, q, l, v, f, runs, asks), q.pc = "run", Keeps(q, r),
           r.shown = q.shown, r.sent = q.sent, r.ran # "no",
           \/ f = "guard" /\ r.pc = "ensure" /\ r.op = "complete"
           \/ f # "guard" /\ r.pc = "after"
    PROVE  CallOK(c, r, l, v, f, runs, asks)
  <1>1. {"run", "after"} \cap Requesting = {}
    BY DEF Requesting
  <1>2. /\ Fits(r, l, v) <=> Fits(q, l, v)
        /\ Asking(r, l, v) <=> Asking(q, l, v)
    BY DEF Keeps, Fits, Asking
  <1>3. Fits(q, l, v) => l.decisions = 1 /\ (v \in {"allow", "redact"} \/ (v = "ask" /\ q.said = "yes"))
    BY DEF Fits
  <1> QED BY <1>1, <1>2, <1>3 DEF CallOK, Keeps

\* The hook after the tool completes a call, or rejects an ask.
LEMMA PostOK ==
    ASSUME NEW c, NEW q, NEW r, NEW l, NEW v, NEW f, NEW runs, NEW asks, NEW runs2, NEW asks2,
           CallOK(c, q, l, v, f, runs, asks), q.pc = "after", Keeps(q, r),
           r.pc = "ensure", r.shown = q.shown, r.ran = q.ran,
           c \notin runs2, c \notin asks2, r.sent = q.sent \/ r.sent = FALSE,
           r.op = "resolve" \/ (r.op = "complete" /\ c \in runs)
    PROVE  CallOK(c, r, l, v, f, runs2, asks2)
  <1>1. Fits(r, l, v) <=> Fits(q, l, v)
    BY DEF Keeps, Fits
  <1> QED BY <1>1 DEF CallOK, Keeps

\* An entry that made room: what the hooks forgot is noted.
LEMMA EvictedOK ==
    ASSUME NEW c, NEW q \in CallerType, NEW l, NEW v, NEW f, NEW runs, NEW asks, NEW runs2, NEW asks2,
           CallOK(c, q, l, v, f, runs, asks), c \in runs \/ c \in asks,
           c \in runs2 => c \in runs, c \in asks2 => c \in asks
    PROVE  CallOK(c, Evicted(q), l, v, f, runs2, asks2)
  <1> DEFINE r == Evicted(q)
  <1>1. /\ r.evicted = TRUE /\ r.pc = q.pc /\ r.op = q.op /\ r.decision = q.decision
        /\ r.sent = q.sent /\ r.said = q.said /\ r.ran = q.ran /\ r.overridden = q.overridden
        /\ r.shown = q.shown
    BY EvictedFacts
  <1> HIDE DEF r
  <1>2. /\ Fits(r, l, v) <=> Fits(q, l, v)
        /\ Asking(r, l, v) <=> Asking(q, l, v)
    BY <1>1 DEF Fits, Asking
  <1>3. {"ask", "run", "after", "done"} \cap Requesting = {}
    BY DEF Requesting
  <1>4. CallOK(c, r, l, v, f, runs2, asks2)
    BY <1>1, <1>2, <1>3 DEF CallOK
  <1> QED BY <1>4 DEF r
-----------------------------------------------------------------------------
Stands(c, q, maps) ==
    CallOK(c, q, sdkLog[c], program.verdict[c], GatedBy(c),
           Range(maps.dispatched), Range(maps.pendingAsks))

\* Of the other callers only the one whose entry made room has changed.
Kept(cs, maps, d) ==
    /\ cs[d] = sdk[d]
    /\ d \in Range(maps.dispatched) <=> d \in Range(tracked.dispatched)
    /\ d \in Range(maps.pendingAsks) <=> d \in Range(tracked.pendingAsks)
MadeRoom(cs, maps, d) ==
    /\ cs[d] = Evicted(sdk[d])
    /\ d \in Range(tracked.dispatched) \/ d \in Range(tracked.pendingAsks)
    /\ d \in Range(maps.dispatched) => d \in Range(tracked.dispatched)
    /\ d \in Range(maps.pendingAsks) => d \in Range(tracked.pendingAsks)
OthersKept(cs, maps, c) == \A d \in SdkCallers : d # c => Kept(cs, maps, d) \/ MadeRoom(cs, maps, d)

LEMMA OtherStands ==
    ASSUME ClientInd, RecordInd, NEW cs, NEW maps, NEW d \in SdkCallers,
           Kept(cs, maps, d) \/ MadeRoom(cs, maps, d)
    PROVE  Stands(d, cs[d], maps) /\ cs[d].fut = sdk[d].fut /\ (Unsent(cs[d]) <=> Unsent(sdk[d]))
  <1>1. Stands(d, sdk[d], tracked) /\ sdk[d] \in CallerType
    BY BasicFacts DEF RecordInd, CallsOK, Stands
  <1>2. CASE Kept(cs, maps, d)
    <2>1. Stands(d, sdk[d], maps)
      BY <1>1, <1>2 DEF Stands, Kept, CallOK
    <2> QED BY <1>2, <2>1 DEF Kept
  <1>3. CASE MadeRoom(cs, maps, d)
    <2>1. Stands(d, Evicted(sdk[d]), maps)
      BY <1>1, <1>3, EvictedOK DEF Stands, MadeRoom
    <2> QED BY <1>1, <1>3, <2>1, EvictedFacts, ZenonT(40) DEF MadeRoom, Unsent
  <1> QED BY <1>2, <1>3

\* A step of caller c's own call keeps the invariant if c stands.
LEMMA CallRecord ==
    ASSUME ClientInd, RecordInd, NEW c \in SdkCallers, NEW q,
           Apart, MapsOK(tracked'), sdk'[c] = q, q.fut \in {Silence, sdk[c].fut}, ~Unsent(q),
           OthersKept(sdk', tracked', c), Stands(c, q, tracked')
    PROVE  RecordInd'
  <1> DEFINE cs == sdk'
             maps == tracked'
  <1>1. /\ LogOK(sdk, sdkLog) /\ LinesOK(gateways, sdk, sdkLog) /\ AnswersOK(gateways, sdk, sdkLog)
        /\ gateways \in Seq(GatewayType)
    BY DEF RecordInd, ClientInd, TablesOK
  <1>2. /\ cs[c] = q /\ OthersKept(cs, maps, c) /\ Stands(c, q, maps)
        /\ sdkLog' = sdkLog /\ gateways' = gateways /\ program' = program /\ MapsOK(maps)
    BY DEF Apart
  <1> HIDE DEF cs, maps
  <1>3. ASSUME NEW d \in SdkCallers
        PROVE  /\ Stands(d, cs[d], maps) /\ cs[d].fut \in {Silence, sdk[d].fut}
               /\ Unsent(cs[d]) => Unsent(sdk[d])
    <2>1. CASE d = c
      BY <1>2, <2>1
    <2>2. CASE d # c
      BY <1>2, <2>2, OtherStands DEF OthersKept
    <2> QED BY <2>1, <2>2
  <1>4. LogOK(cs, sdkLog)
    BY <1>1, <1>3 DEF LogOK
  <1>5. CallsOK(cs, sdkLog, maps)
    BY <1>3 DEF CallsOK, Stands
  <1>6. AnswersOK(gateways, cs, sdkLog)
    <2>1. Silence \notin AnswerType
      BY DEF Silence, AnswerType
    <2> QED BY <1>1, <1>3, <2>1 DEF AnswersOK
  <1>7. LinesOK(gateways, cs, sdkLog)
    <2>1. ASSUME NEW g \in DOMAIN gateways, NEW i \in DOMAIN gateways[g].inbox
          PROVE  gateways[g].inbox[i].caller \in SdkCallers
      <3>1. gateways[g] \in GatewayType
        BY <1>1, ChildFacts
      <3>2. gateways[g].inbox \in Seq(LineType)
        BY <3>1 DEF GatewayType
      <3>3. gateways[g].inbox[i] \in LineType
        BY <3>2
      <3> QED BY <3>3 DEF LineType
    <2> QED BY <1>1, <1>3, <2>1 DEF LinesOK
  <1> QED BY <1>2, <1>4, <1>5, <1>6, <1>7, RecordConcluded DEF cs, maps

\* The maps as they are, and the callers but for c.
LEMMA BecomesFacts ==
    ASSUME ClientInd, NEW c \in SdkCallers, NEW q, Becomes(c, q)
    PROVE  sdk'[c] = q /\ \A d \in SdkCallers : d # c => sdk'[d] = sdk[d]
  <1>1. sdk \in [SdkCallers -> CallerType]
    BY BasicFacts
  <1> QED BY <1>1 DEF Becomes

LEMMA SameMaps ==
    ASSUME ClientInd, RecordInd, NEW c \in SdkCallers, NEW q, Becomes(c, q), tracked' = tracked
    PROVE  MapsOK(tracked') /\ OthersKept(sdk', tracked', c)
  <1>1. MapsOK(tracked')
    BY DEF RecordInd
  <1> QED BY <1>1, BecomesFacts DEF OthersKept, Kept

\* An entry is taken out of one of the hooks' maps.
LEMMA LeftMaps ==
    ASSUME ClientInd, RecordInd, NEW c \in SdkCallers, NEW q, Becomes(c, q),
           LeavesAsks(c) \/ LeavesRuns(c)
    PROVE  /\ MapsOK(tracked') /\ OthersKept(sdk', tracked', c)
           /\ LeavesAsks(c) => c \notin Range(tracked'.pendingAsks) /\ tracked'.dispatched = tracked.dispatched
           /\ LeavesRuns(c) => c \notin Range(tracked'.dispatched) /\ tracked'.pendingAsks = tracked.pendingAsks
  <1>1. /\ tracked \in [dispatched : Seq(SdkCallers), pendingAsks : Seq(SdkCallers)]
        /\ Once(tracked.dispatched) /\ Once(tracked.pendingAsks)
    BY DEF RecordInd, MapsOK
  <1> DEFINE maps == tracked'
             a == RemoveFirst(tracked.pendingAsks, c)
             r == RemoveFirst(tracked.dispatched, c)
  <1>2. /\ a \in Seq(SdkCallers) /\ Once(a) /\ Range(a) = Range(tracked.pendingAsks) \ {c}
        /\ r \in Seq(SdkCallers) /\ Once(r) /\ Range(r) = Range(tracked.dispatched) \ {c}
    BY <1>1, RemovedFacts
  <1>3. /\ LeavesAsks(c) => maps = [tracked EXCEPT !.pendingAsks = a]
        /\ LeavesRuns(c) => maps = [tracked EXCEPT !.dispatched = r]
    BY DEF LeavesAsks, LeavesRuns, Untrack
  <1> HIDE DEF maps, a, r
  <1>4. /\ LeavesAsks(c) => maps.pendingAsks = a /\ maps.dispatched = tracked.dispatched
        /\ LeavesRuns(c) => maps.dispatched = r /\ maps.pendingAsks = tracked.pendingAsks
        /\ maps \in [dispatched : Seq(SdkCallers), pendingAsks : Seq(SdkCallers)]
    BY <1>1, <1>2, <1>3
  <1>5. MapsOK(maps)
    BY <1>1, <1>2, <1>4 DEF MapsOK
  <1>6. \A d \in SdkCallers : d # c => Kept(sdk', maps, d)
    BY <1>2, <1>4, BecomesFacts DEF Kept
  <1> QED BY <1>2, <1>4, <1>5, <1>6 DEF OthersKept, maps

\* An entry is put into a map, and the oldest may make room for it.
LEMMA EnteredFacts ==
    ASSUME NEW s \in Seq(SdkCallers), Once(s), NEW c \in SdkCallers, c \notin Range(s)
    PROVE  /\ Append(s, c) \in Seq(SdkCallers) /\ Once(Append(s, c))
           /\ Range(Append(s, c)) = Range(s) \cup {c}
           /\ s # <<>> =>
                 /\ Append(Tail(s), c) \in Seq(SdkCallers) /\ Once(Append(Tail(s), c))
                 /\ Range(Append(Tail(s), c)) = (Range(s) \ {Head(s)}) \cup {c}
                 /\ Head(s) \in Range(s)
  <1>1. ASSUME NEW t \in Seq(SdkCallers), Once(t), c \notin Range(t)
        PROVE  /\ Append(t, c) \in Seq(SdkCallers) /\ Once(Append(t, c))
               /\ Range(Append(t, c)) = Range(t) \cup {c}
    <2> DEFINE u == Append(t, c)
    <2>1. /\ u \in Seq(SdkCallers) /\ DOMAIN u = 1..(Len(t) + 1) /\ DOMAIN t = 1..Len(t) /\ Len(t) \in Nat
          /\ u[Len(t) + 1] = c /\ \A i \in DOMAIN t : u[i] = t[i]
      OBVIOUS
    <2> HIDE DEF u
    <2>2. \A i \in DOMAIN u : i = Len(t) + 1 \/ i \in DOMAIN t
      BY <2>1
    <2>3. \A i \in DOMAIN t : t[i] # c /\ i \in DOMAIN u
      BY <1>1, <2>1 DEF Range
    <2>4. Once(u)
      BY <1>1, <2>1, <2>2, <2>3 DEF Once
    <2>5. Range(u) = Range(t) \cup {c}
      <3>1. Len(t) + 1 \in DOMAIN u
        BY <2>1
      <3> QED BY <2>1, <2>2, <2>3, <3>1 DEF Range
    <2> QED BY <2>1, <2>4, <2>5 DEF u
  <1>2. CASE s = <<>>
    BY <1>1, <1>2
  <1>3. CASE s # <<>>
    <2> DEFINE t == Tail(s)
    <2>1. /\ t \in Seq(SdkCallers) /\ Len(s) \in Nat \ {0} /\ DOMAIN s = 1..Len(s)
          /\ DOMAIN t = 1..(Len(s) - 1) /\ Head(s) = s[1]
          /\ \A i \in DOMAIN t : t[i] = s[i + 1]
      BY <1>3
    <2> HIDE DEF t
    <2>2. \A i \in DOMAIN t : i + 1 \in DOMAIN s /\ i + 1 # 1
      BY <2>1
    <2>3. Once(t)
      BY <2>1, <2>2 DEF Once
    <2>4. \A j \in DOMAIN s : j # 1 => j - 1 \in DOMAIN t /\ t[j - 1] = s[j]
      BY <2>1
    <2>5. Range(t) = Range(s) \ {Head(s)}
      <3>1. ASSUME NEW i \in DOMAIN t PROVE t[i] \in Range(s) \ {Head(s)}
        <4>1. s[i + 1] # s[1]
          BY <2>1, <2>2 DEF Once
        <4> QED BY <2>1, <2>2, <4>1 DEF Range
      <3>2. ASSUME NEW j \in DOMAIN s, s[j] # Head(s) PROVE s[j] \in Range(t)
        BY <2>1, <2>4, <3>2 DEF Range
      <3> QED BY <3>1, <3>2 DEF Range
    <2>6. 1 \in DOMAIN s /\ Head(s) \in Range(s)
      BY <2>1 DEF Range
    <2> QED BY <1>1, <2>1, <2>3, <2>5, <2>6 DEF t
  <1> QED BY <1>2, <1>3

\* What a map is after an entry, and whose entry made room.
Enters(map, c, s) ==
    \/ /\ s = Append(tracked[map], c) /\ ~(TypeScript /\ Len(tracked[map]) >= TrackCap)
    \/ /\ s = Append(Tail(tracked[map]), c) /\ tracked[map] # <<>>
       /\ TypeScript /\ Len(tracked[map]) >= TrackCap

LEMMA TrackFacts ==
    ASSUME NEW map, tracked[map] \in Seq(SdkCallers), NEW c
    PROVE  Enters(map, c, Track(map, c))
  <1>1. ASSUME Len(tracked[map]) >= TrackCap PROVE tracked[map] # <<>>
    <2>1. TrackCap \in Nat \ {0} /\ Len(<<>>) = 0
      BY SdkAssumption
    <2> QED BY <1>1, <2>1
  <1> QED BY <1>1 DEF Track, Enters

\* The callers after an entry, with the one whose entry made room.
LEMMA LostFacts ==
    ASSUME ClientInd, NEW map, tracked[map] \in Seq(SdkCallers), Once(tracked[map]),
           NEW c \in SdkCallers, c \notin Range(tracked[map]), NEW q, BecomesIn(map, c, q),
           NEW s, Enters(map, c, s)
    PROVE  /\ s \in Seq(SdkCallers) /\ Once(s) /\ c \in Range(s) /\ sdk'[c] = q
           /\ \A d \in SdkCallers : d # c =>
                 \/ sdk'[d] = sdk[d] /\ (d \in Range(s) <=> d \in Range(tracked[map]))
                 \/ sdk'[d] = Evicted(sdk[d]) /\ d \in Range(tracked[map]) /\ d \notin Range(s)
  <1> DEFINE old == tracked[map]
             cs == [sdk EXCEPT ![c] = q]
             ls == [cs EXCEPT ![Head(old)].evicted = TRUE]
             full == TypeScript /\ Len(old) >= TrackCap
  <1>0. old \in Seq(SdkCallers) /\ Once(old) /\ c \notin Range(old)
    OBVIOUS
  <1>1. sdk' = (IF full THEN ls ELSE cs) /\ (full <=> (TypeScript /\ Len(tracked[map]) >= TrackCap))
    BY DEF BecomesIn, Lost
  <1>2. \/ s = Append(old, c) /\ ~full
        \/ s = Append(Tail(old), c) /\ old # <<>> /\ full
    BY DEF Enters
  <1>3. DOMAIN sdk = SdkCallers
    BY BasicFacts
  <1> HIDE DEF old, full
  <1>4. CASE ~full
    <2>1. sdk' = cs /\ s = Append(old, c)
      BY <1>1, <1>2, <1>4
    <2>2. /\ s \in Seq(SdkCallers) /\ Once(s) /\ Range(s) = Range(old) \cup {c}
      BY <1>0, <2>1, EnteredFacts
    <2>3. sdk'[c] = q /\ \A d \in SdkCallers : d # c => sdk'[d] = sdk[d]
      BY <1>3, <2>1
    <2> QED BY <2>2, <2>3 DEF old
  <1>5. CASE full
    <2>1. sdk' = ls /\ s = Append(Tail(old), c) /\ old # <<>>
      BY <1>1, <1>2, <1>5
    <2>2. /\ s \in Seq(SdkCallers) /\ Once(s) /\ Range(s) = (Range(old) \ {Head(old)}) \cup {c}
          /\ Head(old) \in Range(old)
      BY <1>0, <2>1, EnteredFacts
    <2> DEFINE e == Head(old)
    <2>3. e # c /\ e \in SdkCallers
      BY <1>0, <2>2, SeqDomain DEF Range
    <2>4. cs[c] = q /\ DOMAIN cs = SdkCallers /\ \A d \in SdkCallers : d # c => cs[d] = sdk[d]
      BY <1>3
    <2> HIDE DEF cs, e
    <2>5. \A d \in SdkCallers : sdk'[d] = IF d = e THEN Evicted(cs[d]) ELSE cs[d]
      BY <2>1, <2>4 DEF Evicted, e
    <2>6. sdk'[c] = q /\ \A d \in SdkCallers : d # c => sdk'[d] = IF d = e THEN Evicted(sdk[d]) ELSE sdk[d]
      BY <2>3, <2>4, <2>5
    <2>7. /\ c \in Range(s) /\ e \in Range(old) /\ e \notin Range(s)
          /\ \A d \in SdkCallers : d # c /\ d # e => (d \in Range(s) <=> d \in Range(old))
      BY <2>2, <2>3 DEF e
    <2> QED BY <2>2, <2>6, <2>7 DEF old
  <1> QED BY <1>4, <1>5

LEMMA EnteredMaps ==
    ASSUME ClientInd, RecordInd, NEW c \in SdkCallers, NEW q,
           \/ /\ EntersAsks(c) /\ BecomesIn("pendingAsks", c, q) /\ c \notin Range(tracked.pendingAsks)
           \/ /\ EntersRuns(c) /\ BecomesIn("dispatched", c, q) /\ c \notin Range(tracked.dispatched)
    PROVE  /\ MapsOK(tracked') /\ OthersKept(sdk', tracked', c) /\ sdk'[c] = q
           /\ EntersAsks(c) => c \in Range(tracked'.pendingAsks) /\ tracked'.dispatched = tracked.dispatched
           /\ EntersRuns(c) => c \in Range(tracked'.dispatched) /\ tracked'.pendingAsks = tracked.pendingAsks
  <1>1. /\ tracked \in [dispatched : Seq(SdkCallers), pendingAsks : Seq(SdkCallers)]
        /\ Once(tracked.dispatched) /\ Once(tracked.pendingAsks)
    BY DEF RecordInd, MapsOK
  <1> DEFINE maps == tracked'
             a == Track("pendingAsks", c)
             r == Track("dispatched", c)
  <1>2. /\ EntersAsks(c) => maps = [tracked EXCEPT !.pendingAsks = a]
        /\ EntersRuns(c) => maps = [tracked EXCEPT !.dispatched = r]
    BY DEF EntersAsks, EntersRuns
  <1>3. CASE /\ EntersAsks(c) /\ BecomesIn("pendingAsks", c, q) /\ c \notin Range(tracked.pendingAsks)
    <2>1. /\ tracked["pendingAsks"] \in Seq(SdkCallers) /\ Once(tracked["pendingAsks"])
          /\ c \notin Range(tracked["pendingAsks"])
      BY <1>1, <1>3
    <2>2. Enters("pendingAsks", c, a)
      BY <2>1, TrackFacts
    <2> HIDE DEF maps, a
    <2>3. /\ a \in Seq(SdkCallers) /\ Once(a) /\ c \in Range(a) /\ sdk'[c] = q
          /\ \A d \in SdkCallers : d # c =>
                 \/ sdk'[d] = sdk[d] /\ (d \in Range(a) <=> d \in Range(tracked.pendingAsks))
                 \/ sdk'[d] = Evicted(sdk[d]) /\ d \in Range(tracked.pendingAsks) /\ d \notin Range(a)
      BY <1>3, <2>1, <2>2, LostFacts
    <2>4. maps = [tracked EXCEPT !.pendingAsks = a]
      BY <1>2, <1>3
    <2>5. /\ maps \in [dispatched : Seq(SdkCallers), pendingAsks : Seq(SdkCallers)]
          /\ maps.pendingAsks = a /\ maps.dispatched = tracked.dispatched
      BY <1>1, <2>3, <2>4
    <2>6. MapsOK(maps)
      BY <1>1, <2>3, <2>5 DEF MapsOK
    <2>7. ASSUME NEW d \in SdkCallers, d # c PROVE Kept(sdk', maps, d) \/ MadeRoom(sdk', maps, d)
      BY <2>3, <2>5, <2>7 DEF Kept, MadeRoom
    <2>8. EntersRuns(c) => c \in Range(maps.dispatched) /\ maps.pendingAsks = tracked.pendingAsks
      <3> SUFFICES ASSUME EntersRuns(c) PROVE c \in Range(maps.dispatched) /\ maps.pendingAsks = tracked.pendingAsks
        OBVIOUS
      <3>1. maps = [tracked EXCEPT !.dispatched = r]
        BY <1>2
      <3>2. tracked.pendingAsks = a
        BY <1>1, <2>5, <3>1
      <3> QED BY <1>3, <2>3, <3>2
    <2> QED BY <2>3, <2>5, <2>6, <2>7, <2>8 DEF OthersKept, maps
  <1>4. CASE /\ EntersRuns(c) /\ BecomesIn("dispatched", c, q) /\ c \notin Range(tracked.dispatched)
    <2>1. /\ tracked["dispatched"] \in Seq(SdkCallers) /\ Once(tracked["dispatched"])
          /\ c \notin Range(tracked["dispatched"])
      BY <1>1, <1>4
    <2>2. Enters("dispatched", c, r)
      BY <2>1, TrackFacts
    <2> HIDE DEF maps, r
    <2>3. /\ r \in Seq(SdkCallers) /\ Once(r) /\ c \in Range(r) /\ sdk'[c] = q
          /\ \A d \in SdkCallers : d # c =>
                 \/ sdk'[d] = sdk[d] /\ (d \in Range(r) <=> d \in Range(tracked.dispatched))
                 \/ sdk'[d] = Evicted(sdk[d]) /\ d \in Range(tracked.dispatched) /\ d \notin Range(r)
      BY <1>4, <2>1, <2>2, LostFacts
    <2>4. maps = [tracked EXCEPT !.dispatched = r]
      BY <1>2, <1>4
    <2>5. /\ maps \in [dispatched : Seq(SdkCallers), pendingAsks : Seq(SdkCallers)]
          /\ maps.dispatched = r /\ maps.pendingAsks = tracked.pendingAsks
      BY <1>1, <2>3, <2>4
    <2>6. MapsOK(maps)
      BY <1>1, <2>3, <2>5 DEF MapsOK
    <2>7. ASSUME NEW d \in SdkCallers, d # c PROVE Kept(sdk', maps, d) \/ MadeRoom(sdk', maps, d)
      BY <2>3, <2>5, <2>7 DEF Kept, MadeRoom
    <2>8. EntersAsks(c) => c \in Range(maps.pendingAsks) /\ maps.dispatched = tracked.dispatched
      <3> SUFFICES ASSUME EntersAsks(c) PROVE c \in Range(maps.pendingAsks) /\ maps.dispatched = tracked.dispatched
        OBVIOUS
      <3>1. maps = [tracked EXCEPT !.pendingAsks = a]
        BY <1>2
      <3>2. tracked.dispatched = r
        BY <1>1, <2>5, <3>1
      <3> QED BY <1>4, <2>3, <3>2
    <2> QED BY <2>3, <2>5, <2>6, <2>7, <2>8 DEF OthersKept, maps
  <1> QED BY <1>3, <1>4
-----------------------------------------------------------------------------
\* What is known of a caller, and of one that has heard its answer.
LEMMA StandsFacts ==
    ASSUME ClientInd, RecordInd, NEW c \in SdkCallers
    PROVE  /\ sdk[c] \in CallerType /\ Stands(c, sdk[c], tracked)
           /\ c \in Range(tracked.dispatched) => sdk[c].pc \in {"run", "after", "done"}
           /\ c \in Range(tracked.pendingAsks) => sdk[c].pc \in {"ask", "run", "after", "done"}
  <1>1. sdk[c] \in CallerType /\ Stands(c, sdk[c], tracked)
    BY BasicFacts DEF RecordInd, CallsOK, Stands
  <1> QED BY <1>1 DEF Stands, CallOK

LEMMA HeardFacts ==
    ASSUME ClientInd, RecordInd, NEW c \in SdkCallers, NEW op, Answered(c, op)
    PROVE  /\ sdk[c].pc = "wait" /\ sdk[c].pc \in Requesting /\ sdk[c].op = op
           /\ c \notin Range(tracked.dispatched) /\ c \notin Range(tracked.pendingAsks)
           /\ Heard(c) # "error" /\ op = "decide" =>
                 Heard(c) = program.verdict[c] /\ sdkLog[c].decisions = 1
           /\ Heard(c) # "error" /\ op = "complete" => sdkLog[c].executions = 1
  <1>1. sdk[c].pc = "wait" /\ sdk[c].op = op /\ sdk[c].fut # Silence
    BY DEF Answered
  <1>2. sdk[c].pc \in Requesting
    BY <1>1 DEF Requesting
  <1>3. c \notin Range(tracked.dispatched) /\ c \notin Range(tracked.pendingAsks)
    BY <1>1, StandsFacts
  <1>4. ASSUME Heard(c) # "error"
        PROVE  Backed(sdk[c].fut, sdkLog[c], program.verdict[c]) /\ sdk[c].fut.kind = Heard(c) /\ sdk[c].fut.op = op
    <2>1. /\ sdk[c].fut.kind # "error" /\ sdk[c].fut.caller = c /\ sdk[c].fut.op = op
          /\ Heard(c) = sdk[c].fut.kind
      BY <1>1, <1>4 DEF Heard
    <2>2. sdk[c].fut \in {Silence, Failure} \cup AnswerType
      BY StandsFacts DEF CallerType
    <2>3. sdk[c].fut \in AnswerType
      BY <1>1, <2>1, <2>2, FutFacts
    <2> QED BY <2>1, <2>3 DEF RecordInd, AnswersOK
  <1> QED BY <1>1, <1>2, <1>3, <1>4 DEF Backed

LEMMA DecidesFacts ==
    ASSUME NEW c, sdk[c] \in CallerType, NEW k \in SdkVerdicts, NEW p \in {"ask", "run"}
    PROVE  /\ Decides(c, k, p).pc = p /\ Decides(c, k, p).decision = k
           /\ Decides(c, k, p).fut = sdk[c].fut /\ Decides(c, k, p).said = sdk[c].said
           /\ Decides(c, k, p).evicted = sdk[c].evicted /\ Decides(c, k, p).shown = sdk[c].shown
           /\ Decides(c, k, p).ran = sdk[c].ran /\ Decides(c, k, p).sent = sdk[c].sent
  BY DEF Decides, CallerType

LEMMA DecidedRecord ==
    ASSUME ClientInd, RecordInd, NEW c \in SdkCallers, Decided(c)
    PROVE  RecordInd'
  <1>1. sdk \in [SdkCallers -> CallerType] /\ sdk[c] \in CallerType /\ Stands(c, sdk[c], tracked)
    BY BasicFacts, StandsFacts
  <1>2. Answered(c, "decide") /\ Apart
    BY <1>1, DecidedForm
  <1>3. /\ sdk[c].pc = "wait" /\ sdk[c].pc \in Requesting /\ sdk[c].op = "decide"
        /\ c \notin Range(tracked.dispatched) /\ c \notin Range(tracked.pendingAsks)
        /\ Heard(c) # "error" => Heard(c) = program.verdict[c] /\ sdkLog[c].decisions = 1
    BY <1>2, HeardFacts
  <1>4. sdk[c].ran = "no"
    BY <1>1, <1>3 DEF Stands, CallOK
  <1>5. CASE tracked' = tracked /\ Becomes(c, Ends(c, "refusal"))
    <2> DEFINE q == Ends(c, "refusal")
    <2>0. "refusal" \in Shows
      BY DEF Shows
    <2>1. /\ Keeps(sdk[c], q) /\ q.pc = "done" /\ q.fut = Silence /\ q.shown = "refusal"
          /\ q.sent = sdk[c].sent /\ q.ran = sdk[c].ran
      BY <1>1, <2>0, EndsFacts
    <2> HIDE DEF q
    <2>2. Stands(c, q, tracked)
      BY <1>1, <2>1, EndOK DEF Stands
    <2>3. ~Unsent(q) /\ sdk'[c] = q
      BY <1>5, <2>1, BecomesFacts DEF Unsent, q
    <2>4. MapsOK(tracked') /\ OthersKept(sdk', tracked', c)
      BY <1>5, SameMaps
    <2>5. Stands(c, q, tracked')
      BY <1>5, <2>2
    <2> QED BY <1>2, <2>1, <2>3, <2>4, <2>5, CallRecord
  <1>6. CASE /\ Heard(c) = "ask"
             /\ \/ /\ GatedBy(c) = "prompt" /\ EntersAsks(c)
                   /\ BecomesIn("pendingAsks", c, Decides(c, "ask", "ask"))
                \/ /\ GatedBy(c) # "prompt" /\ tracked' = tracked /\ Becomes(c, Decides(c, "ask", "ask"))
    <2> DEFINE q == Decides(c, "ask", "ask")
    <2>0. "ask" \in SdkVerdicts
      BY DEF SdkVerdicts
    <2>1. /\ q.pc = "ask" /\ q.decision = "ask" /\ q.fut = sdk[c].fut
          /\ q.said = sdk[c].said /\ q.evicted = sdk[c].evicted /\ q.shown = sdk[c].shown
          /\ q.ran = sdk[c].ran /\ q.sent = sdk[c].sent
      BY <1>1, <2>0, DecidesFacts
    <2>2. /\ MapsOK(tracked') /\ OthersKept(sdk', tracked', c) /\ sdk'[c] = q
          /\ c \in Range(tracked'.pendingAsks) <=> GatedBy(c) = "prompt"
          /\ tracked'.dispatched = tracked.dispatched
      BY <1>3, <1>6, EnteredMaps, SameMaps, BecomesFacts
    <2> HIDE DEF q
    <2>3. Stands(c, q, tracked')
      <3>1. program.verdict[c] = "ask" /\ sdkLog[c].decisions = 1
        BY <1>3, <1>6
      <3> QED BY <1>1, <1>3, <2>1, <2>2, <3>1, AskedOK DEF Stands
    <2>4. ~Unsent(q)
      BY <2>1 DEF Unsent
    <2> QED BY <1>2, <2>1, <2>2, <2>3, <2>4, CallRecord
  <1>7. CASE /\ Heard(c) \in {"allow", "redact"}
             /\ \/ /\ GatedBy(c) = "guard" /\ tracked' = tracked /\ Becomes(c, Decides(c, Heard(c), "run"))
                \/ /\ GatedBy(c) # "guard" /\ EntersRuns(c)
                   /\ BecomesIn("dispatched", c, Decides(c, Heard(c), "run"))
    <2> DEFINE k == Heard(c)
               q == Decides(c, k, "run")
    <2>0. k \in SdkVerdicts /\ k \in {"allow", "redact"}
      BY <1>7 DEF SdkVerdicts
    <2> HIDE DEF k
    <2>1. /\ q.pc = "run" /\ q.decision = k /\ q.fut = sdk[c].fut
          /\ q.said = sdk[c].said /\ q.evicted = sdk[c].evicted /\ q.shown = sdk[c].shown
          /\ q.ran = sdk[c].ran /\ q.sent = sdk[c].sent
      BY <1>1, <2>0, DecidesFacts
    <2>2. /\ MapsOK(tracked') /\ OthersKept(sdk', tracked', c) /\ sdk'[c] = q
          /\ c \in Range(tracked'.dispatched) <=> GatedBy(c) # "guard"
          /\ tracked'.pendingAsks = tracked.pendingAsks
      BY <1>3, <1>7, EnteredMaps, SameMaps, BecomesFacts DEF k
    <2> HIDE DEF q
    <2>3. Stands(c, q, tracked')
      <3>1. program.verdict[c] = k /\ sdkLog[c].decisions = 1
        BY <1>3, <1>7 DEF k
      <3>2. Fits(q, sdkLog[c], program.verdict[c])
        BY <2>0, <2>1, <3>1 DEF Fits
      <3> QED BY <1>1, <1>3, <1>4, <2>1, <2>2, <3>2, RunOK DEF Stands
    <2>4. ~Unsent(q)
      BY <2>1 DEF Unsent
    <2> QED BY <1>2, <2>1, <2>2, <2>3, <2>4, CallRecord
  <1> QED BY <1>1, <1>5, <1>6, <1>7, DecidedForm

\* A call that ends shows what it may.
LEMMA EndsRecord ==
    ASSUME ClientInd, RecordInd, NEW c \in SdkCallers, Apart, tracked' = tracked,
           NEW shown \in Shows, Becomes(c, Ends(c, shown)),
           shown \in {"raw", "masked"} /\ GatedBy(c) = "guard" => sdkLog[c].executions = 1,
           shown = "raw" /\ sdk[c].evicted = FALSE =>
              program.verdict[c] = "allow" \/ (program.verdict[c] = "ask" /\ sdk[c].said = "yes")
    PROVE  RecordInd'
  <1>1. sdk[c] \in CallerType /\ Stands(c, sdk[c], tracked)
    BY StandsFacts
  <1> DEFINE q == Ends(c, shown)
  <1>2. /\ Keeps(sdk[c], q) /\ q.pc = "done" /\ q.fut = Silence /\ q.shown = shown
        /\ q.sent = sdk[c].sent /\ q.ran = sdk[c].ran
    BY <1>1, EndsFacts
  <1>3. sdk'[c] = q /\ MapsOK(tracked') /\ OthersKept(sdk', tracked', c)
    BY BecomesFacts, SameMaps
  <1> HIDE DEF q
  <1>4. q.evicted = sdk[c].evicted /\ q.said = sdk[c].said
    BY <1>2 DEF Keeps
  <1>5. Stands(c, q, tracked)
    BY <1>1, <1>2, <1>4, EndOK DEF Stands
  <1>6. ~Unsent(q) /\ Stands(c, q, tracked')
    BY <1>2, <1>5 DEF Unsent
  <1> QED BY <1>2, <1>3, <1>6, CallRecord

LEMMA ApproverRecord ==
    ASSUME ClientInd, RecordInd, NEW c \in SdkCallers, ApproverSays(c)
    PROVE  RecordInd'
  <1>1. sdk \in [SdkCallers -> CallerType] /\ sdk[c] \in CallerType /\ Stands(c, sdk[c], tracked)
    BY BasicFacts, StandsFacts
  <1>2. sdk[c].pc = "ask" /\ GatedBy(c) # "prompt" /\ Apart /\ tracked' = tracked
    BY <1>1, RestForms
  <1>3. PICK said \in {"yes", "no", "late"} : Becomes(c, Says(c, said))
    BY <1>1, RestForms
  <1> DEFINE q == Says(c, said)
  <1>4. /\ q.pc = "ensure" /\ q.fut = Silence /\ q.shown = sdk[c].shown /\ q.op = "resolve"
        /\ q.sent = TRUE => q.said = "yes"
        /\ q.decision = sdk[c].decision /\ q.ran = sdk[c].ran
    BY <1>1, SaysFacts, ZenonT(40)
  <1>5. sdk'[c] = q /\ MapsOK(tracked') /\ OthersKept(sdk', tracked', c)
    BY <1>2, <1>3, BecomesFacts, SameMaps
  <1> HIDE DEF q
  <1>6. c \notin Range(tracked.pendingAsks)
    BY <1>1, <1>2 DEF Stands, CallOK
  <1>7. Stands(c, q, tracked)
    BY <1>1, <1>2, <1>4, <1>6, SaysOK DEF Stands
  <1>8. ~Unsent(q) /\ Stands(c, q, tracked')
    BY <1>2, <1>4, <1>7 DEF Unsent
  <1> QED BY <1>2, <1>4, <1>5, <1>8, CallRecord

LEMMA CanUseToolRecord ==
    ASSUME ClientInd, RecordInd, NEW c \in SdkCallers, CanUseTool(c)
    PROVE  RecordInd'
  <1>1. sdk \in [SdkCallers -> CallerType] /\ sdk[c] \in CallerType /\ Stands(c, sdk[c], tracked)
    BY BasicFacts, StandsFacts
  <1>2. sdk[c].pc = "ask" /\ GatedBy(c) = "prompt" /\ Apart
    BY <1>1, CanUseToolForm
  <1>3. PICK said \in {"yes", "no"} :
           \/ c \in Range(tracked.pendingAsks) /\ LeavesAsks(c) /\ Becomes(c, Says(c, said))
           \/ /\ c \notin Range(tracked.pendingAsks) /\ tracked' = tracked
              /\ Becomes(c, Told(c, said, IF said = "yes" THEN "run" ELSE "done"))
    BY <1>1, CanUseToolForm
  <1>4. CASE LeavesAsks(c) /\ Becomes(c, Says(c, said))
    <2> DEFINE q == Says(c, said)
    <2>0. said \in {"yes", "no", "late"}
      OBVIOUS
    <2>1. /\ q.pc = "ensure" /\ q.fut = Silence /\ q.shown = sdk[c].shown /\ q.op = "resolve"
          /\ q.sent = TRUE => q.said = "yes"
          /\ q.decision = sdk[c].decision /\ q.ran = sdk[c].ran
      BY <1>1, <2>0, SaysFacts, ZenonT(40)
    <2>2. /\ sdk'[c] = q /\ MapsOK(tracked') /\ OthersKept(sdk', tracked', c)
          /\ c \notin Range(tracked'.pendingAsks) /\ tracked'.dispatched = tracked.dispatched
      BY <1>4, BecomesFacts, LeftMaps
    <2> HIDE DEF q
    <2>3. Stands(c, q, tracked')
      BY <1>1, <1>2, <2>1, <2>2, SaysOK DEF Stands
    <2>4. ~Unsent(q)
      BY <2>1 DEF Unsent
    <2> QED BY <1>2, <2>1, <2>2, <2>3, <2>4, CallRecord
  <1>5. CASE /\ c \notin Range(tracked.pendingAsks) /\ tracked' = tracked
             /\ Becomes(c, Told(c, said, IF said = "yes" THEN "run" ELSE "done"))
    <2> DEFINE p == IF said = "yes" THEN "run" ELSE "done"
               q == Told(c, said, p)
    <2>0. p \in {"run", "done"}
      OBVIOUS
    <2> HIDE DEF p
    <2>1. /\ q.pc = p /\ q.said = said /\ q.fut = sdk[c].fut
          /\ q.evicted = sdk[c].evicted /\ q.shown = sdk[c].shown
          /\ q.ran = sdk[c].ran /\ q.sent = sdk[c].sent
      BY <1>1, <2>0, ToldFacts
    <2>2. sdk'[c] = q /\ MapsOK(tracked') /\ OthersKept(sdk', tracked', c)
      BY <1>5, BecomesFacts, SameMaps DEF p
    <2> HIDE DEF q
    <2>3. Stands(c, q, tracked)
      BY <1>1, <1>2, <1>5, <2>0, <2>1, ToldOK DEF Stands
    <2>4. ~Unsent(q) /\ Stands(c, q, tracked')
      BY <1>5, <2>0, <2>1, <2>3 DEF Unsent
    <2> QED BY <1>2, <2>1, <2>2, <2>4, CallRecord
  <1> QED BY <1>3, <1>4, <1>5

LEMMA OverridesRecord ==
    ASSUME ClientInd, RecordInd, NEW c \in SdkCallers, AgentOverrides(c)
    PROVE  RecordInd'
  <1>1. sdk \in [SdkCallers -> CallerType] /\ sdk[c] \in CallerType /\ Stands(c, sdk[c], tracked)
    BY BasicFacts, StandsFacts
  <1>2. /\ sdk[c].pc = "ask" /\ GatedBy(c) = "prompt" /\ Apart /\ tracked' = tracked
        /\ Becomes(c, Overridden(c))
    BY <1>1, OverridesForm
  <1> DEFINE q == Overridden(c)
  <1>3. /\ q.pc = "run" /\ q.said = sdk[c].said /\ q.fut = sdk[c].fut
        /\ q.decision = sdk[c].decision /\ q.overridden = TRUE
        /\ q.evicted = sdk[c].evicted /\ q.shown = sdk[c].shown
        /\ q.ran = sdk[c].ran /\ q.sent = sdk[c].sent
    BY <1>1 DEF Overridden, CallerType
  <1>4. sdk'[c] = q /\ MapsOK(tracked') /\ OthersKept(sdk', tracked', c)
    BY <1>2, BecomesFacts, SameMaps
  <1> HIDE DEF q
  <1>5. Stands(c, q, tracked)
    BY <1>1, <1>2, <1>3, OverriddenOK DEF Stands
  <1>6. ~Unsent(q) /\ Stands(c, q, tracked')
    BY <1>2, <1>3, <1>5 DEF Unsent
  <1> QED BY <1>2, <1>3, <1>4, <1>6, CallRecord

LEMMA ResolvedRecord ==
    ASSUME ClientInd, RecordInd, NEW c \in SdkCallers, Resolved(c)
    PROVE  RecordInd'
  <1>1. sdk \in [SdkCallers -> CallerType] /\ sdk[c] \in CallerType /\ Stands(c, sdk[c], tracked)
    BY BasicFacts, StandsFacts
  <1>2. Answered(c, "resolve") /\ sdk[c].ran = "no" /\ Apart
    BY <1>1, ResolvedForm
  <1>3. /\ sdk[c].pc = "wait" /\ sdk[c].pc \in Requesting /\ sdk[c].op = "resolve"
        /\ c \notin Range(tracked.dispatched) /\ c \notin Range(tracked.pendingAsks)
    BY <1>2, HeardFacts
  <1>4. CASE tracked' = tracked /\ Becomes(c, Ends(c, "refusal"))
    <2>1. "refusal" \in Shows
      BY DEF Shows
    <2> QED BY <1>2, <1>4, <2>1, EndsRecord
  <1>5. CASE /\ sdk[c].sent
             /\ \/ GatedBy(c) = "guard" /\ tracked' = tracked /\ Becomes(c, Decides(c, "allow", "run"))
                \/ /\ GatedBy(c) # "guard" /\ EntersRuns(c)
                   /\ BecomesIn("dispatched", c, Decides(c, "allow", "run"))
    <2> DEFINE q == Decides(c, "allow", "run")
    <2>0. "allow" \in SdkVerdicts
      BY DEF SdkVerdicts
    <2>1. /\ q.pc = "run" /\ q.decision = "allow" /\ q.fut = sdk[c].fut
          /\ q.said = sdk[c].said /\ q.evicted = sdk[c].evicted /\ q.shown = sdk[c].shown
          /\ q.ran = sdk[c].ran /\ q.sent = sdk[c].sent
      BY <1>1, <2>0, DecidesFacts
    <2>2. /\ MapsOK(tracked') /\ OthersKept(sdk', tracked', c) /\ sdk'[c] = q
          /\ c \in Range(tracked'.dispatched) <=> GatedBy(c) # "guard"
          /\ tracked'.pendingAsks = tracked.pendingAsks
      BY <1>3, <1>5, EnteredMaps, SameMaps, BecomesFacts
    <2> HIDE DEF q
    <2>3. Stands(c, q, tracked')
      <3>1. sdk[c].sent = TRUE
        BY <1>1, <1>5 DEF CallerType
      <3>2. Asking(sdk[c], sdkLog[c], program.verdict[c]) /\ sdk[c].said = "yes"
        BY <1>1, <1>2, <1>3, <3>1 DEF Stands, CallOK
      <3>3. Fits(q, sdkLog[c], program.verdict[c])
        BY <2>1, <3>2 DEF Fits, Asking
      <3> QED BY <1>1, <1>2, <1>3, <2>1, <2>2, <3>3, RunOK DEF Stands
    <2>4. ~Unsent(q)
      BY <2>1 DEF Unsent
    <2> QED BY <1>2, <2>1, <2>2, <2>3, <2>4, CallRecord
  <1> QED BY <1>1, <1>4, <1>5, ResolvedForm

LEMMA GuardRunsRecord ==
    ASSUME ClientInd, RecordInd, NEW c \in SdkCallers, GuardRuns(c)
    PROVE  RecordInd'
  <1>1. sdk \in [SdkCallers -> CallerType] /\ sdk[c] \in CallerType /\ Stands(c, sdk[c], tracked)
    BY BasicFacts, StandsFacts
  <1>2. sdk[c].pc = "run" /\ GatedBy(c) = "guard" /\ Apart /\ tracked' = tracked
    BY <1>1, RestForms
  <1>3. PICK how \in {"returned", "raised"} : Becomes(c, GuardRan(c, how))
    BY <1>1, RestForms
  <1> DEFINE q == GuardRan(c, how)
  <1>4. /\ Keeps(sdk[c], q) /\ q.pc = "ensure" /\ q.fut = Silence /\ q.shown = sdk[c].shown
        /\ q.op = "complete" /\ q.sent = sdk[c].sent /\ q.ran = how
    BY <1>1, GuardRanFacts
  <1>5. sdk'[c] = q /\ MapsOK(tracked') /\ OthersKept(sdk', tracked', c)
    BY <1>2, <1>3, BecomesFacts, SameMaps
  <1> HIDE DEF q
  <1>6. Stands(c, q, tracked)
    <2>1. q.ran # "no"
      BY <1>4
    <2> QED BY <1>1, <1>2, <1>4, <2>1, RanOK DEF Stands
  <1>7. ~Unsent(q) /\ Stands(c, q, tracked')
    BY <1>2, <1>4, <1>6 DEF Unsent
  <1> QED BY <1>2, <1>4, <1>5, <1>7, CallRecord

LEMMA AgentRunsRecord ==
    ASSUME ClientInd, RecordInd, NEW c \in SdkCallers, AgentRuns(c)
    PROVE  RecordInd'
  <1>1. sdk \in [SdkCallers -> CallerType] /\ sdk[c] \in CallerType /\ Stands(c, sdk[c], tracked)
    BY BasicFacts, StandsFacts
  <1>2. /\ sdk[c].pc = "run" /\ GatedBy(c) # "guard" /\ Apart /\ tracked' = tracked
        /\ \/ \E how \in {"returned", "raised"} : Becomes(c, Ran(c, how))
           \/ Becomes(c, Ends(c, "none"))
    BY <1>1, AgentRunsForm
  <1>3. ASSUME NEW how \in {"returned", "raised"}, Becomes(c, Ran(c, how))
        PROVE  RecordInd'
    <2> DEFINE q == Ran(c, how)
    <2>1. /\ q.pc = "after" /\ q.fut = sdk[c].fut /\ q.shown = sdk[c].shown
          /\ q.sent = sdk[c].sent /\ q.ran = how /\ Keeps(sdk[c], q)
      BY <1>1 DEF Ran, CallerType, Keeps
    <2>2. sdk'[c] = q /\ MapsOK(tracked') /\ OthersKept(sdk', tracked', c)
      BY <1>2, <1>3, BecomesFacts, SameMaps
    <2> HIDE DEF q
    <2>3. Stands(c, q, tracked)
      <3>1. q.ran # "no"
        BY <2>1
      <3> QED BY <1>1, <1>2, <2>1, <3>1, RanOK DEF Stands
    <2>4. ~Unsent(q) /\ Stands(c, q, tracked')
      BY <1>2, <2>1, <2>3 DEF Unsent
    <2> QED BY <1>2, <2>1, <2>2, <2>4, CallRecord
  <1>4. CASE Becomes(c, Ends(c, "none"))
    <2>1. "none" \in Shows
      BY DEF Shows
    <2> QED BY <1>2, <1>4, <2>1, EndsRecord
  <1> QED BY <1>2, <1>3, <1>4

LEMMA PostHookRecord ==
    ASSUME ClientInd, RecordInd, NEW c \in SdkCallers, PostHook(c)
    PROVE  RecordInd'
  <1>1. sdk \in [SdkCallers -> CallerType] /\ sdk[c] \in CallerType /\ Stands(c, sdk[c], tracked)
    BY BasicFacts, StandsFacts
  <1>2. /\ sdk[c].pc = "after" /\ Apart
        /\ \/ /\ c \in Range(tracked.dispatched) /\ LeavesRuns(c)
              /\ Becomes(c, Issue(c, "complete"))
           \/ /\ c \notin Range(tracked.dispatched) /\ c \in Range(tracked.pendingAsks)
              /\ sdk[c].ran = "returned" /\ LeavesAsks(c) /\ Becomes(c, Rejects(c))
           \/ /\ c \notin Range(tracked.dispatched)
              /\ ~(c \in Range(tracked.pendingAsks) /\ sdk[c].ran = "returned")
              /\ tracked' = tracked
              /\ Becomes(c, Ends(c, IF sdk[c].ran = "raised" THEN "raised" ELSE "raw"))
    BY <1>1, RestForms
  <1>3. GatedBy(c) # "guard" /\ sdk[c].ran # "no"
    BY <1>1, <1>2 DEF Stands, CallOK
  <1>4. CASE /\ c \in Range(tracked.dispatched) /\ LeavesRuns(c)
             /\ Becomes(c, Issue(c, "complete"))
    <2> DEFINE q == Issue(c, "complete")
    <2>0. "complete" \in Ops
      BY DEF Ops
    <2>1. /\ Keeps(sdk[c], q) /\ q.pc = "ensure" /\ q.fut = Silence /\ q.shown = sdk[c].shown
          /\ q.op = "complete" /\ q.sent = sdk[c].sent /\ q.ran = sdk[c].ran
      BY <1>1, <2>0, IssueFacts
    <2>2. /\ sdk'[c] = q /\ MapsOK(tracked') /\ OthersKept(sdk', tracked', c)
          /\ c \notin Range(tracked'.dispatched) /\ tracked'.pendingAsks = tracked.pendingAsks
      BY <1>4, BecomesFacts, LeftMaps
    <2> HIDE DEF q
    <2>3. c \notin Range(tracked.pendingAsks)
      BY <1>1, <1>4 DEF Stands, CallOK, Fits, Asking
    <2>4. Stands(c, q, tracked')
      BY <1>1, <1>2, <1>4, <2>1, <2>2, <2>3, PostOK DEF Stands
    <2>5. ~Unsent(q)
      BY <2>1 DEF Unsent
    <2> QED BY <1>2, <2>1, <2>2, <2>4, <2>5, CallRecord
  <1>5. CASE /\ c \notin Range(tracked.dispatched) /\ LeavesAsks(c) /\ Becomes(c, Rejects(c))
    <2> DEFINE q == Rejects(c)
    <2>1. /\ Keeps(sdk[c], q) /\ q.pc = "ensure" /\ q.fut = Silence /\ q.shown = sdk[c].shown
          /\ q.op = "resolve" /\ q.sent = FALSE /\ q.ran = sdk[c].ran
      BY <1>1, RejectsFacts
    <2>2. /\ sdk'[c] = q /\ MapsOK(tracked') /\ OthersKept(sdk', tracked', c)
          /\ c \notin Range(tracked'.pendingAsks) /\ tracked'.dispatched = tracked.dispatched
      BY <1>5, BecomesFacts, LeftMaps
    <2> HIDE DEF q
    <2>4. Stands(c, q, tracked')
      BY <1>1, <1>2, <1>5, <2>1, <2>2, PostOK DEF Stands
    <2>5. ~Unsent(q)
      BY <2>1 DEF Unsent
    <2> QED BY <1>2, <2>1, <2>2, <2>4, <2>5, CallRecord
  <1>6. CASE /\ c \notin Range(tracked.dispatched)
             /\ ~(c \in Range(tracked.pendingAsks) /\ sdk[c].ran = "returned")
             /\ tracked' = tracked
             /\ Becomes(c, Ends(c, IF sdk[c].ran = "raised" THEN "raised" ELSE "raw"))
    <2>0. "raised" \in Shows /\ "raw" \in Shows
      BY DEF Shows
    <2>1. CASE sdk[c].ran = "raised"
      <3>1. Becomes(c, Ends(c, "raised"))
        BY <1>6, <2>1
      <3> QED BY <1>2, <1>6, <2>0, <3>1, EndsRecord
    <2>2. CASE sdk[c].ran # "raised"
      <3>1. Becomes(c, Ends(c, "raw"))
        BY <1>6, <2>2
      <3>2. sdk[c].ran = "returned"
        BY <1>1, <1>3, <2>2 DEF CallerType
      <3>3. sdk[c].evicted = TRUE
        BY <1>1, <1>2, <1>3, <1>6, <3>2 DEF Stands, CallOK
      <3> QED BY <1>2, <1>3, <1>6, <2>0, <3>1, <3>3, EndsRecord
    <2> QED BY <2>1, <2>2
  <1> QED BY <1>2, <1>4, <1>5, <1>6

LEMMA RecordedRecord ==
    ASSUME ClientInd, RecordInd, NEW c \in SdkCallers, RejectionSent(c) \/ Recorded(c)
    PROVE  RecordInd'
  <1>1. sdk \in [SdkCallers -> CallerType] /\ sdk[c] \in CallerType /\ Stands(c, sdk[c], tracked)
    BY BasicFacts, StandsFacts
  <1>2. CASE RejectionSent(c)
    <2>1. Apart /\ tracked' = tracked /\ Becomes(c, Ends(c, "withheld"))
      BY <1>1, <1>2, RestForms
    <2>2. "withheld" \in Shows
      BY DEF Shows
    <2> QED BY <2>1, <2>2, EndsRecord
  <1>3. CASE Recorded(c)
    <2>1. /\ Answered(c, "complete") /\ Apart /\ tracked' = tracked
          /\ Becomes(c, Ends(c, RecordShows(c)))
      BY <1>1, <1>3, RestForms
    <2>2. /\ sdk[c].pc \in Requesting /\ sdk[c].op = "complete"
          /\ Heard(c) # "error" => sdkLog[c].executions = 1
      BY <2>1, HeardFacts
    <2>3. Fits(sdk[c], sdkLog[c], program.verdict[c])
      BY <1>1, <2>2 DEF Stands, CallOK
    <2>4. RecordShows(c) \in {"raw", "masked"} /\ GatedBy(c) = "guard" => sdkLog[c].executions = 1
      BY <2>2 DEF RecordShows, GuardShows
    <2>5. RecordShows(c) = "raw" => sdk[c].decision # "redact"
      BY DEF RecordShows, GuardShows, PyPostShows, TsPostShows
    <2>6. RecordShows(c) = "raw" =>
             program.verdict[c] = "allow" \/ (program.verdict[c] = "ask" /\ sdk[c].said = "yes")
      BY <2>3, <2>5 DEF Fits
    <2> QED BY <2>1, <2>4, <2>6, RecordShowsType, EndsRecord
  <1> QED BY <1>2, <1>3

LEMMA CallNextRecord ==
    ASSUME ClientInd, RecordInd, NEW c \in SdkCallers, CallNext(c)
    PROVE  RecordInd'
  BY DecidedRecord, ApproverRecord, CanUseToolRecord, OverridesRecord, ResolvedRecord,
     GuardRunsRecord, AgentRunsRecord, PostHookRecord, RecordedRecord DEF CallNext
-----------------------------------------------------------------------------
\* A call that has not begun is in order, whatever the policy will say.
LEMMA NewCallOK ==
    ASSUME NEW c, NEW l, NEW v, NEW f, NEW runs, NEW asks, c \notin runs, c \notin asks
    PROVE  CallOK(c, NewCall, l, v, f, runs, asks)
  <1>1. /\ NewCall.pc = "ensure" /\ NewCall.op = "decide" /\ NewCall.shown = "none"
        /\ NewCall.sent = FALSE /\ NewCall.ran = "no" /\ NewCall.evicted = FALSE
    BY DEF NewCall
  <1> DEFINE q == NewCall
  <1> HIDE DEF q
  <1>2. CallOK(c, q, l, v, f, runs, asks)
    BY <1>1 DEF CallOK, q
  <1> QED BY <1>2 DEF q

\* Nothing has happened yet, and a program is there or not.
LEMMA RecordAtStart ==
    ASSUME gateways = <<>>, \A c \in SdkCallers : sdk[c] = NewCall, LogOK(sdk, sdkLog), MapsOK(tracked),
           \A c \in SdkCallers : c \notin Range(tracked.dispatched) /\ c \notin Range(tracked.pendingAsks)
    PROVE  RecordInd
  <1>1. DOMAIN gateways = {}
    OBVIOUS
  <1>2. \A c \in SdkCallers : sdk[c].fut \notin AnswerType
    BY DEF NewCall, Silence, AnswerType
  <1>3. LinesOK(gateways, sdk, sdkLog) /\ AnswersOK(gateways, sdk, sdkLog)
    BY <1>1, <1>2 DEF LinesOK, AnswersOK
  <1>4. CallsOK(sdk, sdkLog, tracked)
    BY NewCallOK DEF CallsOK
  <1> QED BY <1>3, <1>4 DEF RecordInd

LEMMA RecordInit == SdkInit => RecordInd
  <1> SUFFICES ASSUME SdkInit PROVE RecordInd
    OBVIOUS
  <1>1. /\ gateways = <<>> /\ sdk = [c \in SdkCallers |-> NewCall]
        /\ tracked = [dispatched |-> <<>>, pendingAsks |-> <<>>]
        /\ sdkLog = [c \in SdkCallers |-> [decisions |-> 0, executions |-> 0]]
    BY DEF SdkInit
  <1>2. \A c \in SdkCallers : sdk[c] = NewCall /\ sdkLog[c].decisions = 0
    BY <1>1
  <1>3. LogOK(sdk, sdkLog)
    BY <1>1, <1>2 DEF LogOK
  <1>4. MapsOK(tracked)
    <2>1. <<>> \in Seq(SdkCallers)
      OBVIOUS
    <2> QED BY <1>1, <2>1, EmptyRange DEF MapsOK
  <1>5. \A c \in SdkCallers : c \notin Range(tracked.dispatched) /\ c \notin Range(tracked.pendingAsks)
    BY <1>1, EmptyRange
  <1> QED BY <1>1, <1>2, <1>3, <1>4, <1>5, RecordAtStart

LEMMA StartRecord ==
    ASSUME ClientInd, RecordInd, SdkStart
    PROVE  RecordInd'
  <1>1. /\ sdk' = sdk /\ gateways' = gateways /\ sdkLog' = sdkLog /\ tracked' = tracked
        /\ gateways = <<>> /\ \A c \in SdkCallers : sdk[c] = NewCall
    BY DEF SdkStart, clientVars, ClientInd, Idle
  <1>2. LogOK(sdk, sdkLog) /\ MapsOK(tracked)
    BY DEF RecordInd
  <1>3. ASSUME NEW c \in SdkCallers
        PROVE  c \notin Range(tracked.dispatched) /\ c \notin Range(tracked.pendingAsks)
    <2>1. sdk[c].pc = "ensure"
      BY <1>1 DEF NewCall
    <2> QED BY <2>1, StandsFacts
  <1>4. LinesOK(gateways', sdk', sdkLog') /\ AnswersOK(gateways, sdk, sdkLog)'
    <2>1. DOMAIN gateways = {}
      BY <1>1
    <2>2. \A c \in SdkCallers : sdk[c].fut \notin AnswerType
      BY <1>1 DEF NewCall, Silence, AnswerType
    <2> QED BY <1>1, <2>1, <2>2 DEF LinesOK, AnswersOK
  <1>5. CallsOK(sdk, sdkLog, tracked)'
    <2> SUFFICES ASSUME NEW c \in SdkCallers
                 PROVE  CallOK(c, sdk'[c], sdkLog'[c], program'.verdict[c], GatedBy(c)',
                               Range(tracked'.dispatched), Range(tracked'.pendingAsks))
      BY DEF CallsOK
    <2>1. sdk'[c] = NewCall
      BY <1>1
    <2>2. c \notin Range(tracked'.dispatched) /\ c \notin Range(tracked'.pendingAsks)
      BY <1>1, <1>3
    <2> QED BY <2>1, <2>2, NewCallOK
  <1>6. LogOK(sdk, sdkLog)' /\ MapsOK(tracked)' /\ LinesOK(gateways, sdk, sdkLog)'
    BY <1>1, <1>2, <1>4 DEF LogOK, MapsOK, LinesOK, Unsent, DecideLine, Once
  <1> QED BY <1>4, <1>5, <1>6 DEF RecordInd

LEMMA RecordNext == ClientInd /\ RecordInd /\ [SdkNext]_sdkVars => RecordInd'
  <1> SUFFICES ASSUME ClientInd, RecordInd, [SdkNext]_sdkVars PROVE RecordInd'
    OBVIOUS
  <1>1. ASSUME program' = program, sdk' = sdk, gateways' = gateways, sdkLog' = sdkLog, tracked' = tracked
        PROVE  RecordInd'
    BY <1>1, RecordConcluded DEF RecordInd
  <1>2. CASE UNCHANGED sdkVars
    BY <1>1, <1>2 DEF sdkVars, clientVars
  <1>3. CASE SdkNext
    <2>1. CASE ClientNext
      BY <2>1, ClientRecord
    <2>2. CASE \E g \in DOMAIN gateways : Serve(g) \/ ChildEnds(g) \/ BadLine(g)
      BY <2>2, ServeRecord, FaultRecord
    <2>3. CASE \E c \in SdkCallers : CallNext(c)
      BY <2>3, CallNextRecord
    <2>4. CASE SdkStart
      BY <2>4, StartRecord
    <2>5. CASE SdkTick
      BY <1>1, <2>5 DEF SdkTick, clientVars
    <2> QED BY <1>3, <2>1, <2>2, <2>3, <2>4, <2>5, SdkSteps
  <1> QED BY <1>2, <1>3

\* Every tool call of the SDK runs on a decision of its own on the ledger, is
\* recorded at most once, and shows only what was recorded and masked,
\* whichever of authorize, resolve, the tool and record fails (guard.py,
\* guard.ts, the Claude hooks of both).
THEOREM CallsRunOnRecord == SdkSpec => []RunsOnRecord
  <1>1. ClientInd /\ RecordInd => RunsOnRecord
    <2> SUFFICES ASSUME ClientInd, RecordInd PROVE RunsOnRecord
      OBVIOUS
    <2>1. ASSUME NEW c \in SdkCallers
          PROVE  /\ sdk[c] \in CallerType /\ Stands(c, sdk[c], tracked)
                 /\ sdkLog[c].decisions \in {0, 1} /\ sdkLog[c].executions \in {0, 1}
      BY StandsFacts DEF RecordInd, LogOK
    <2>2. RunsAuthorised
      <3> SUFFICES ASSUME NEW c \in SdkCallers, sdk[c].ran # "no", ~sdk[c].overridden, ~sdk[c].evicted
                   PROVE  /\ sdkLog[c].decisions = 1
                          /\ \/ program.verdict[c] \in {"allow", "redact"}
                             \/ program.verdict[c] = "ask" /\ sdk[c].said = "yes"
        BY DEF RunsAuthorised
      <3>1. sdk[c].overridden = FALSE /\ sdk[c].evicted = FALSE
        BY <2>1 DEF CallerType
      <3> QED BY <2>1, <3>1 DEF Stands, CallOK
    <2>3. NeverRetried
      BY <2>1 DEF NeverRetried
    <2>4. OnlyRecordedReturned
      <3> SUFFICES ASSUME NEW c \in SdkCallers
                   PROVE  /\ sdk[c].shown \in {"raw", "masked"} /\ GatedBy(c) = "guard" =>
                                sdkLog[c].executions = 1
                          /\ sdk[c].shown = "raw" /\ ~sdk[c].evicted =>
                                /\ program.verdict[c] \in {"allow", "ask"}
                                /\ program.verdict[c] = "ask" => sdk[c].said = "yes"
        BY DEF OnlyRecordedReturned
      <3>1. ~sdk[c].evicted => sdk[c].evicted = FALSE
        BY <2>1 DEF CallerType
      <3>2. Stands(c, sdk[c], tracked)
        BY <2>1
      <3> QED BY <3>1, <3>2 DEF Stands, CallOK
    <2> QED BY <2>2, <2>3, <2>4 DEF RunsOnRecord
  <1> QED BY <1>1, ClientInit, ClientStep, RecordInit, RecordNext, PTL DEF SdkSpec
-----------------------------------------------------------------------------
(***************************************************************************)
(* One child                                                               *)
(***************************************************************************)
\* The children that serve: up, and not sent a signal that ends them.
Serving(gs) == {g \in DOMAIN gs : gs[g].up /\ ~gs[g].doomed}

\* The client's child is the last it started, and only that one serves.  When
\* the Python client closes, its child is on its own until close has waited
\* for it.
ChildrenOK ==
    /\ current \in {0, Len(gateways)}
    /\ closing = "closed" \/ (Python /\ closing = "waiting") => current = 0
    /\ Serving(gateways) \subseteq
          IF closing = "closed" THEN {}
          ELSE IF Python /\ closing = "waiting" THEN {Len(gateways)} ELSE {current}

LEMMA SameLength ==
    ASSUME NEW S, NEW s \in Seq(S), NEW t \in Seq(S), DOMAIN s = DOMAIN t
    PROVE  Len(s) = Len(t)
  OBVIOUS

LEMMA ServingFacts ==
    ASSUME ClientInd
    PROVE  /\ gateways \in Seq(GatewayType) /\ DOMAIN gateways = 1..Len(gateways)
           /\ Len(gateways) \in Nat /\ 0 \notin DOMAIN gateways
           /\ \A g \in DOMAIN gateways : gateways[g].up \in BOOLEAN /\ gateways[g].doomed \in BOOLEAN
           /\ program = NoProgram => Serving(gateways) = {}
  <1>1. gateways \in Seq(GatewayType)
    BY DEF ClientInd, TablesOK
  <1>2. DOMAIN gateways = 1..Len(gateways) /\ Len(gateways) \in Nat
    BY <1>1, SeqDomain
  <1>3. \A g \in DOMAIN gateways : gateways[g].up \in BOOLEAN /\ gateways[g].doomed \in BOOLEAN
    BY <1>1, ChildFacts DEF GatewayType
  <1>4. program = NoProgram => DOMAIN gateways = {}
    <2>1. DOMAIN <<>> = {}
      OBVIOUS
    <2> QED BY <2>1 DEF ClientInd, Idle
  <1> QED BY <1>1, <1>2, <1>3, <1>4 DEF Serving

\* The client stays with its child.
LEMMA ChildrenKept ==
    ASSUME ClientInd, ClientInd', ChildrenOK, DOMAIN gateways' = DOMAIN gateways,
           Serving(gateways)' \subseteq Serving(gateways),
           program' = program, current' = current, closing' = closing
    PROVE  ChildrenOK'
  <1>1. gateways \in Seq(GatewayType) /\ gateways' \in Seq(GatewayType)
    BY DEF ClientInd, TablesOK
  <1>2. Len(gateways') = Len(gateways)
    BY <1>1, SameLength
  <1> QED BY <1>2 DEF ChildrenOK, Python

\* The client drops its child, and the child ends.
LEMMA ChildDropped ==
    ASSUME ClientInd, ClientInd', ChildrenOK, DOMAIN gateways' = DOMAIN gateways,
           Serving(gateways)' \subseteq Serving(gateways) \ {current},
           closing = "no" \/ ~Python, current' = 0
    PROVE  ChildrenOK' /\ Serving(gateways)' = {}
  BY DEF ChildrenOK

\* The client has no child that serves, and starts one.
LEMMA ChildStarted ==
    ASSUME ClientInd, ClientInd', NEW gs, gs \in Seq(GatewayType), Serving(gs) = {},
           gateways' = Append(gs, NewGateway), current' = Len(gs) + 1, closing' = "no"
    PROVE  ChildrenOK'
  <1>1. /\ DOMAIN gs = 1..Len(gs) /\ Len(gs) \in Nat /\ Len(gateways') = Len(gs) + 1
        /\ DOMAIN gateways' = 1..(Len(gs) + 1) /\ \A g \in DOMAIN gs : gateways'[g] = gs[g]
    BY SeqDomain
  <1>2. Serving(gateways)' \subseteq {Len(gs) + 1}
    BY <1>1 DEF Serving
  <1> QED BY <1>1, <1>2 DEF ChildrenOK
-----------------------------------------------------------------------------
\* What happens to one child does not make another serve, or itself.
LEMMA OneChanges ==
    ASSUME NEW gs \in Seq(GatewayType), NEW g \in DOMAIN gs, NEW x
    PROVE  /\ DOMAIN [gs EXCEPT ![g] = x] = DOMAIN gs
           /\ (x.up => gs[g].up) /\ (gs[g].doomed => x.doomed) =>
                 Serving([gs EXCEPT ![g] = x]) \subseteq Serving(gs)
           /\ ~x.up \/ x.doomed => Serving([gs EXCEPT ![g] = x]) \subseteq Serving(gs) \ {g}
  BY DEF Serving

\* A child that is given up ends.
LEMMA GivenUpServes ==
    ASSUME ClientInd, NEW g \in DOMAIN gateways
    PROVE  /\ DOMAIN GivenUp(g) = DOMAIN gateways
           /\ Serving(GivenUp(g)) \subseteq Serving(gateways) \ {g}
  <1>1. gateways \in Seq(GatewayType) /\ gateways[g] \in GatewayType
    BY ChildFacts, ServingFacts
  <1> DEFINE x == [gateways[g] EXCEPT !.dead = TRUE, !.pending = <<>>, !.outbox = <<>>,
                                      !.doomed = TRUE]
  <1>2. x.doomed = TRUE
    BY <1>1 DEF GatewayType
  <1>3. GivenUp(g) = [gateways EXCEPT ![g] = x]
    BY <1>1 DEF GivenUp
  <1> HIDE DEF x
  <1> QED BY <1>1, <1>2, <1>3, OneChanges

\* So does one that _ensure_gateway closes before it starts another.
LEMMA ThenServes ==
    ASSUME ClientInd, ChildrenOK, closing = "no", ~Alive(current)
    PROVE  /\ DOMAIN GatewaysThen = DOMAIN gateways
           /\ Serving(GatewaysThen) = {}
  <1>1. /\ gateways \in Seq(GatewayType) /\ DOMAIN gateways = 1..Len(gateways)
        /\ Len(gateways) \in Nat /\ 0 \notin DOMAIN gateways /\ current \in 0..Len(gateways)
    BY ServingFacts DEF ClientInd
  <1>2. Serving(gateways) \subseteq {current}
    BY DEF ChildrenOK
  <1>3. CASE current = 0
    BY <1>1, <1>2, <1>3 DEF GatewaysThen, Serving
  <1>4. CASE current # 0
    <2>1. current \in DOMAIN gateways
      BY <1>1, <1>4
    <2> DEFINE gs == GivenUp(current)
               x == [gs[current] EXCEPT !.eof = TRUE]
    <2>2. /\ DOMAIN gs = DOMAIN gateways /\ Serving(gs) = {}
          /\ ChildOnly(gateways, gs, current) /\ gs[current] \in GatewayType
      BY <1>2, <2>1, GivenUpServes, GivenUpFacts DEF ClientInd
    <2>3. gs \in Seq(GatewayType)
      BY <2>2 DEF ChildOnly
    <2>4. GatewaysThen = [gs EXCEPT ![current] = x]
      BY <1>4, <2>1, <2>2 DEF GatewaysThen
    <2> HIDE DEF gs
    <2>5. x.up = gs[current].up /\ x.doomed = gs[current].doomed
      BY <2>2 DEF GatewayType
    <2> HIDE DEF x
    <2> QED BY <2>1, <2>2, <2>3, <2>4, <2>5, OneChanges
  <1> QED BY <1>3, <1>4
-----------------------------------------------------------------------------
\* The steps of the callers and of the children: no child starts to serve.
LEMMA ChildrenEnsure ==
    ASSUME ClientInd, ClientInd', ChildrenOK, NEW c \in SdkCallers, Ensure(c)
    PROVE  ChildrenOK'
  <1>1. program' = program /\ closing' = closing
    BY DEF Ensure, clientVars
  <1>2. CASE UNCHANGED clientVars
    BY <1>1, <1>2, ChildrenKept DEF clientVars
  <1>3. CASE closing = "no" /\ ~Alive(current) /\ gateways' = GatewaysThen /\ current' = 0
    <2>1. DOMAIN gateways' = DOMAIN gateways /\ Serving(gateways)' = {}
      BY <1>3, ThenServes
    <2> QED BY <1>3, <2>1, ChildDropped
  <1>4. CASE /\ closing = "no" /\ ~Alive(current)
             /\ gateways' = Append(GatewaysThen, NewGateway) /\ current' = Len(GatewaysThen) + 1
    <2>1. GatewaysThen \in Seq(GatewayType)
      <3>1. sdk[c].pc = "ensure"
        BY DEF Ensure
      <3> QED BY <3>1, ThenFacts DEF TablesOK
    <2>2. Serving(GatewaysThen) = {} /\ closing' = "no"
      BY <1>1, <1>4, ThenServes
    <2> QED BY <1>4, <2>1, <2>2, ChildStarted
  <1> QED BY <1>2, <1>3, <1>4 DEF Ensure, GatewaysThen

\* _fail
LEMMA ChildrenFail ==
    ASSUME ClientInd, ClientInd', ChildrenOK, NEW g \in DOMAIN gateways,
           gateways' = GivenUp(g), program' = program, current' = current, closing' = closing
    PROVE  ChildrenOK'
  BY GivenUpServes, ChildrenKept

\* A step that leaves what serves as it is.
LEMMA ChildrenEdit ==
    ASSUME ClientInd, ClientInd', ChildrenOK, NEW g \in DOMAIN gateways, NEW x,
           gateways' = [gateways EXCEPT ![g] = x],
           x.up => gateways[g].up, gateways[g].doomed => x.doomed,
           program' = program, current' = current, closing' = closing
    PROVE  ChildrenOK'
  BY ServingFacts, OneChanges, ChildrenKept

LEMMA ChildrenRegister ==
    ASSUME ClientInd, ClientInd', ChildrenOK, NEW c \in SdkCallers, Register(c)
    PROVE  ChildrenOK'
  <1> DEFINE g == sdk[c].gw
             x == [gateways[g] EXCEPT !.pending = Append(@, c)]
  <1>1. g \in DOMAIN gateways
    BY DEF Register, ClientInd, TablesOK
  <1>2. gateways[g] \in GatewayType
    BY <1>1, ServingFacts, ChildFacts
  <1>3. program' = program /\ current' = current /\ closing' = closing
    BY DEF Register
  <1>4. CASE gateways' = gateways
    BY <1>3, <1>4, ChildrenKept
  <1>5. CASE gateways' = [gateways EXCEPT ![g].pending = Append(@, c)]
    <2>1. gateways' = [gateways EXCEPT ![g] = x]
      BY <1>5
    <2>2. x.up = gateways[g].up /\ x.doomed = gateways[g].doomed
      BY <1>2 DEF GatewayType
    <2> QED BY <1>1, <1>3, <2>1, <2>2, ChildrenEdit
  <1> QED BY <1>4, <1>5 DEF Register

LEMMA ChildrenWrite ==
    ASSUME ClientInd, ClientInd', ChildrenOK, NEW c \in SdkCallers, Write(c)
    PROVE  ChildrenOK'
  <1> DEFINE g == sdk[c].gw
             x == [gateways[g] EXCEPT !.inbox = Append(@, Line(c))]
  <1>1. g \in DOMAIN gateways
    BY DEF Write, ClientInd, TablesOK
  <1>2. gateways[g] \in GatewayType
    BY <1>1, ServingFacts, ChildFacts
  <1>3. program' = program /\ current' = current /\ closing' = closing
    BY DEF Write
  <1>4. CASE gateways' = GivenUp(g)
    BY <1>1, <1>3, <1>4, ChildrenFail
  <1>5. CASE gateways' = [gateways EXCEPT ![g].inbox = Append(@, Line(c))]
    <2>1. gateways' = [gateways EXCEPT ![g] = x]
      BY <1>5
    <2>2. x.up = gateways[g].up /\ x.doomed = gateways[g].doomed
      BY <1>2 DEF GatewayType
    <2> QED BY <1>1, <1>3, <2>1, <2>2, ChildrenEdit
  <1> QED BY <1>4, <1>5 DEF Write, Fail

\* An answer is delivered, whichever client hears it.
LEMMA DeliveredServes ==
    ASSUME ClientInd, NEW g \in DOMAIN gateways, NEW c, NEW a, Delivered(g, c, a)
    PROVE  \E x : /\ gateways' = [gateways EXCEPT ![g] = x]
                  /\ x.up = gateways[g].up /\ x.doomed = gateways[g].doomed
  <1> DEFINE x == [gateways[g] EXCEPT !.outbox = Tail(@), !.pending = RemoveFirst(@, c)]
  <1>1. gateways[g] \in GatewayType
    BY ServingFacts, ChildFacts
  <1>2. gateways' = [gateways EXCEPT ![g] = x]
    BY DEF Delivered
  <1>3. x.up = gateways[g].up /\ x.doomed = gateways[g].doomed
    BY <1>1 DEF GatewayType
  <1> HIDE DEF x
  <1> QED BY <1>2, <1>3

LEMMA ChildrenRead ==
    ASSUME ClientInd, ClientInd', ChildrenOK, NEW g \in DOMAIN gateways, Read(g) \/ ReadEof(g)
    PROVE  ChildrenOK'
  <1>1. program' = program /\ current' = current /\ closing' = closing
    BY DEF Read, ReadEof
  <1>2. CASE gateways' = GivenUp(g)
    BY <1>1, <1>2, ChildrenFail
  <1>3. ASSUME NEW c, NEW a, Delivered(g, c, a) PROVE ChildrenOK'
    BY <1>1, <1>3, DeliveredServes, ChildrenEdit
  <1> QED BY <1>2, <1>3 DEF Read, ReadEof, Fail

LEMMA ChildrenTimesOut ==
    ASSUME ClientInd, ClientInd', ChildrenOK, NEW c \in SdkCallers, TimesOut(c)
    PROVE  ChildrenOK'
  <1>1. sdk[c].gw \in DOMAIN gateways
    BY DEF TimesOut, ClientInd, TablesOK, Waiting
  <1> QED BY <1>1, ChildrenFail DEF TimesOut, Fail

LEMMA ChildrenSame ==
    ASSUME ClientInd, ClientInd', ChildrenOK, UNCHANGED <<program, clientVars>>
    PROVE  ChildrenOK'
  BY ChildrenKept DEF clientVars
-----------------------------------------------------------------------------
\* Once close has returned no child serves.
LEMMA ChildrenClose ==
    ASSUME ClientInd, ClientInd', ChildrenOK, Close
    PROVE  ChildrenOK'
  <1>0. /\ program' = program /\ current' = 0 /\ closing = "no" /\ Python
    BY DEF Close
  <1>1. /\ gateways \in Seq(GatewayType) /\ DOMAIN gateways = 1..Len(gateways)
        /\ Len(gateways) \in Nat /\ 0 \notin DOMAIN gateways /\ current \in 0..Len(gateways)
    BY ServingFacts DEF ClientInd
  <1>2. Serving(gateways) \subseteq {current}
    BY <1>0 DEF ChildrenOK
  <1>3. CASE current = 0 /\ closing' = "closed" /\ gateways' = gateways
    <2>1. Serving(gateways) = {}
      BY <1>1, <1>2, <1>3 DEF Serving
    <2> QED BY <1>0, <1>3, <2>1 DEF ChildrenOK, Serving
  <1>4. CASE /\ current # 0 /\ closing' = "waiting"
             /\ gateways' = [GivenUp(current) EXCEPT ![current].doomed = gateways[current].doomed,
                                                     ![current].eof = TRUE]
    <2>1. current \in DOMAIN gateways /\ current = Len(gateways)
      BY <1>1, <1>4 DEF ChildrenOK
    <2> DEFINE gs == GivenUp(current)
               x == [gs[current] EXCEPT !.doomed = gateways[current].doomed, !.eof = TRUE]
    <2>2. /\ DOMAIN gs = DOMAIN gateways /\ Serving(gs) = {}
          /\ ChildOnly(gateways, gs, current) /\ gs[current] \in GatewayType
      BY <1>2, <2>1, GivenUpServes, GivenUpFacts DEF ClientInd
    <2>3. gs \in Seq(GatewayType)
      BY <2>2 DEF ChildOnly
    <2>4. gateways' = [gs EXCEPT ![current] = x]
      BY <1>4, <2>1, <2>2
    <2> HIDE DEF gs, x
    <2>5. DOMAIN gateways' = DOMAIN gateways /\ \A g \in DOMAIN gs : g # current => gateways'[g] = gs[g]
      BY <2>1, <2>2, <2>4
    <2>6. Serving(gateways)' \subseteq {current}
      BY <2>2, <2>5 DEF Serving
    <2>7. Len(gateways') = Len(gateways)
      BY <1>1, <2>5, SameLength DEF ClientInd, TablesOK
    <2> QED BY <1>0, <1>4, <2>1, <2>6, <2>7 DEF ChildrenOK, Python
  <1> QED BY <1>3, <1>4 DEF Close

LEMMA ChildrenCloseReturns ==
    ASSUME ClientInd, ClientInd', ChildrenOK, CloseReturns
    PROVE  ChildrenOK'
  <1> DEFINE g == Len(gateways)
             x == [gateways[g] EXCEPT !.doomed = @ \/ gateways[g].up]
  <1>0. closing = "waiting" /\ Python /\ closing' = "closed" /\ current' = current
    BY DEF CloseReturns
  <1>1. /\ gateways \in Seq(GatewayType) /\ DOMAIN gateways = 1..g /\ g \in Nat /\ gateways # <<>>
        /\ Serving(gateways) \subseteq {g} /\ current = 0
    BY <1>0, ServingFacts DEF ClientInd, ChildrenOK
  <1>2. g \in DOMAIN gateways
    BY <1>1
  <1>3. gateways' = [gateways EXCEPT ![g] = x]
    BY <1>2 DEF CloseReturns
  <1>4. ~x.up \/ x.doomed
    <2>1. PICK y : y = gateways[g]
      OBVIOUS
    <2>2. y \in GatewayType
      BY <1>1, <1>2, <2>1, ChildFacts
    <2>3. x = [y EXCEPT !.doomed = y.doomed \/ y.up]
      BY <2>1
    <2> HIDE DEF x
    <2> QED BY <2>2, <2>3 DEF GatewayType
  <1> HIDE DEF x
  <1>5. Serving([gateways EXCEPT ![g] = x]) \subseteq Serving(gateways) \ {g}
    BY <1>1, <1>2, <1>4, OneChanges
  <1>6. Serving(gateways)' = {}
    BY <1>1, <1>3, <1>5
  <1> QED BY <1>0, <1>1, <1>6 DEF ChildrenOK
-----------------------------------------------------------------------------
\* poison: the TypeScript client's child is dropped and killed.
LEMMA ChildrenPoison ==
    ASSUME ClientInd, ClientInd', ChildrenOK, TypeScript, current # 0, NEW callers, Poison(callers)
    PROVE  ChildrenOK'
  <1>1. ~Python /\ current' = 0 /\ gateways' = GivenUp(current)
    BY DEF Poison, Python, TypeScript
  <1>2. current \in DOMAIN gateways
    BY ServingFacts DEF ClientInd
  <1> QED BY <1>1, <1>2, GivenUpServes, ChildDropped

LEMMA ChildrenHears ==
    ASSUME ClientInd, ClientInd', ChildrenOK, OnLine \/ OnClose
    PROVE  ChildrenOK'
  <1>1. program' = program /\ closing' = closing /\ TypeScript /\ current # 0
    BY DEF OnLine, OnClose
  <1>2. current \in DOMAIN gateways
    BY <1>1, ServingFacts DEF ClientInd
  <1>3. CASE Poison(sdk)
    BY <1>1, <1>3, ChildrenPoison
  <1>4. ASSUME NEW c, NEW a, Delivered(current, c, a), current' = current PROVE ChildrenOK'
    BY <1>1, <1>2, <1>4, DeliveredServes, ChildrenEdit
  <1> QED BY <1>3, <1>4 DEF OnLine, OnClose

LEMMA ChildrenTsTimesOut ==
    ASSUME ClientInd, ClientInd', ChildrenOK, NEW c \in SdkCallers, TsTimesOut(c)
    PROVE  ChildrenOK'
  <1>1. Waiting(sdk[c]) /\ TypeScript /\ Poison(sdk)
    BY DEF TsTimesOut, Waiting
  <1>2. current # 0
    BY <1>1, ServingFacts DEF ClientInd, TablesOK
  <1> QED BY <1>1, <1>2, ChildrenPoison

LEMMA ChildrenTsClose ==
    ASSUME ClientInd, ClientInd', ChildrenOK, TsClose
    PROVE  ChildrenOK'
  <1>0. TypeScript /\ ~Python /\ program' = program
    BY DEF TsClose, Python, TypeScript
  <1>1. /\ gateways \in Seq(GatewayType) /\ DOMAIN gateways = 1..Len(gateways)
        /\ Len(gateways) \in Nat /\ 0 \notin DOMAIN gateways /\ current \in 0..Len(gateways)
    BY ServingFacts DEF ClientInd
  <1>2. closing # "closed" /\ Serving(gateways) \subseteq {current}
    BY <1>0 DEF TsClose, ChildrenOK
  <1>3. CASE current = 0 /\ current' = current /\ closing' = "closed" /\ gateways' = gateways
    <2>1. Serving(gateways) = {}
      BY <1>1, <1>2, <1>3 DEF Serving
    <2> QED BY <1>3, <2>1 DEF ChildrenOK
  <1>4. CASE /\ current # 0 /\ current' = current /\ closing' = "waiting"
             /\ gateways' = [gateways EXCEPT ![current].eof = TRUE]
    <2>1. current \in DOMAIN gateways
      BY <1>1, <1>4
    <2> DEFINE x == [gateways[current] EXCEPT !.eof = TRUE]
    <2>2. gateways' = [gateways EXCEPT ![current] = x]
      BY <1>4
    <2>3. x.up = gateways[current].up /\ x.doomed = gateways[current].doomed
      BY <1>1, <2>1, ChildFacts DEF GatewayType
    <2> HIDE DEF x
    <2>4. DOMAIN gateways' = DOMAIN gateways /\ Serving(gateways)' \subseteq Serving(gateways)
      BY <1>1, <2>1, <2>2, <2>3, OneChanges
    <2>5. Len(gateways') = Len(gateways)
      BY <1>1, <2>4, SameLength DEF ClientInd, TablesOK
    <2>6. ~Python'
      BY <1>0 DEF Python
    <2> QED BY <1>2, <1>4, <2>4, <2>5, <2>6 DEF ChildrenOK
  <1>5. CASE current # 0 /\ Poison(sdk)
    BY <1>0, <1>5, ChildrenPoison
  <1> QED BY <1>3, <1>4, <1>5 DEF TsClose

LEMMA ChildrenTsRequest ==
    ASSUME ClientInd, ClientInd', ChildrenOK, NEW c \in SdkCallers, TsRequest(c)
    PROVE  ChildrenOK'
  <1>0. TypeScript /\ ~Python /\ program' = program /\ closing' = closing
    BY DEF TsRequest, Python, TypeScript
  <1>1. /\ gateways \in Seq(GatewayType) /\ DOMAIN gateways = 1..Len(gateways)
        /\ Len(gateways) \in Nat /\ 0 \notin DOMAIN gateways /\ current \in 0..Len(gateways)
    BY ServingFacts DEF ClientInd
  <1>2. CASE UNCHANGED <<gateways, current>>
    BY <1>0, <1>2, ChildrenKept
  <1>3. CASE current # 0 /\ \E callers : Poison(callers)
    BY <1>0, <1>3, ChildrenPoison
  <1>4. CASE /\ closing = "no" /\ current' = TsProcess.it
             /\ gateways' = [TsProcess.all EXCEPT
                   ![TsProcess.it].pending = Append(@, c),
                   ![TsProcess.it].inbox =
                       IF TsProcess.all[TsProcess.it].up THEN Append(@, Line(c)) ELSE @]
    <2> DEFINE gs == TsProcess.all
               g == TsProcess.it
               x == [gs[g] EXCEPT !.pending = Append(@, c),
                                  !.inbox = IF gs[g].up THEN Append(@, Line(c)) ELSE @]
    <2>1. gs \in Seq(GatewayType) /\ g \in DOMAIN gs
      BY <1>0, TsProcessFacts DEF TablesOK
    <2>2. DOMAIN gs = 1..Len(gs) /\ Len(gs) \in Nat /\ gs[g] \in GatewayType
      BY <2>1, SeqDomain
    <2>3. Serving(gateways) \subseteq {current}
      BY <1>0, <1>4 DEF ChildrenOK
    <2>4. g = Len(gs) /\ Serving(gs) \subseteq {g}
      <3>1. CASE current # 0
        BY <2>3, <3>1 DEF TsProcess, ChildrenOK
      <3>2. CASE current = 0
        <4>1. gs = Append(gateways, NewGateway) /\ g = Len(gateways) + 1
          BY <3>2 DEF TsProcess
        <4>2. Serving(gateways) = {}
          BY <1>1, <2>3, <3>2 DEF Serving
        <4>3. /\ DOMAIN gs = 1..g /\ Len(gs) = g
              /\ \A h \in DOMAIN gateways : gs[h] = gateways[h]
          BY <1>1, <4>1
        <4> QED BY <1>1, <4>1, <4>2, <4>3 DEF Serving
      <3> QED BY <3>1, <3>2
    <2>5. gateways' = [gs EXCEPT ![g] = x]
      BY <1>4, <2>1, <2>2
    <2> HIDE DEF gs, g, x
    <2>6. DOMAIN gateways' = DOMAIN gs /\ \A h \in DOMAIN gs : h # g => gateways'[h] = gs[h]
      BY <2>1, <2>2, <2>5
    <2>7. Serving(gateways)' \subseteq {g}
      BY <2>4, <2>6 DEF Serving
    <2>8. Len(gateways') = Len(gs)
      BY <2>1, <2>6, SameLength DEF ClientInd, TablesOK
    <2>9. ~Python' /\ current' = g /\ closing' = "no"
      BY <1>0, <1>4 DEF Python, g
    <2> QED BY <2>4, <2>7, <2>8, <2>9 DEF ChildrenOK
  <1> QED BY <1>2, <1>3, <1>4 DEF TsRequest

\* What a child does by itself: at most, it ends.
LEMMA ChildrenServe ==
    ASSUME ClientInd, ClientInd', ChildrenOK, NEW g \in DOMAIN gateways,
           Serve(g) \/ ChildEnds(g) \/ BadLine(g)
    PROVE  ChildrenOK'
  <1>1. program' = program /\ current' = current /\ closing' = closing
    BY DEF Serve, ChildEnds, BadLine
  <1>2. gateways[g] \in GatewayType /\ gateways[g].up = TRUE
    BY ServingFacts, ChildFacts DEF Serve, ChildEnds, BadLine, GatewayType
  <1>3. ASSUME NEW live, NEW inbox, NEW outbox,
               gateways' = [gateways EXCEPT ![g].up = live, ![g].inbox = inbox, ![g].outbox = outbox]
        PROVE  ChildrenOK'
    <2> DEFINE x == [gateways[g] EXCEPT !.up = live, !.inbox = inbox, !.outbox = outbox]
    <2>1. gateways' = [gateways EXCEPT ![g] = x]
      BY <1>3
    <2>2. x.doomed = gateways[g].doomed
      BY <1>2 DEF GatewayType
    <2> QED BY <1>1, <1>2, <2>1, <2>2, ChildrenEdit
  <1>4. CASE Serve(g)
    <2>1. PICK s \in Served(Head(gateways[g].inbox)), answered \in BOOLEAN :
            gateways' = [gateways EXCEPT
                ![g].inbox = IF answered THEN Tail(@) ELSE <<>>, ![g].up = answered,
                ![g].outbox = IF answered
                              THEN Append(@, Reply(Head(gateways[g].inbox), s[2])) ELSE @]
      BY <1>4 DEF Serve, Reply
    <2> DEFINE inbox == IF answered THEN Tail(gateways[g].inbox) ELSE <<>>
               outbox == IF answered THEN Append(gateways[g].outbox, Reply(Head(gateways[g].inbox), s[2]))
                         ELSE gateways[g].outbox
               x == [gateways[g] EXCEPT !.inbox = inbox, !.up = answered, !.outbox = outbox]
    <2>2. gateways' = [gateways EXCEPT ![g] = x]
      BY <2>1
    <2>3. x.doomed = gateways[g].doomed
      BY <1>2 DEF GatewayType
    <2> HIDE DEF x
    <2> QED BY <1>1, <1>2, <2>2, <2>3, ChildrenEdit
  <1>5. CASE ChildEnds(g)
    <2>1. gateways' = [gateways EXCEPT ![g].up = FALSE, ![g].inbox = <<>>,
                                       ![g].outbox = gateways[g].outbox]
      BY <1>2, <1>5 DEF ChildEnds, GatewayType
    <2> QED BY <1>3, <2>1
  <1>6. CASE BadLine(g)
    <2>1. PICK line : gateways' = [gateways EXCEPT ![g].outbox = line]
      BY <1>6 DEF BadLine
    <2>2. gateways' = [gateways EXCEPT ![g].up = gateways[g].up, ![g].inbox = gateways[g].inbox,
                                       ![g].outbox = line]
      BY <1>2, <2>1 DEF GatewayType
    <2> QED BY <1>3, <2>2
  <1> QED BY <1>4, <1>5, <1>6

LEMMA ChildrenStep ==
    ASSUME ClientInd, ClientInd', ChildrenOK, [SdkNext]_sdkVars
    PROVE  ChildrenOK'
  <1>1. CASE UNCHANGED sdkVars
    BY <1>1, ChildrenSame DEF sdkVars
  <1>2. CASE Close \/ CloseReturns \/ TsClose \/ OnLine \/ OnClose
    BY <1>2, ChildrenClose, ChildrenCloseReturns, ChildrenTsClose, ChildrenHears
  <1>3. ASSUME NEW g \in DOMAIN gateways,
               \/ Serve(g) \/ ChildEnds(g) \/ BadLine(g) \/ Read(g) \/ ReadEof(g)
        PROVE  ChildrenOK'
    BY <1>3, ChildrenServe, ChildrenRead
  <1>4. ASSUME NEW c \in SdkCallers, Ensure(c) \/ Register(c) \/ Write(c) \/ TimesOut(c)
        PROVE  ChildrenOK'
    BY <1>4, ChildrenEnsure, ChildrenRegister, ChildrenWrite, ChildrenTimesOut
  <1>5. ASSUME NEW c \in SdkCallers, Cancelled(c) PROVE ChildrenOK'
    BY <1>5, ChildrenSame DEF Cancelled
  <1>6. ASSUME NEW c \in SdkCallers, TsRequest(c) \/ TsTimesOut(c) PROVE ChildrenOK'
    BY <1>6, ChildrenTsRequest, ChildrenTsTimesOut
  <1>7. ASSUME NEW c \in SdkCallers, CallNext(c) PROVE ChildrenOK'
    <2>1. UNCHANGED <<program, clientVars>>
      BY <1>7 DEF CallNext, Decided, ApproverSays, CanUseTool, AgentOverrides, Resolved, GuardRuns,
         AgentRuns, PostHook, RejectionSent, Recorded
    <2> QED BY <2>1, ChildrenSame
  <1>8. CASE SdkTick
    BY <1>8, ChildrenSame DEF SdkTick
  <1>9. CASE SdkStart
    <2>1. gateways' = gateways /\ current' = current /\ closing' = closing /\ program = NoProgram
      BY <1>9 DEF SdkStart, clientVars
    <2>2. Serving(gateways) = {} /\ current = 0 /\ closing # "waiting"
      <3>1. gateways = <<>>
        BY <2>1 DEF ClientInd, Idle
      <3>2. current \in 0..Len(<<>>) /\ Len(<<>>) = 0
        BY <3>1 DEF ClientInd
      <3> QED BY <2>1, <3>1, <3>2, ServingFacts DEF ClientInd
    <2> QED BY <2>1, <2>2 DEF ChildrenOK
  <1> QED BY <1>1, <1>2, <1>3, <1>4, <1>5, <1>6, <1>7, <1>8, <1>9 DEF SdkNext, CallNext
-----------------------------------------------------------------------------
(***************************************************************************)
(* The child a caller has, and the restarts                                *)
(***************************************************************************)
\* Every caller's child is one of the first n, if it has one.
Assigned(callers, n) ==
    callers \in [SdkCallers -> CallerType] /\ \A c \in SdkCallers : callers[c].gw \in 0..n

\* Caller c goes on, with a child of these or none.
LEMMA AssignedOne ==
    ASSUME NEW callers, NEW n \in Nat, Assigned(callers, n),
           NEW c \in SdkCallers, NEW q \in CallerType, q.gw \in 0..n
    PROVE  Assigned([callers EXCEPT ![c] = q], n)
  BY DEF Assigned

LEMMA AssignedMore ==
    ASSUME NEW callers, NEW n \in Nat, NEW m \in Nat, n <= m, Assigned(callers, n)
    PROVE  Assigned(callers, m)
  <1> SUFFICES ASSUME NEW c \in SdkCallers PROVE callers[c].gw \in 0..m
    BY DEF Assigned
  <1>1. callers[c].gw \in 0..n
    BY DEF Assigned
  <1> QED BY <1>1

LEMMA AssignedFailed ==
    ASSUME NEW callers, NEW n, Assigned(callers, n), NEW g
    PROVE  Assigned(FailedIn(g, callers), n)
  <1>1. callers \in [SdkCallers -> CallerType] /\ FailedIn(g, callers) \in [SdkCallers -> CallerType]
    BY FailedInFacts DEF Assigned
  <1> SUFFICES ASSUME NEW c \in SdkCallers PROVE FailedIn(g, callers)[c].gw \in 0..n
    BY <1>1 DEF Assigned
  <1>2. callers[c].gw \in 0..n /\ callers[c] \in CallerType
    BY DEF Assigned
  <1>3. Errs(callers[c]).gw = callers[c].gw
    BY <1>2 DEF Errs, CallerType
  <1> QED BY <1>1, <1>2, <1>3, FailedInFacts

\* A caller's step, answer and child are set in these ways.
SetsCaller(callers, cs, c, f, p, g) ==
    \/ cs = [callers EXCEPT ![c].fut = f]
    \/ cs = [callers EXCEPT ![c].pc = p]
    \/ cs = [callers EXCEPT ![c].fut = f, ![c].pc = p]
    \/ cs = [callers EXCEPT ![c].gw = g, ![c].pc = p]
    \/ cs = [callers EXCEPT ![c].gw = g, ![c].fut = f, ![c].pc = p]
    \/ cs = [callers EXCEPT ![c].fut = f, ![c].gw = g, ![c].pc = p]

LEMMA AssignedForms ==
    ASSUME NEW callers, NEW n \in Nat, Assigned(callers, n), NEW c \in SdkCallers,
           NEW f \in Futures, NEW p \in CallSteps, NEW g \in 0..n,
           NEW cs, SetsCaller(callers, cs, c, f, p, g)
    PROVE  Assigned(cs, n)
  <1> DEFINE q == callers[c]
  <1>1. q \in CallerType /\ q.gw \in 0..n /\ g \in Nat
    BY DEF Assigned
  <1>2. SetOnly(callers, cs, c)
    BY DEF Assigned, SetOnly, SetsCaller
  <1>3. \/ cs[c] = [q EXCEPT !.fut = f]
        \/ cs[c] = [q EXCEPT !.pc = p]
        \/ cs[c] = [q EXCEPT !.fut = f, !.pc = p]
        \/ cs[c] = [q EXCEPT !.gw = g, !.pc = p]
        \/ cs[c] = [q EXCEPT !.gw = g, !.fut = f, !.pc = p]
        \/ cs[c] = [q EXCEPT !.fut = f, !.gw = g, !.pc = p]
    BY DEF Assigned, SetsCaller
  <1> HIDE DEF q
  <1>4. PICK r : r = cs[c]
    OBVIOUS
  <1>5. r \in CallerType /\ r.gw \in 0..n
    <2>1. PICK b : b = q
      OBVIOUS
    <2>2. b \in CallerType /\ b.gw \in 0..n
      BY <1>1, <2>1
    <2>3. \/ r = [b EXCEPT !.fut = f]
          \/ r = [b EXCEPT !.pc = p]
          \/ r = [b EXCEPT !.fut = f, !.pc = p]
          \/ r = [b EXCEPT !.gw = g, !.pc = p]
          \/ r = [b EXCEPT !.gw = g, !.fut = f, !.pc = p]
          \/ r = [b EXCEPT !.fut = f, !.gw = g, !.pc = p]
      BY <1>3, <1>4, <2>1
    <2>4. CASE r = [b EXCEPT !.fut = f]
      BY <1>1, <2>2, <2>4 DEF CallerType, Futures, CallSteps
    <2>5. CASE r = [b EXCEPT !.pc = p]
      BY <1>1, <2>2, <2>5 DEF CallerType, Futures, CallSteps
    <2>6. CASE r = [b EXCEPT !.fut = f, !.pc = p]
      BY <1>1, <2>2, <2>6 DEF CallerType, Futures, CallSteps
    <2>7. CASE r = [b EXCEPT !.gw = g, !.pc = p]
      BY <1>1, <2>2, <2>7 DEF CallerType, Futures, CallSteps
    <2>8. CASE r = [b EXCEPT !.gw = g, !.fut = f, !.pc = p]
      BY <1>1, <2>2, <2>8 DEF CallerType, Futures, CallSteps
    <2>9. CASE r = [b EXCEPT !.fut = f, !.gw = g, !.pc = p]
      BY <1>1, <2>2, <2>9 DEF CallerType, Futures, CallSteps
    <2> QED BY <2>3, <2>4, <2>5, <2>6, <2>7, <2>8, <2>9
  <1> QED BY <1>2, <1>4, <1>5 DEF Assigned, SetOnly
-----------------------------------------------------------------------------
AssignedOK == Assigned(sdk, Len(gateways))

LEMMA AssignedNow ==
    ASSUME ClientInd, ClientInd', AssignedOK, DOMAIN gateways \subseteq DOMAIN gateways'
    PROVE  /\ Len(gateways') \in Nat /\ DOMAIN gateways' = 1..Len(gateways')
           /\ Assigned(sdk, Len(gateways'))
  <1>1. gateways \in Seq(GatewayType) /\ gateways' \in Seq(GatewayType)
    BY DEF ClientInd, TablesOK
  <1>2. /\ DOMAIN gateways = 1..Len(gateways) /\ Len(gateways) \in Nat
        /\ DOMAIN gateways' = 1..Len(gateways') /\ Len(gateways') \in Nat
    BY <1>1, SeqDomain
  <1>3. Len(gateways) <= Len(gateways')
    BY <1>2
  <1> QED BY <1>1, <1>2, <1>3, AssignedMore DEF AssignedOK

LEMMA SomeFutures ==
    /\ Silence \in Futures /\ Failure \in Futures /\ "done" \in CallSteps
    /\ "register" \in CallSteps /\ "write" \in CallSteps /\ "wait" \in CallSteps
  BY DEF Futures, CallSteps, Requesting

LEMMA AssignedClient ==
    ASSUME ClientInd, ClientInd', AssignedOK, ClientMoves, ClientNext
    PROVE  AssignedOK'
  <1> DEFINE n == Len(gateways')
  <1>1. n \in Nat /\ DOMAIN gateways' = 1..n /\ Assigned(sdk, n)
    BY AssignedNow DEF ClientMoves, PipesMove
  <1>2. Assigned(sdk', n) => AssignedOK'
    BY DEF AssignedOK, Assigned
  <1> HIDE DEF n
  <1>3. \A g : Assigned(FailedIn(g, sdk), n)
    BY <1>1, AssignedFailed
  <1>4. ASSUME NEW callers, Assigned(callers, n), NEW c \in SdkCallers, NEW f \in Futures,
               NEW p \in CallSteps, NEW g \in 0..n, NEW cs, SetsCaller(callers, cs, c, f, p, g)
        PROVE  Assigned(cs, n)
    BY <1>1, <1>4, AssignedForms
  <1>5. 0 \in 0..n
    BY <1>1
  <1>6. ASSUME NEW c \in SdkCallers, Raise(c) PROVE Assigned(sdk', n)
    <2>1. SetsCaller(sdk, sdk', c, Failure, "wait", 0)
      BY <1>6 DEF Raise, SetsCaller
    <2> QED BY <1>1, <1>4, <1>5, <2>1, SomeFutures
  <1>7. ASSUME NEW c \in SdkCallers, Ensure(c) PROVE Assigned(sdk', n)
    <2>1. Assigned(CallersThen, n)
      BY <1>1, <1>3 DEF CallersThen
    <2>2. CASE sdk' = [sdk EXCEPT ![c].gw = current, ![c].pc = "register"] /\ current' = current
      <3>1. current \in 0..n
        BY <2>2 DEF ClientInd, n
      <3>2. SetsCaller(sdk, sdk', c, Failure, "register", current)
        BY <2>2 DEF SetsCaller
      <3> QED BY <1>1, <1>4, <3>1, <3>2, SomeFutures
    <2>3. CASE sdk' = [CallersThen EXCEPT ![c].fut = Failure, ![c].pc = "wait"]
      <3>1. SetsCaller(CallersThen, sdk', c, Failure, "wait", 0)
        BY <2>3 DEF SetsCaller
      <3> QED BY <1>4, <1>5, <2>1, <3>1, SomeFutures
    <2>4. CASE /\ gateways' = Append(GatewaysThen, NewGateway)
               /\ sdk' = [CallersThen EXCEPT ![c].gw = Len(GatewaysThen) + 1, ![c].pc = "register"]
      <3>1. GatewaysThen \in Seq(GatewayType)
        <4>1. sdk[c].pc = "ensure"
          BY <1>7 DEF Ensure
        <4> QED BY <4>1, ThenFacts DEF TablesOK
      <3>2. Len(GatewaysThen) + 1 \in 0..n
        BY <2>4, <3>1 DEF n
      <3>3. SetsCaller(CallersThen, sdk', c, Failure, "register", Len(GatewaysThen) + 1)
        BY <2>4 DEF SetsCaller
      <3> QED BY <1>4, <2>1, <3>2, <3>3, SomeFutures
    <2> QED BY <1>6, <1>7, <2>2, <2>3, <2>4 DEF Ensure, CallersThen, GatewaysThen, clientVars
  <1>8. ASSUME NEW c \in SdkCallers, Register(c) PROVE Assigned(sdk', n)
    <2>1. CASE sdk' = [sdk EXCEPT ![c].fut = Silence, ![c].pc = "write"]
      <3>1. SetsCaller(sdk, sdk', c, Silence, "write", 0)
        BY <2>1 DEF SetsCaller
      <3> QED BY <1>1, <1>4, <1>5, <3>1, SomeFutures
    <2> QED BY <1>6, <1>8, <2>1 DEF Register
  <1>9. /\ \A g, callers : Assigned(callers, n) /\ Fail(g, callers) => Assigned(sdk', n)
        /\ \A callers : Assigned(callers, n) /\ Poison(callers) => Assigned(sdk', n)
    BY AssignedFailed DEF Fail, Poison
  <1>10. ASSUME NEW c \in SdkCallers
         PROVE  /\ Assigned([sdk EXCEPT ![c].fut = Failure], n)
                /\ Assigned([sdk EXCEPT ![c].fut = Failure, ![c].pc = "wait"], n)
    <2>1. /\ SetsCaller(sdk, [sdk EXCEPT ![c].fut = Failure], c, Failure, "wait", 0)
          /\ SetsCaller(sdk, [sdk EXCEPT ![c].fut = Failure, ![c].pc = "wait"], c, Failure, "wait", 0)
      BY DEF SetsCaller
    <2> QED BY <1>1, <1>4, <1>5, <2>1, SomeFutures
  <1>11. ASSUME NEW c \in SdkCallers, Write(c) PROVE Assigned(sdk', n)
    <2>1. CASE sdk' = [sdk EXCEPT ![c].pc = "wait"]
      <3>1. SetsCaller(sdk, sdk', c, Failure, "wait", 0)
        BY <2>1 DEF SetsCaller
      <3> QED BY <1>1, <1>4, <1>5, <3>1, SomeFutures
    <2> QED BY <1>9, <1>10, <1>11, <2>1 DEF Write
  <1>12. ASSUME NEW c \in SdkCallers, Cancelled(c) PROVE Assigned(sdk', n)
    <2>1. SetsCaller(sdk, sdk', c, Failure, "done", 0)
      BY <1>12 DEF Cancelled, SetsCaller
    <2> QED BY <1>1, <1>4, <1>5, <2>1, SomeFutures
  <1>13. ASSUME NEW c \in SdkCallers, TimesOut(c) \/ TsTimesOut(c) PROVE Assigned(sdk', n)
    BY <1>1, <1>9, <1>10, <1>13 DEF TimesOut, TsTimesOut
  <1>14. ASSUME NEW c \in SdkCallers, TsRequest(c) PROVE Assigned(sdk', n)
    <2>1. CASE /\ current' = TsProcess.it
               /\ sdk' = [sdk EXCEPT ![c].gw = TsProcess.it, ![c].fut = Silence, ![c].pc = "wait"]
      <3>1. TsProcess.it \in 0..n
        BY <2>1 DEF ClientInd, n
      <3>2. SetsCaller(sdk, sdk', c, Silence, "wait", TsProcess.it)
        BY <2>1 DEF SetsCaller
      <3> QED BY <1>1, <1>4, <3>1, <3>2, SomeFutures
    <2>2. CASE Poison([sdk EXCEPT ![c].fut = Failure, ![c].pc = "wait"])
      BY <1>9, <1>10, <2>2
    <2> QED BY <1>6, <1>14, <2>1, <2>2 DEF TsRequest
  <1>15. ASSUME NEW g \in DOMAIN gateways, NEW c \in SdkCallers, NEW a \in AnswerType, Delivered(g, c, a)
         PROVE  Assigned(sdk', n)
    <2> DEFINE f == IF sdk[c].fut = Silence THEN a ELSE sdk[c].fut
    <2>1. f \in Futures
      BY BasicFacts DEF Futures
    <2>2. SetsCaller(sdk, sdk', c, f, "wait", 0)
      BY <1>15 DEF Delivered, SetsCaller
    <2> HIDE DEF f
    <2> QED BY <1>1, <1>4, <1>5, <2>1, <2>2, SomeFutures
  <1>16. ASSUME NEW g \in DOMAIN gateways, gateways[g].outbox # <<>>
         PROVE  LET a == Head(gateways[g].outbox) IN
                a.kind # "bad" => a \in AnswerType
    <2>1. gateways[g] \in GatewayType
      BY ServingFacts, ChildFacts
    <2>2. Head(gateways[g].outbox) \in AnswerType \cup {BadAnswer}
      BY <1>16, <2>1 DEF GatewayType
    <2> QED BY <2>2 DEF BadAnswer
  <1>17. ASSUME NEW g \in DOMAIN gateways, Read(g) \/ ReadEof(g) PROVE Assigned(sdk', n)
    <2> DEFINE a == Head(gateways[g].outbox)
    <2>1. CASE gateways[g].outbox # <<>> /\ a.kind # "bad" /\ Delivered(g, a.caller, a)
      <3>1. a \in AnswerType /\ a.caller \in SdkCallers
        BY <1>16, <2>1 DEF AnswerType
      <3> QED BY <1>15, <2>1, <3>1
    <2>2. CASE Fail(g, sdk)
      BY <1>1, <1>9, <2>2
    <2> QED BY <1>17, <2>1, <2>2 DEF Read, ReadEof
  <1>18. CASE OnLine \/ OnClose
    <2> DEFINE a == Head(gateways[current].outbox)
    <2>1. CASE /\ current # 0 /\ gateways[current].outbox # <<>> /\ a.kind # "bad"
               /\ Delivered(current, a.caller, a)
      <3>1. current \in DOMAIN gateways
        BY <2>1, ServingFacts DEF ClientInd
      <3>2. a \in AnswerType /\ a.caller \in SdkCallers
        BY <1>16, <2>1, <3>1 DEF AnswerType
      <3> QED BY <1>2, <1>15, <2>1, <3>1, <3>2
    <2>2. CASE Poison(sdk)
      BY <1>1, <1>2, <1>9, <2>2
    <2> QED BY <1>18, <2>1, <2>2 DEF OnLine, OnClose
  <1>19. CASE Close \/ CloseReturns \/ TsClose
    <2>1. CASE Poison(sdk)
      BY <1>1, <1>2, <1>9, <2>1
    <2> QED BY <1>1, <1>2, <1>3, <1>19, <2>1 DEF Close, CloseReturns, TsClose
  <1> QED BY <1>2, <1>7, <1>8, <1>11, <1>12, <1>13, <1>14, <1>17, <1>18, <1>19 DEF ClientNext
-----------------------------------------------------------------------------
\* A step of a call leaves its caller the child it had, or none.
LEMMA CallerAims ==
    ASSUME ClientInd, NEW c \in SdkCallers, CallNext(c)
    PROVE  sdk'[c].gw \in {0, sdk[c].gw}
  <1>1. sdk \in [SdkCallers -> CallerType] /\ sdk[c] \in CallerType
    BY BasicFacts
  <1>2. ASSUME NEW x PROVE Ends(c, x).gw = 0 /\ Issue(c, x).gw = 0
    BY <1>1 DEF Ends, Issue, CallerType
  <1>3. ASSUME NEW x
        PROVE  /\ Says(c, x).gw = 0 /\ GuardRan(c, x).gw = 0 /\ Rejects(c).gw = 0
               /\ Ran(c, x).gw = sdk[c].gw /\ Overridden(c).gw = sdk[c].gw
    BY <1>1 DEF Issue, Says, GuardRan, Rejects, Ran, Overridden, CallerType
  <1>4. ASSUME NEW x, NEW p
        PROVE  Decides(c, x, p).gw = sdk[c].gw /\ Told(c, x, p).gw = sdk[c].gw
    BY <1>1 DEF Decides, Told, CallerType
  <1>5. \A q : Becomes(c, q) => sdk'[c] = q
    BY <1>1 DEF Becomes
  <1>6. ASSUME NEW map, NEW q, q.gw = sdk[c].gw, BecomesIn(map, c, q)
        PROVE  sdk'[c].gw = sdk[c].gw
    <2>1. sdk'[c] = q \/ sdk'[c] = [q EXCEPT !.evicted = TRUE]
      BY <1>1, <1>6 DEF BecomesIn, Lost
    <2>2. sdk' \in [SdkCallers -> CallerType]
      BY CallGoes DEF GoesTo
    <2>3. [q EXCEPT !.evicted = TRUE].gw = q.gw
      OBVIOUS
    <2> QED BY <1>6, <2>1, <2>3
  <1>7. CASE Decided(c)
    BY <1>1, <1>2, <1>4, <1>5, <1>6, <1>7, DecidedForm
  <1>8. CASE CanUseTool(c)
    BY <1>1, <1>3, <1>4, <1>5, <1>8, CanUseToolForm
  <1>9. CASE AgentOverrides(c)
    BY <1>1, <1>3, <1>5, <1>9, OverridesForm
  <1>10. CASE Resolved(c)
    BY <1>1, <1>2, <1>4, <1>5, <1>6, <1>10, ResolvedForm
  <1>11. CASE AgentRuns(c)
    BY <1>1, <1>2, <1>3, <1>5, <1>11, AgentRunsForm
  <1>12. CASE \/ ApproverSays(c) \/ GuardRuns(c) \/ PostHook(c) \/ RejectionSent(c) \/ Recorded(c)
    BY <1>1, <1>2, <1>3, <1>5, <1>12, RestForms
  <1> QED BY <1>7, <1>8, <1>9, <1>10, <1>11, <1>12 DEF CallNext

LEMMA AssignedCall ==
    ASSUME ClientInd, AssignedOK, NEW c \in SdkCallers, CallNext(c)
    PROVE  AssignedOK'
  <1>1. PICK q \in CallerType : GoesTo(sdk, sdk', c, q)
    BY CallGoes
  <1>2. sdk' \in [SdkCallers -> CallerType] /\ gateways' = gateways /\ Len(gateways) \in Nat
    BY <1>1, CallGoes, BasicFacts DEF GoesTo, Apart
  <1>3. ASSUME NEW d \in SdkCallers PROVE sdk'[d].gw \in 0..Len(gateways)
    <2>1. sdk[d].gw \in 0..Len(gateways) /\ sdk[d] \in CallerType
      BY BasicFacts DEF AssignedOK, Assigned
    <2>2. CASE d = c
      BY <1>2, <2>1, <2>2, CallerAims
    <2>3. CASE d # c
      <3>1. Evicted(sdk[d]).gw = sdk[d].gw
        BY <2>1, EvictedFacts
      <3>2. sdk'[d] = sdk[d] \/ sdk'[d] = Evicted(sdk[d])
        BY <1>1, <2>3 DEF GoesTo
      <3> QED BY <2>1, <3>1, <3>2
    <2> QED BY <2>2, <2>3
  <1> QED BY <1>2, <1>3 DEF AssignedOK, Assigned

LEMMA AssignedStep ==
    ASSUME ClientInd, ClientInd', AssignedOK, [SdkNext]_sdkVars
    PROVE  AssignedOK'
  <1>1. CASE UNCHANGED <<sdk, gateways>>
    BY <1>1 DEF AssignedOK, Assigned
  <1>2. CASE ClientNext
    BY <1>2, ClientNextStep, AssignedClient
  <1>3. CASE \E c \in SdkCallers : CallNext(c)
    BY <1>3, AssignedCall
  <1>4. ASSUME NEW g \in DOMAIN gateways, Serve(g) \/ ChildEnds(g) \/ BadLine(g) PROVE AssignedOK'
    <2>1. sdk' = sdk
      BY <1>4 DEF Serve, ChildEnds, BadLine
    <2>2. DOMAIN gateways' = DOMAIN gateways
      <3>1. gateways \in Seq(GatewayType)
        BY ServingFacts
      <3> QED BY <1>4, <3>1 DEF Serve, ChildEnds, BadLine
    <2>3. Assigned(sdk, Len(gateways'))
      BY <2>2, AssignedNow
    <2> QED BY <2>1, <2>3 DEF AssignedOK, Assigned
  <1>5. CASE UNCHANGED sdkVars
    BY <1>1, <1>5 DEF sdkVars, clientVars
  <1>6. CASE SdkStart \/ SdkTick
    BY <1>1, <1>6 DEF SdkStart, SdkTick, clientVars
  <1> QED BY <1>2, <1>3, <1>4, <1>5, <1>6, SdkSteps
-----------------------------------------------------------------------------
\* The spawns the Python client remembers are one more than its restarts.
SpawnsOK == spawns \in Seq(Nat) /\ Len(spawns) <= MaxRestarts + 1 /\ sdkTime \in Nat

LEMMA IntervalFacts ==
    ASSUME NEW k \in Nat
    PROVE  IsFiniteSet(1..k) /\ Cardinality(1..k) = k
  BY FS_Interval

LEMMA RecentFacts ==
    ASSUME SpawnsOK
    PROVE  Recent \in Seq(Nat) /\ Len(Recent) <= Len(spawns) /\ Len(spawns) \in Nat
  <1> DEFINE n == Len(spawns)
             m == Cardinality(Forgotten)
  <1>1. n \in Nat /\ DOMAIN spawns = 1..n /\ spawns \in Seq(Nat)
    BY DEF SpawnsOK
  <1>2. m \in Nat /\ m <= n
    <2>1. IsFiniteSet(1..n) /\ Cardinality(1..n) = n
      BY <1>1, IntervalFacts
    <2>2. Forgotten \in SUBSET (1..n)
      BY <1>1 DEF Forgotten
    <2> HIDE DEF n
    <2> QED BY <2>1, <2>2, FS_Subset, FS_CardinalityType
  <1> HIDE DEF n, m
  <1>3. /\ SubSeq(spawns, m + 1, n) \in Seq(Nat)
        /\ Len(SubSeq(spawns, m + 1, n)) <= n
    BY <1>1, <1>2 DEF n
  <1> QED BY <1>1, <1>3 DEF Recent, n, m

LEMMA SpawnsStep ==
    ASSUME ClientInd, SpawnsOK, [SdkNext]_sdkVars
    PROVE  SpawnsOK'
  <1>1. CASE UNCHANGED <<spawns, sdkTime>>
    BY <1>1 DEF SpawnsOK
  <1>2. CASE SdkTick
    BY <1>2 DEF SdkTick, clientVars, SpawnsOK
  <1>3. ASSUME NEW c \in SdkCallers, Ensure(c) PROVE SpawnsOK'
    <2>1. sdkTime' = sdkTime /\ Recent \in Seq(Nat) /\ Len(Recent) <= Len(spawns) /\ Len(spawns) \in Nat
          /\ MaxRestarts \in Nat
      BY <1>3, RecentFacts, SdkAssumption DEF Ensure
    <2>2. CASE spawns' = spawns
      BY <1>1, <2>1, <2>2
    <2>3. CASE spawns' = Recent
      BY <2>1, <2>3 DEF SpawnsOK
    <2>4. CASE ~Exhausted /\ spawns' = Append(Recent, sdkTime)
      BY <2>1, <2>4 DEF Exhausted, SpawnsOK
    <2> QED BY <1>3, <2>2, <2>3, <2>4 DEF Ensure, clientVars
  <1>4. CASE UNCHANGED sdkVars
    BY <1>1, <1>4 DEF sdkVars, clientVars
  <1>5. CASE SdkStart \/ Close \/ CloseReturns \/ TsClose \/ OnLine \/ OnClose
    BY <1>1, <1>5 DEF SdkStart, Close, CloseReturns, TsClose, OnLine, OnClose, clientVars
  <1>6. ASSUME NEW g, Serve(g) \/ ChildEnds(g) \/ BadLine(g) \/ Read(g) \/ ReadEof(g) PROVE SpawnsOK'
    BY <1>1, <1>6 DEF Serve, ChildEnds, BadLine, Read, ReadEof
  <1>7. ASSUME NEW c, \/ Register(c) \/ Write(c) \/ TimesOut(c) \/ Cancelled(c)
                      \/ TsRequest(c) \/ TsTimesOut(c)
        PROVE  SpawnsOK'
    BY <1>1, <1>7 DEF Register, Write, TimesOut, Cancelled, TsRequest, TsTimesOut, clientVars
  <1>8. ASSUME NEW c, CallNext(c) PROVE SpawnsOK'
    BY <1>1, <1>8 DEF CallNext, Decided, ApproverSays, CanUseTool, AgentOverrides, Resolved, GuardRuns,
       AgentRuns, PostHook, RejectionSent, Recorded, clientVars
  <1> QED BY <1>2, <1>3, <1>4, <1>5, <1>6, <1>7, <1>8 DEF SdkNext, CallNext
-----------------------------------------------------------------------------
LEMMA InOrderInit == SdkInit => ChildrenOK /\ AssignedOK /\ SpawnsOK
  <1> SUFFICES ASSUME SdkInit PROVE ChildrenOK /\ AssignedOK /\ SpawnsOK
    OBVIOUS
  <1>1. /\ Len(<<>>) = 0 /\ DOMAIN <<>> = {} /\ <<>> \in Seq(Nat)
    OBVIOUS
  <1>2. ChildrenOK
    BY <1>1 DEF SdkInit, ChildrenOK, Serving
  <1>3. AssignedOK
    <2>1. sdk \in [SdkCallers -> CallerType]
      BY ClientInit DEF ClientInd, TablesOK
    <2>2. \A c \in SdkCallers : sdk[c].gw = 0
      BY DEF SdkInit, NewCall
    <2> QED BY <1>1, <2>1, <2>2 DEF SdkInit, AssignedOK, Assigned
  <1>4. SpawnsOK
    BY <1>1, SdkAssumption DEF SdkInit, SpawnsOK
  <1> QED BY <1>2, <1>3, <1>4

\* The SDK clients keep their state in order: a child of a client's choice
\* serves it and no other, none once close has returned, and the Python
\* client starts no more children in a window than it may (_ensure_gateway,
\* _fail, close of client.py; ensureProcess, poison, close of client.ts).
THEOREM ClientStaysInOrder == SdkSpec => []ClientOK
  <1>1. ASSUME ClientInd, ChildrenOK PROVE OneChild
    <2> DEFINE k == IF closing = "closed" THEN 0 ELSE 1
    <2>1. Serving(gateways) = {} \/ (closing # "closed" /\ \E g : Serving(gateways) \subseteq {g})
      BY <1>1 DEF ChildrenOK
    <2>2. Cardinality({}) = 0 /\ \A g : Cardinality({g}) = 1
      BY FS_EmptySet, FS_Singleton
    <2>3. Cardinality(Serving(gateways)) <= k
      <3>1. CASE Serving(gateways) = {}
        BY <2>2, <3>1
      <3>2. ASSUME closing # "closed", NEW g, Serving(gateways) = {g} PROVE Cardinality(Serving(gateways)) <= k
        BY <2>2, <3>2
      <3> QED BY <2>1, <3>1, <3>2
    <2> QED BY <2>3 DEF OneChild, Serving
  <1>2. ASSUME SpawnsOK PROVE RestartsBounded
    <2>1. DOMAIN spawns = 1..Len(spawns) /\ Len(spawns) \in Nat /\ MaxRestarts \in Nat
      BY <1>2, SdkAssumption DEF SpawnsOK
    <2>2. ASSUME NEW i \in DOMAIN spawns, NEW j \in DOMAIN spawns PROVE j - i <= MaxRestarts
      BY <1>2, <2>1 DEF SpawnsOK
    <2> QED BY <2>2 DEF RestartsBounded
  <1>3. ASSUME ClientInd, AssignedOK PROVE SdkTypeOK
    <2>1. \A c \in SdkCallers :
             /\ sdk[c].decision \in SdkVerdicts \cup {"none"}
             /\ sdk[c].shown \in {"none", "refusal", "raised", "raw", "masked", "withheld"}
      BY <1>3 DEF ClientInd, TablesOK, CallerType
    <2>2. \A g \in DOMAIN gateways : gateways[g].dead => gateways[g].pending = <<>>
      <3>1. ASSUME NEW g \in DOMAIN gateways PROVE gateways[g].dead \in BOOLEAN
        BY <1>3, ServingFacts, ChildFacts DEF GatewayType
      <3> QED BY <1>3, <3>1 DEF ClientInd, TablesOK
    <2> QED BY <1>3, <2>1, <2>2 DEF ClientInd, AssignedOK, Assigned, SdkTypeOK
  <1> DEFINE InOrder == ClientInd /\ ChildrenOK /\ AssignedOK /\ SpawnsOK
  <1>4. InOrder => ClientOK
    BY <1>1, <1>2, <1>3 DEF ClientOK
  <1>5. InOrder /\ [SdkNext]_sdkVars => InOrder'
    BY ClientStep, ChildrenStep, AssignedStep, SpawnsStep
  <1>6. SdkInit => InOrder
    BY ClientInit, InOrderInit
  <1> HIDE DEF InOrder
  <1> QED BY <1>4, <1>5, <1>6, PTL DEF SdkSpec
==============================================================================
