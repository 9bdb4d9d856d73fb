----------------------------- MODULE HookAgents -----------------------------
(***************************************************************************)
(* `writ check --format codex|gemini|cursor|windsurf': the hooks of the    *)
(* other agents (crates/writ-cli/src/hook/agents.rs).  A pre hook decides  *)
(* a call and answers in the way its agent takes for blocking; a post hook *)
(* finds the decision again, by the call's id where the payload has one    *)
(* and otherwise by what the call looks like, records the execution and    *)
(* answers what the model gets to see.                                     *)
(*                                                                         *)
(* The sessions of two agents never meet (every scan keeps to one          *)
(* session), so one session of one agent is modelled, with several calls   *)
(* under way.                                                              *)
(***************************************************************************)
EXTENDS Integers, Sequences, SequencesExt, FiniteSets

CONSTANTS
    HookCalls,   \* tool calls
    HookCallOf,  \* call -> its agent and what it is about
    AskModes,    \* the --ask modes considered
    MaxHookCalls, \* bound: calls of a session
    NoAgent

HookFormats == {"codex", "gemini", "cursor", "windsurf"}
Kinds == {"allow", "redact", "ask", "deny"}

(* A call as its agent sends it.  `values' are the paths or urls in it and *)
(* `key' where they are: under `path' or `paths', under a key of the       *)
(* agent's own, or several in a list or a text; `rest' stands for the      *)
(* other arguments.  The tool's name is cut at its hyphens; `name' is what *)
(* Cursor's postToolUse calls the tool, MCP:<tool> or MCP:<server>-<tool>. *)
HookCallType ==
    [format : HookFormats, mcp : BOOLEAN, tool : Seq(STRING), name : Seq(STRING),
     server : STRING, rest : STRING, key : {"path", "paths", "own", "many"},
     values : SUBSET STRING]

ASSUME HookAgentsAssumption ==
    /\ \A c \in HookCalls : HookCallOf[c].format \in HookFormats
    /\ \A c \in HookCalls : HookCallOf[c].key \in {"path", "own"} => Cardinality(HookCallOf[c].values) <= 1
    /\ \A c \in HookCalls :
          HookCallOf[c].format = "cursor" => (HookCallOf[c].mcp <=> HookCallOf[c].server # "none")
    /\ NoAgent \notin [format : HookFormats, mode : AskModes]
    /\ AskModes \subseteq {"deny", "defer", "ui"} /\ MaxHookCalls \in Nat

VARIABLES
    agent,    \* the agent in use and its --ask mode, or NoAgent
    trail,    \* the session's ledger records
    turn,     \* call -> where it stands
    consoleOk \* decisions with an approval file of the console

hookVars == <<agent, trail, turn, consoleOk>>

Unanswered == [json |-> "none", stderr |-> FALSE, code |-> 0]

NewTurn(c) ==
    [pc |-> "new", own |-> 0, answer |-> Unanswered, said |-> "nothing",
     lost |-> FALSE, ran |-> FALSE, now |-> HookCallOf[c], failure |-> FALSE,
     found |-> 0, shown |-> "nothing"]

HookInit ==
    /\ agent = NoAgent /\ trail = <<>> /\ consoleOk = {}
    /\ turn = [c \in HookCalls |-> NewTurn(c)]

Fmt(c) == HookCallOf[c].format
Stage(c, pc) == turn[c].pc = pc
Verdict(i) == trail[i].verdict

---------------------------------------------------------------------------
(* What the hooks print, and what the agents make of it *)

\* Mutant: every agent is told by exit code 2 as well.
Deny2Exit(format) ==
    [json |-> IF format = "windsurf" THEN "none" ELSE "deny",
     stderr |-> TRUE, code |-> 2]

(* deny *)
DenyAnswer(format) ==
    CASE format \in {"codex", "cursor"} -> [json |-> "deny", stderr |-> TRUE, code |-> 0]
      [] format = "gemini" -> [json |-> "deny", stderr |-> TRUE, code |-> 2]
      [] OTHER -> [json |-> "none", stderr |-> TRUE, code |-> 2]

\* Codex takes an "allow" without updatedInput for a failed hook.
AllowAnswer(format) ==
    [json |-> IF format \in {"gemini", "cursor"} THEN "allow" ELSE "none",
     stderr |-> FALSE, code |-> 0]

AskAnswer == [json |-> "ask", stderr |-> FALSE, code |-> 0]

(* The command lines of `writ integrate': a portable command may reach     *)
(* PowerShell 5.1, where a native exit code 2 arrives as 1; Windsurf's     *)
(* propagates the code and Gemini checks it itself.                        *)
ThroughShell(format, a) ==
    IF a.code = 2 /\ format \in {"codex", "cursor"} THEN {a, [a EXCEPT !.code = 1]} ELSE {a}

\* The agents' side of their hook protocols.
Runs2(format, a) ==
    CASE format = "codex" ->
           ~(a.json = "deny" /\ a.code = 0) /\ ~(a.code = 2 /\ a.stderr)
      [] format = "gemini" -> a.json \notin {"deny", "ask"} /\ a.code # 2
      [] format = "cursor" -> a.json = "allow" /\ a.code = 0
      [] OTHER -> a.code # 2

\* A hook that is killed or times out: writ's Cursor entries set failClosed.
RunsUnanswered(format) == format # "cursor"

\* Agents that turn "ask" into a prompt of their own.
Prompts(c) == Fmt(c) = "gemini" \/ (Fmt(c) = "cursor" /\ HookCallOf[c].mcp)

---------------------------------------------------------------------------
(* Calls: the candidate values a policy decides on one by one, and the     *)
(* arguments by which a post hook tells calls apart.  same_call drops the  *)
(* keys writ adds, whoever put them there: path, url, paths, urls.         *)

Kept(q) == {q.rest} \cup IF q.key \in {"path", "paths"} THEN {} ELSE q.values

\* codex_post compares `command': of a shell call what it does, of a patch
\* all of it; other calls have none.
CodexMapped(q) ==
    [decided |-> q.values,
     compared |-> IF q.tool = <<"bash">> \/ q.key = "many" THEN {q.rest} \cup q.values ELSE {}]

GeminiMapped(q) ==
    [decided |-> IF q.mcp THEN {} ELSE q.values, compared |-> Kept(q)]

CursorMapped(q) == [decided |-> q.values, compared |-> {q.rest} \cup q.values]

\* beforeMCPExecution names the server, postToolUse does not.
CursorMcpMapped(q) == [decided |-> {}, compared |-> {q.rest} \cup q.values]

\* Of a file action nothing but the path is taken over.
WindsurfMapped(q) ==
    [decided |-> IF q.mcp THEN {} ELSE q.values,
     compared |-> IF q.mcp \/ q.tool = <<"bash">> THEN Kept(q) ELSE {}]

Mapped(q) ==
    CASE q.format = "codex" -> CodexMapped(q)
      [] q.format = "gemini" -> GeminiMapped(q)
      [] q.format = "cursor" -> IF q.mcp THEN CursorMcpMapped(q) ELSE CursorMapped(q)
      [] OTHER -> WindsurfMapped(q)

\* decide_candidates decides a call without a path once, as it stands.
Candidates(c) ==
    LET decided == Mapped(HookCallOf[c]).decided
    IN  IF decided = {} THEN {"call"} ELSE decided

---------------------------------------------------------------------------
(* Pre hooks *)

Severity(kind) ==
    CASE kind = "allow" -> 0 [] kind = "redact" -> 1 [] kind = "ask" -> 2 [] OTHER -> 3

(* decide_candidates: one verdict per path, the strictest is recorded. *)
Strictest(vs) ==
    CHOOSE k \in {vs[p] : p \in DOMAIN vs} : \A p \in DOMAIN vs : Severity(vs[p]) <= Severity(k)

MayBegin(c) ==
    Stage(c, "new") /\ Cardinality({d \in HookCalls : ~Stage(d, "new")}) < MaxHookCalls

(* The agent starts the pre hook of a call: Decision record. *)
PreDecide(c, mode) ==
    /\ agent # NoAgent => agent.format = Fmt(c) /\ agent.mode = mode
    /\ MayBegin(c)
    /\ agent' = [format |-> Fmt(c), mode |-> mode]
    /\ \E vs \in [Candidates(c) -> Kinds] :
          trail' = Append(trail, [kind |-> "Decision", call |-> c, verdict |-> Strictest(vs),
                                  verdicts |-> vs, approver |->
                                     IF Strictest(vs) = "ask" /\ mode = "deny" THEN "fail-closed" ELSE "none",
                                  of |-> Len(trail) + 1])
    /\ turn' = [turn EXCEPT ![c].pc = "decided", ![c].own = Len(trail) + 1]
    /\ UNCHANGED consoleOk

Answers(c, a) == turn' = [turn EXCEPT ![c].pc = "answered", ![c].answer = a]

(* pre_error: a malformed payload, a policy or ledger error, a panic. *)
PreError(c) ==
    /\ agent # NoAgent /\ Fmt(c) = agent.format
    /\ MayBegin(c) \/ turn[c].pc \in {"decided", "console"}
    /\ Answers(c, DenyAnswer(Fmt(c)))
    /\ UNCHANGED <<agent, trail, consoleOk>>

(* What a pre hook answers to a verdict; Wait is the console's answer. *)
Wait == [json |-> "wait", stderr |-> FALSE, code |-> 0]

ByMode(format) ==
    CASE agent.mode = "defer" -> AskAnswer
      [] agent.mode = "ui" -> Wait
      [] OTHER -> DenyAnswer(format)

CodexPre(v) == IF v \in {"allow", "redact"} THEN AllowAnswer("codex") ELSE DenyAnswer("codex")

GeminiPre(v) ==
    CASE v \in {"allow", "redact"} -> AllowAnswer("gemini")
      [] v = "ask" -> ByMode("gemini")
      [] OTHER -> DenyAnswer("gemini")

\* Only the output of a call with a server can be replaced.
CursorPre(v, server) ==
    IF v = "allow" \/ (v = "redact" /\ server # "none")
    THEN AllowAnswer("cursor") ELSE DenyAnswer("cursor")

CursorMcpPre(v) ==
    CASE v \in {"allow", "redact"} -> AllowAnswer("cursor")
      [] v = "ask" -> ByMode("cursor")
      [] OTHER -> DenyAnswer("cursor")

WindsurfPre(v) == IF v = "allow" THEN AllowAnswer("windsurf") ELSE DenyAnswer("windsurf")

PreAnswer(c) ==
    LET v == Verdict(turn[c].own)
        a == CASE Fmt(c) = "codex" -> CodexPre(v)
               [] Fmt(c) = "gemini" -> GeminiPre(v)
               [] Fmt(c) = "cursor" -> IF HookCallOf[c].mcp THEN CursorMcpPre(v)
                                       ELSE CursorPre(v, HookCallOf[c].server)
               [] OTHER -> WindsurfPre(v)
    IN  /\ Stage(c, "decided")
        /\ IF a = Wait THEN turn' = [turn EXCEPT ![c].pc = "console"] ELSE Answers(c, a)
        /\ UNCHANGED <<agent, trail, consoleOk>>

(* await_decision *)
PreConsole(c) ==
    /\ Stage(c, "console")
    /\ \/ /\ consoleOk' = consoleOk \cup {turn[c].own}
          /\ turn' = [turn EXCEPT ![c].pc = "answered", ![c].answer = AllowAnswer(Fmt(c)),
                                  ![c].said = "console"]
       \/ Answers(c, DenyAnswer(Fmt(c))) /\ UNCHANGED consoleOk
    /\ UNCHANGED <<agent, trail>>

\* Decision files are removed after a day.
ConsoleFileGone(i) ==
    /\ i \in consoleOk /\ consoleOk' = consoleOk \ {i}
    /\ UNCHANGED <<agent, trail, turn>>

---------------------------------------------------------------------------
(* The agent *)

\* Another hook may change the input before the tool runs, to other arguments
\* or to the values of another call; the tool may fail, for which Cursor has
\* an event of its own.
Altered(c) ==
    LET q == HookCallOf[c]
    IN  {q, [q EXCEPT !.rest = "changed"]}
        \cup {[q EXCEPT !.values = HookCallOf[d].values] :
                 d \in {e \in HookCalls : Fmt(e) = Fmt(c) /\ HookCallOf[e].key = q.key}}

RunTool(c, said, lost) ==
    \E input \in Altered(c), failure \in {f \in BOOLEAN : f => Fmt(c) = "cursor"} :
       turn' = [turn EXCEPT ![c] = [@ EXCEPT !.pc = "ran", !.ran = TRUE, !.said = said,
                                      !.lost = lost, !.now = input, !.failure = failure]]

AgentActs(c) ==
    /\ Stage(c, "answered")
    /\ \E a \in ThroughShell(Fmt(c), turn[c].answer) :
          IF a.json = "ask" /\ Prompts(c)
          THEN RunTool(c, "prompt", FALSE) \/ turn' = [turn EXCEPT ![c].pc = "blocked"]
          ELSE IF Runs2(Fmt(c), a) THEN RunTool(c, turn[c].said, FALSE)
               ELSE turn' = [turn EXCEPT ![c].pc = "blocked"]
    /\ UNCHANGED <<agent, trail, consoleOk>>

\* The pre hook is killed or its answer never arrives.
PreLost(c) ==
    /\ turn[c].pc \in {"decided", "console"}
    /\ IF RunsUnanswered(Fmt(c))
       THEN RunTool(c, "nothing", TRUE)
       ELSE turn' = [turn EXCEPT ![c].pc = "blocked"]
    /\ UNCHANGED <<agent, trail, consoleOk>>

---------------------------------------------------------------------------
(* Post hooks *)

DecisionsIn == {i \in DOMAIN trail : trail[i].kind = "Decision"}
HasRun(i) == \E j \in DOMAIN trail : trail[j].kind = "Execution" /\ trail[j].of = i

\* Whether a payload carries the id its call was decided under.
HasId(c) == Fmt(c) = "codex" \/ (Fmt(c) = "cursor" /\ ~HookCallOf[c].mcp)

(* same_call: the decided call of d against the input that ran.            *)
SameCall(d, c) ==
    LET then == HookCallOf[d]
        now == turn[c].now
    IN  /\ then.tool = now.tool /\ then.server = now.server
        /\ Mapped(then).compared = Mapped(now).compared

(* cursor_post: no server is compared, and the event's tool may be the     *)
(* decided one with anything and a hyphen before it.                       *)
SameMcpCall(d, c) ==
    LET then == HookCallOf[d]
        now == turn[c].now
    IN  /\ then.server # "none"
        /\ then.tool = now.name \/ IsStrictSuffix(then.tool, now.name)
        /\ Mapped(then).compared = Mapped(now).compared

LooksLike(d, c) == IF Fmt(c) = "cursor" THEN SameMcpCall(d, c) ELSE SameCall(d, c)

(* Gateway::locate by session and call id, then the `executed' check. *)
LocateById(c) == {i \in DecisionsIn : trail[i].call = c /\ ~HasRun(i)}

(* locate_open: the newest such decision without an execution. *)
LocateOpen(c) ==
    LET open == {i \in DecisionsIn : LooksLike(trail[i].call, c) /\ ~HasRun(i)}
    IN  {i \in open : \A j \in open : j <= i}

(* The post hooks: the decisions they find, what the model sees when they  *)
(* give up, and what it sees once the execution is recorded.               *)
Redacts(c) == turn[c].found # 0 /\ Verdict(turn[c].found) = "redact"

\* Mutant: the output is never replaced.
MutantCodexPost(c) ==
    [finds |-> LocateById(c), fails |-> "withheld", done |-> "plain"]

\* The commands are compared after the record is written; a call without one
\* passes whatever it ran with.
CodexPost(c) ==
    LET differs == Mapped(turn[c].now).compared # Mapped(HookCallOf[c]).compared
    IN  [finds |-> LocateById(c), fails |-> "withheld",
         done |-> IF differs THEN "withheld" ELSE IF Redacts(c) THEN "masked" ELSE "plain"]

GeminiPost(c) ==
    [finds |-> LocateOpen(c), fails |-> "withheld",
     done |-> IF Redacts(c) THEN "masked" ELSE "plain"]

\* Only the result of an MCP call can be replaced, and not its failure.
CursorPost(c) ==
    LET canMask == HookCallOf[c].mcp /\ ~turn[c].failure
        plain == turn[c].found # 0 /\ ~Redacts(c)
    IN  [finds |-> IF HookCallOf[c].mcp THEN LocateOpen(c) ELSE LocateById(c),
         fails |-> IF canMask /\ ~plain THEN "masked" ELSE "plain",
         done |-> IF canMask /\ Redacts(c) THEN "masked" ELSE "plain"]

WindsurfPost(c) == [finds |-> LocateOpen(c), fails |-> "plain", done |-> "plain"]

Post(c) ==
    CASE Fmt(c) = "codex" -> CodexPost(c)
      [] Fmt(c) = "gemini" -> GeminiPost(c)
      [] Fmt(c) = "cursor" -> CursorPost(c)
      [] OTHER -> WindsurfPost(c)

Shows(c, what) == [turn EXCEPT ![c].pc = "over", ![c].shown = what]

PostLocate(c) ==
    /\ Stage(c, "ran")
    /\ \/ \E i \in Post(c).finds : turn' = [turn EXCEPT ![c].pc = "located", ![c].found = i]
       \/ Post(c).finds = {} /\ turn' = Shows(c, Post(c).fails)
    /\ UNCHANGED <<agent, trail, consoleOk>>

(* dispatch_approver: who let the call of decision i run; {}: nobody. *)
DispatchApprover(c, i) ==
    CASE Verdict(i) \in {"allow", "redact"} -> {"none"}
      [] Verdict(i) = "ask" /\ trail[i].approver = "none" /\ agent.mode = "ui" ->
            {a \in {"console"} : i \in consoleOk}
      [] Verdict(i) = "ask" /\ trail[i].approver = "none" /\ agent.mode = "defer" ->
            {a \in {"prompt"} : Fmt(c) \in {"gemini", "cursor"}}
      [] OTHER -> {}

(* complete_located, then the answer; nobody let the call run, or the      *)
(* append fails: the hook gives up.                                        *)
PostRecord(c) ==
    LET i == turn[c].found IN
    /\ Stage(c, "located")
    /\ \/ \E who \in DispatchApprover(c, i) :
             /\ trail' = Append(trail, [kind |-> "Execution", call |-> c, verdict |-> "none",
                                        verdicts |-> <<>>, approver |-> who, of |-> i])
             /\ \/ turn' = Shows(c, Post(c).done)
                \/ Redacts(c) /\ turn' = Shows(c, Post(c).fails) \* a pattern does not compile
       \/ turn' = Shows(c, Post(c).fails) /\ UNCHANGED trail
    /\ UNCHANGED <<agent, consoleOk>>

\* The post hook is killed: the agent shows what the tool returned.
PostLost(c) ==
    /\ turn[c].pc \in {"ran", "located"}
    /\ turn' = [turn EXCEPT ![c].pc = "over", ![c].shown = "unhooked"]
    /\ UNCHANGED <<agent, trail, consoleOk>>

---------------------------------------------------------------------------
HookNext ==
    \/ \E c \in HookCalls :
          \/ \E mode \in AskModes : PreDecide(c, mode)
          \/ PreError(c) \/ PreAnswer(c) \/ PreConsole(c) \/ PreLost(c) \/ AgentActs(c)
          \/ PostLocate(c) \/ PostRecord(c) \/ PostLost(c)
    \/ \E i \in consoleOk : ConsoleFileGone(i)

HookSpec == HookInit /\ [][HookNext]_hookVars

---------------------------------------------------------------------------
(* Type correctness of the session's records and of the calls under way    *)
(* (agents.rs HookOut, hook.rs Decided).                                   *)
HookAgentsTypeOK ==
    /\ agent = NoAgent \/ (agent.format \in HookFormats /\ agent.mode \in AskModes)
    /\ \A i \in DOMAIN trail : trail[i].kind = "Decision" => Verdict(i) \in Kinds
    /\ \A i \in DOMAIN trail : trail[i].of \in 1..i /\ trail[trail[i].of].kind = "Decision"
    /\ consoleOk \subseteq DecisionsIn
    /\ LET known == DecisionsIn \cup {0}
       IN  \A c \in HookCalls : /\ {turn[c].own, turn[c].found} \subseteq known
                                /\ turn[c].answer.code \in {0, 2}

\* The agent lets a hook replace the output of this call.
Maskable(c) ==
    Fmt(c) \in {"codex", "gemini"} \/ (Fmt(c) = "cursor" /\ HookCallOf[c].server # "none")

(* A call runs, where its hook could answer, only if writ recorded a       *)
(* decision that denies none of its paths, asks about none unless the user *)
(* or the console said yes to this call, and redacts none unless the agent *)
(* lets the output be replaced; through every shell and after every error  *)
(* (agents.rs deny, decide_candidates, the five pre hooks).                *)
BlockedNeverRuns ==
    \A c \in HookCalls : turn[c].ran /\ ~turn[c].lost =>
       LET i == turn[c].own IN
       /\ i # 0
       /\ \A p \in Candidates(c) :
             /\ trail[i].verdicts[p] # "deny"
             /\ trail[i].verdicts[p] = "ask" => turn[c].said \in {"prompt", "console"}
             /\ trail[i].verdicts[p] = "redact" => Maskable(c)

(* The output of a redacted call that a post hook has seen reaches the     *)
(* model masked or not at all, unless the post hook found the decision of  *)
(* a lookalike, or the agent ran the tool without an answer, or Cursor     *)
(* reports a failure (agents.rs codex_post, gemini_post, cursor_post).     *)
RedactedMasked ==
    \A c \in HookCalls :
       /\ turn[c].shown = "plain" /\ ~turn[c].lost
       /\ turn[c].own # 0 /\ Verdict(turn[c].own) = "redact"
       => \/ turn[c].found \notin {0, turn[c].own}
          \/ Fmt(c) = "cursor" /\ turn[c].failure

(* A post hook that takes another call's decision for its own took one     *)
(* that looks like it, in as much as the hook compares (Gemini and         *)
(* Windsurf: not the paths; Cursor: not the server, and of the tool the    *)
(* end), and either a newer one, or its own had already been taken, or     *)
(* another hook had made the call look different; with an id in the        *)
(* payload it never happens (agents.rs locate_open, same_call,             *)
(* cursor_post).                                                           *)
OwnDecisionFound ==
    \A c \in HookCalls : turn[c].found \notin {0, turn[c].own} =>
       /\ ~HasId(c)
       /\ LooksLike(trail[turn[c].found].call, c)
       /\ \/ turn[c].found > turn[c].own \/ HasRun(turn[c].own)
          \/ ~LooksLike(c, c)

(* An execution on record names an approver only for an ask that the user  *)
(* or the console approved, unless its post hook took a lookalike's        *)
(* decision or the pre hook was lost (agents.rs dispatch_approver).        *)
ApproverNamed ==
    \A i \in DOMAIN trail : trail[i].kind = "Execution" =>
       LET c == trail[i].call IN
       \/ trail[i].approver = "none" /\ Verdict(trail[i].of) \in {"allow", "redact"}
       \/ trail[i].approver = turn[c].said /\ Verdict(trail[i].of) = "ask"
       \/ turn[c].found # turn[c].own \/ turn[c].lost

(* A post hook records and shows the call it is about: it finds the call's *)
(* own decision where it can be told, masks what is to be masked and names *)
(* who approved (agents.rs codex_post, gemini_post, cursor_post,           *)
(* windsurf_post).                                                         *)
PostHooksRight ==
    HookAgentsTypeOK /\ OwnDecisionFound /\ RedactedMasked /\ ApproverNamed
=============================================================================
