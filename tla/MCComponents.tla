---------------------------- MODULE MCComponents ----------------------------
(* Five components that share no state, each explored on its own from the  *)
(* initial state that names it.                                            *)
EXTENDS Sandbox, WritRun, HookAgents, Integrate, Receipts, TLC

VARIABLE focus  \* the component explored

FocusInit ==
    /\ focus \in {"sandbox", "run", "agents", "integrate", "receipts"}
    /\ SandboxInit /\ WritRunInit /\ HookInit /\ IntegrateInit /\ ReceiptsInit
    /\ IF focus = "receipts" THEN (book = <<>>) <=> (bookTail = "torn")
       ELSE book = <<>> /\ bookTail = "none"

Others(f) ==
    /\ f # "sandbox" => UNCHANGED sandboxVars
    /\ f # "run" => UNCHANGED writRunVars
    /\ f # "agents" => UNCHANGED hookVars
    /\ f # "integrate" => UNCHANGED integrateVars
    /\ f # "receipts" => UNCHANGED receiptVars

\* A call with an id is found by it: no other call beside it.  The input of one
\* call is changed.
Apart ==
    LET started == {c \in HookCalls : turn'[c].pc # "new"}
    IN  /\ {c \in started : HasId(c)} # {} => Cardinality(started) = 1
        /\ Cardinality({c \in started : turn'[c].now # HookCallOf[c]}) <= 1

\* Runs share the ledger and, on Windows alone, labels: two of them there, the
\* first with its temporary directory in the folder that the second is granted.
TogetherOnWindows ==
    runs'["r2"].pc # "idle" =>
       machine'.os = "windows" /\ runs'["r1"].pc # "idle" /\ runs'["r1"].req.tempIn = {"allowed"}

\* A command alone is q1: q2 begins beside it.
Beside ==
    rcmd'["q2"] \notin {rcmd["q2"], NoCmd} =>
       {q \in ReceiptCmds : rcmd[q].pc \notin Finished} # {}

FocusNext ==
    /\ UNCHANGED focus
    /\ \/ focus = "sandbox" /\ SandboxNext /\ Others(focus)
       \/ focus = "run" /\ WritRunNext /\ TogetherOnWindows /\ Others(focus)
       \/ focus = "agents" /\ HookNext /\ Apart /\ Others(focus)
       \/ focus = "integrate" /\ IntegrateNext /\ Others(focus)
       \/ focus = "receipts" /\ ReceiptsNext /\ Beside /\ Others(focus)

FocusSpec ==
    FocusInit
    /\ [][FocusNext]_<<focus, sandboxVars, writRunVars, hookVars, integrateVars, receiptVars>>

---------------------------------------------------------------------------
(* Machines, good and poor *)

Machine(os, abi, seccomp, container) ==
    [os |-> os, abi |-> abi, seccomp |-> seccomp, appContainer |-> container,
     firewall |-> TRUE, lowToken |-> TRUE]

HostSet ==
    {[machine |-> m, kind |-> "local-os"] :
        m \in {Machine("linux", 3, TRUE, FALSE), Machine("linux", 2, TRUE, FALSE),
               Machine("linux", 0, FALSE, FALSE), Machine("macos", 0, FALSE, FALSE),
               Machine("windows", 0, FALSE, TRUE), Machine("windows", 0, FALSE, FALSE)}}
    \cup {[machine |-> Machine("linux", 3, TRUE, FALSE), kind |-> "docker"]}

RunMachineSet ==
    {Machine("linux", 3, TRUE, FALSE), Machine("linux", 2, TRUE, FALSE),
     Machine("macos", 0, FALSE, FALSE), Machine("windows", 0, FALSE, FALSE)}

---------------------------------------------------------------------------
(* Command lines of `writ run' *)

Default ==
    [agent |-> "claude", unconfined |-> FALSE, bestEffort |-> FALSE, net |-> "Open",
     allow |-> "no", backend |-> "local-os", noHooks |-> FALSE, conflict |-> FALSE,
     ledger |-> "file", tempIn |-> {}, onFat |-> {}]

RequestSets ==
    [r1 |-> {[Default EXCEPT !.tempIn = {"allowed"}],
              [Default EXCEPT !.agent = "cursor", !.conflict = TRUE, !.ledger = "pg",
                                !.tempIn = {"workspace"}],
              [Default EXCEPT !.agent = "generic", !.unconfined = TRUE, !.backend = "docker"],
              [Default EXCEPT !.bestEffort = TRUE, !.net = "None", !.noHooks = TRUE,
                                !.onFat = {"ledger"}],
              [Default EXCEPT !.onFat = {"temp"}],
              [Default EXCEPT !.net = "None"], [Default EXCEPT !.net = "None", !.ledger = "pg"],
              [Default EXCEPT !.conflict = TRUE], [Default EXCEPT !.backend = "docker"],
              [Default EXCEPT !.allow = "missing"], [Default EXCEPT !.ledger = "pgPassword"]},
     r2 |-> {[Default EXCEPT !.allow = "there"]}]

---------------------------------------------------------------------------
(* Tool calls of the four agents; those of one agent look alike to writ *)

Call(format, mcp, tool, name, on, key, values) ==
    [format |-> format, mcp |-> mcp, tool |-> tool, name |-> name, server |-> on,
     rest |-> "a", key |-> key, values |-> values]

\* The tool of c2 ends like that of c1, g2 has its paths under `paths', x2 has
\* no command.
CallTable ==
    [x1 |-> Call("codex", FALSE, <<"fs.write">>, <<>>, "none", "many", {"p", "q"}),
     x2 |-> Call("codex", FALSE, <<"fs.read">>, <<>>, "none", "path", {"p"}),
     g1 |-> Call("gemini", FALSE, <<"fs.read">>, <<>>, "none", "path", {"p"}),
     g2 |-> Call("gemini", FALSE, <<"fs.read">>, <<>>, "none", "paths", {"q"}),
     c1 |-> Call("cursor", TRUE, <<"query">>, <<"s1", "query">>, "s1", "path", {"p"}),
     c2 |-> Call("cursor", TRUE, <<"my", "query">>, <<"my", "query">>, "s2", "path", {"p"}),
     c3 |-> Call("cursor", FALSE, <<"bash">>, <<>>, "none", "own", {}),
     w1 |-> Call("windsurf", FALSE, <<"fs.read">>, <<>>, "none", "own", {"p"})]

---------------------------------------------------------------------------
(* Configurations writ finds: none, one with stale and foreign hooks, one  *)
(* of the wrong shape, a blank legacy file                                 *)

Events == {"pre", "post"}
Text(kind, seq) == [kind |-> kind, rest |-> {}, hooks |-> [e \in Events |-> seq]]
Hook(writ, ours) == [writ |-> writ, ours |-> ours, by |-> "earlier"]
Stale == Hook(TRUE, TRUE)
Foreign == Hook(FALSE, FALSE)
Wrapper == Hook(FALSE, TRUE)

Texts(t) ==
    {[current |-> text, legacy |-> Text("absent", <<>>)] :
        text \in {Text("absent", <<>>), Text("wrong", <<>>),
                  Text("doc", IF t \in FlatTargets THEN <<Foreign, Stale, Wrapper, Stale, Foreign>>
                              ELSE << <<>>, <<Foreign, Stale, Wrapper>>, <<Stale>>, <<Foreign>> >>)}}
    \cup {[current |-> Text("absent", <<>>), legacy |-> Text("blank", <<>>)] :
             x \in {y \in {"legacy"} : t = "windsurf"}}

Options(named, mentions, bare, fault) ==
    [named |-> named, mentions |-> mentions, bare |-> bare, password |-> fault = "password",
     policyLoads |-> fault # "policy", print |-> fault = "print"]

WritTable ==
    [p1 |-> Options(TRUE, TRUE, TRUE, "no"), p2 |-> Options(FALSE, TRUE, FALSE, "no"),
     p3 |-> Options(TRUE, FALSE, TRUE, "print")]

---------------------------------------------------------------------------
(* Ledgers to sign: empty, and of two records, to grow by one              *)

Body(call, session) == [call |-> call, session |-> session]
BodySet == {Body("c1", "s1"), Body("c2", "s2")}
NewBodies == {Body("c1", "s1")}
StartSet == {<<>>, <<Body("c1", "s1"), Body("c2", "s2")>>}
CreateSet == {[key |-> "mine", session |-> "s1"], [key |-> "other", session |-> NoScope]}

ComponentSymmetry == Permutations(Backends)
=============================================================================
