------------------------------ MODULE MCGateway ------------------------------
(***************************************************************************)
(* The hook gateway and the policy engines it may decide with, each        *)
(* explored on its own.  The gateway is explored twice: serving its        *)
(* requests in turn, over a longer ledger and with time, and serving two   *)
(* requests at once.                                                       *)
(***************************************************************************)
EXTENDS HookGateway, MCPolicyEngines

VARIABLE side  \* "turns", "at once" or "policy"

NoEngine == engine = <<>> /\ accepted = <<>> /\ panicked = FALSE /\ reloads = 0

SideInit ==
    /\ side \in {"turns", "at once", "policy"}
    /\ Init
    /\ IF side = "policy" THEN PolicyInit ELSE NoEngine

DecisionsIn(l) == {i \in DOMAIN l : l[i].kind = "decision"}

\* At most n calls are decided, or being decided.
Decided(n) ==
    Cardinality(DecisionsIn(ledger')) + Cardinality({p \in Procs : proc'[p].pc = "decide"}) <= n

\* Refs of another ledger are all refused alike: one of them is enough.
OneForeign == \A p \in Procs : proc'[p].ref.hash = Foreign => proc'[p].ref.index <= 0

\* One request at a time; the decisions are of one call, asks are deferred
\* and have a timeout.  A request reads the clock once, so that time may as
\* well pass before it.
InTurn ==
    /\ \/ \E p \in Procs : (\A q \in Procs \ {p} : proc[q].pc = "idle") /\ Step(p)
       \/ Tick /\ \A p \in Procs : proc[p].pc = "idle"
    /\ OneForeign /\ Decided(MaxDecisions)
    /\ \A i, j \in DecisionsIn(ledger') : ledger'[i].call = ledger'[j].call
    /\ \A p \in Procs : proc'[p].pc # "idle" => proc'[p].mode = "defer"
    /\ \A i \in DecisionsIn(ledger') :
          ledger'[i].verdict.kind = "ask" => ledger'[i].verdict.timeout # None

\* One decision, whose ask never expires.
AtOnce ==
    /\ Next /\ now' = 0
    /\ OneForeign /\ Decided(1)
    /\ \A i \in DecisionsIn(ledger') : ledger'[i].verdict.timeout = None

SideNext ==
    /\ UNCHANGED side
    /\ \/ side = "turns" /\ InTurn /\ UNCHANGED policyVars
       \/ side = "at once" /\ AtOnce /\ UNCHANGED policyVars
       \/ side = "policy" /\ PolicyNext /\ UNCHANGED vars

SideSpec == SideInit /\ [][SideNext]_<<side, vars, policyVars>>

Symmetry == Permutations(Procs)

\* The policy engines give every call the same verdict, also after reloads
\* that failed (VerdictsAgree), whenever an engine is loaded.
EnginesAgree == side = "policy" => VerdictsAgree
=============================================================================
