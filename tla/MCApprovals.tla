----------------------------- MODULE MCApprovals -----------------------------
(***************************************************************************)
(* Who waits for an answer: the gateway for the console's, and the callers *)
(* of an SDK client for their gateway's, each explored on its own.         *)
(***************************************************************************)
EXTENDS UiApprovals, SdkClient, TLC

VARIABLE side  \* "console" or "client"

SideInit == side \in {"console", "client"} /\ Init /\ SdkInit

SideNext ==
    /\ UNCHANGED side
    /\ \/ side = "console" /\ Next /\ UNCHANGED sdkVars
       \/ side = "client" /\ SdkNext /\ UNCHANGED vars

SideSpec == SideInit /\ [][SideNext]_<<side, vars, sdkVars>>

Symmetry == Permutations(Consoles)

---------------------------------------------------------------------------
(* Programs with an SDK client, of two callers each: how they are gated    *)
(* and what the policy says of their calls                                 *)

Two(a, b) == [k1 |-> a, k2 |-> b]
Program(lang, front, verdict, faults) ==
    [lang |-> lang, front |-> front, verdict |-> verdict, faults |-> faults]

ProgramSet ==
    {Program("python", Two("guard", "guard"), Two("ask", "deny"), 2),
     Program("python", Two("guard", "hooks"), Two("allow", "redact"), 1),
     Program("typescript", Two("guard", "hooks"), Two("redact", "redact"), 2),
     Program("typescript", Two("hooks", "prompt"), Two("redact", "ask"), 1),
     Program("typescript", Two("prompt", "prompt"), Two("ask", "ask"), 1)}
=============================================================================
