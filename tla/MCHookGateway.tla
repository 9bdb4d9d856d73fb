---------------------------- MODULE MCHookGateway ----------------------------
(***************************************************************************)
(* HookGateway for TLC: processes and calls are interchangeable.           *)
(***************************************************************************)
EXTENDS HookGateway, TLC

Symmetry == Permutations(Procs)
==============================================================================
