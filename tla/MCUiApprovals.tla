---------------------------- MODULE MCUiApprovals ----------------------------
(***************************************************************************)
(* UiApprovals for TLC.  Consoles are interchangeable.                     *)
(***************************************************************************)
EXTENDS UiApprovals, TLC

Symmetry == Permutations(Consoles)
==============================================================================
