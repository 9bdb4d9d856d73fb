---------------------------- MODULE MCFileLedger ----------------------------
(***************************************************************************)
(* FileLedger for TLC: the processes are model values, interchangeable.    *)
(***************************************************************************)
EXTENDS FileLedger, TLC

Symmetry == Permutations(Writers)
=============================================================================
