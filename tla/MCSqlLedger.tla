---------------------------- MODULE MCSqlLedger ----------------------------
(* SqlLedger for TLC: its processes are interchangeable. *)
EXTENDS SqlLedger, TLC

Symmetry == Permutations(Writers)
=============================================================================
