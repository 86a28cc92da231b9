-------------------------------- MODULE MCLog --------------------------------
(***************************************************************************)
(* Model checking of Log: processes and blocks are interchangeable.        *)
(***************************************************************************)
EXTENDS Log, TLC

Symmetry == Permutations(Procs) \cup Permutations(Blocks)
=============================================================================
