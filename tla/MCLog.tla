-------------------------------- MODULE MCLog --------------------------------
(* Instances of Log.                                                       *)
EXTENDS Log, TLC

CONSTANTS p1, p2, p3, b1, b2, b3, b4, b5

(* Processes and blocks are interchangeable.                               *)
Symmetry == Permutations(Procs) \cup Permutations(Blocks)
=============================================================================
