------------------------------ MODULE MCBcache ------------------------------
(* Instances of Bcache.                                                    *)
EXTENDS Bcache, TLC

CONSTANTS p1, p2, p3, b1, b2, b3, b4, v0, v1

(* b1 is a block of the log, b2 an indirect block, b3 a bitmap block,      *)
(* b4 a block of data.                                                     *)
MCNested == {<<b1, b2>>, <<b2, b3>>}

(* Neither the processes nor the contents are ordered.                     *)
Symmetry == Permutations(Procs) \cup Permutations(Vals)
=============================================================================
