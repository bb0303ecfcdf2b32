------------------------------- MODULE MCPipe -------------------------------
(* Instances of Pipe.                                                      *)
EXTENDS Pipe, TLC

CONSTANTS w1, w2, r1, r2

(* Writers are interchangeable, and so are readers.                        *)
Symmetry == Permutations(Writers) \cup Permutations(Readers)
=============================================================================
