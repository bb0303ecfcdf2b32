------------------------------- MODULE MCProc -------------------------------
(* Instances of Proc: two or three slots beside init, two CPUs.            *)
EXTENDS Proc, TLC

CONSTANTS c1, c2

(* The CPUs are interchangeable in the safety runs.                        *)
Symmetry == Permutations(CPUs)

(* A bound on the search for a circle of locks: only init calls wait(),    *)
(* and every process is forked by the one before it, unless that one has   *)
(* come to reparent() in exit().                                           *)
Chains ==
  \A p \in Procs \ {initproc} :
    /\ pc[p] \notin WaitPcs
    /\ \A q \in Procs : pid[q] = pid[p] + 1 =>
         parent[q] = p \/ pc[p] \in LocksSelf \cup {"none"}
=============================================================================
