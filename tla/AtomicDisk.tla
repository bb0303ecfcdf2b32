----------------------------- MODULE AtomicDisk -----------------------------
(***************************************************************************)
(* What the log promises the file system: operations that begin and end,   *)
(* whose writes are visible at once and reach the disk together.  What a   *)
(* crash leaves is the contents at an instant with no operation open, so   *)
(* an operation survives a crash whole or not at all.                      *)
(***************************************************************************)
EXTENDS Naturals

CONSTANTS Blocks, Vals

VARIABLES mem,     \* what the running system reads
          dur,     \* what a crash would leave
          open     \* number of operations begun and not ended

Init == /\ dur \in [Blocks -> Vals]
        /\ mem = dur
        /\ open = 0

Begin == open' = open + 1 /\ UNCHANGED <<mem, dur>>

Write == /\ open > 0
         /\ \E b \in Blocks, v \in Vals : mem' = [mem EXCEPT ![b] = v]
         /\ UNCHANGED <<dur, open>>

End == open > 0 /\ open' = open - 1 /\ UNCHANGED <<mem, dur>>

Commit == open = 0 /\ dur' = mem /\ UNCHANGED <<mem, open>>

Crash == mem' = dur /\ open' = 0 /\ UNCHANGED dur

Next == Begin \/ Write \/ End \/ Commit \/ Crash

Spec == Init /\ [][Next]_<<mem, dur, open>>
=============================================================================
