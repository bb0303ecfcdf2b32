----------------------------- MODULE MCDevices ------------------------------
(***************************************************************************)
(* The disk driver, the console and the interrupt machinery for TLC.  They *)
(* share no state but the interrupts, so a behaviour exercises one of them *)
(* while the others are idle: part says which.                             *)
(***************************************************************************)
EXTENDS Virtio, Console, Cpu, TLC

CONSTANTS c1, c2, c3, c4, b1, b2, b3, b4, v1, v2, t1, t2

VARIABLE part

vars == <<diskVars, consVars, cpuVars, part>>

(* proc[].                                                                 *)
MCTable == <<t1, t2>>

NoCalls(S) == [x \in S |-> <<>>]

Write(b, v) == [b |-> b, write |-> TRUE, data |-> v]
Fetch(b, v) == [b |-> b, write |-> FALSE, data |-> v]

(* Four callers for two chains of descriptors, some for the same block.    *)
DiskJobs ==
  c1 :> <<Write(b1, v2)>> @@ c2 :> <<Fetch(b2, v2), Fetch(b1, v1)>> @@ c3 :> <<Write(b3, v2)>> @@ c4 :> <<Fetch(b4, v2)>>

Ask(n, bad) == [n |-> n, bad |-> bad]

(* The blocks begin as v1.                                                 *)
DiskBegins(js) == DiskInit(js) /\ disk = [b \in Bufs |-> v1]

NoDisk == DiskBegins(NoCalls(Callers))
NoCons == ConsInit(NoCalls(Readers), NoCalls(Writers), <<>>)
NoCpu == CpuInit(NoCalls(Threads))

(* Erased, killed and overlong lines, ^D at the start of a read and after  *)
(* characters.                                                             *)
Keys == {<<1, 2, ERASE, NL, 3, EOF, EOF, 1>>, <<1, 2, 1, 2, 1, KILL, 2, CR, 3>>, <<1, KILL, 3, NL, NUL, DUMP, 2>>}

Sleep(n) == [call |-> "sleep", n |-> n]
InOut == [call |-> "io", n |-> 0]

Init ==
  \/ part = "disk" /\ DiskBegins(DiskJobs) /\ NoCons /\ NoCpu
  \/ /\ part = "console" /\ NoDisk /\ NoCpu
     /\ \/ \E keys \in Keys :
             ConsInit(c1 :> <<Ask(2, FALSE), Ask(4, FALSE)>> @@ c2 :> <<Ask(3, TRUE), Ask(3, FALSE)>>,
                      NoCalls(Writers), keys)
        \/ ConsInit(NoCalls(Readers), c1 :> <<1, 2, 3>> @@ c2 :> <<4, 5>>, <<1, NL>>)
  \/ /\ part = "cpu" /\ NoDisk /\ NoCons
     /\ \E calls \in {t1 :> <<Sleep(TICKS - 1)>> @@ t2 :> <<>>, t1 :> <<Sleep(0)>> @@ t2 :> <<InOut>>} : CpuInit(calls)

Next ==
  \/ part = "disk" /\ DiskNext /\ UNCHANGED <<consVars, cpuVars, part>>
  \/ part = "console" /\ ConsNext /\ UNCHANGED <<diskVars, cpuVars, part>>
  \/ part = "cpu" /\ CpuNext /\ UNCHANGED <<diskVars, consVars, part>>

Spec == Init /\ [][Next]_vars

(* The disk alone, with the fairness of its processes, handler and device. *)
DiskSpec == Spec /\ part = "disk" /\ DiskFair
=============================================================================
