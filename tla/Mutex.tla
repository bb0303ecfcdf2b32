-------------------------------- MODULE Mutex --------------------------------
(***************************************************************************)
(* What a sleep lock promises its users: at most one process holds it,     *)
(* only a process that asked for it gets it, and only its holder gives it  *)
(* back.                                                                   *)
(***************************************************************************)
CONSTANTS Procs,    \* the processes that use the lock
          Free      \* not a process: nobody holds the lock

VARIABLES wants,    \* the processes inside acquiresleep()
          holder    \* the process between acquiresleep() and releasesleep()

Init == wants = {} /\ holder = Free

Request(p) == /\ p \notin wants /\ holder # p
              /\ wants' = wants \cup {p}
              /\ UNCHANGED holder

Grant(p) == /\ p \in wants /\ holder = Free
            /\ wants' = wants \ {p}
            /\ holder' = p

Return(p) == /\ holder = p
             /\ holder' = Free
             /\ UNCHANGED wants

Next == \E p \in Procs : Request(p) \/ Grant(p) \/ Return(p)

Spec == Init /\ [][Next]_<<wants, holder>>
=============================================================================
