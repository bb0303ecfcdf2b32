----------------------------- MODULE LockProofs -----------------------------
(***************************************************************************)
(* For any number of processes, the sleep lock of kernel/sleeplock.c is    *)
(* exclusive, loses no wakeup, and implements the abstract lock of module  *)
(* Mutex.                                                                  *)
(* For any numbers of harts and threads and any width of the clock, the    *)
(* spinlocks, the nesting of push_off() and the sleeps of module Cpu.      *)
(***************************************************************************)
EXTENDS SleepLock, Cpu, Numbers

(***************************************************************************)
(* The sleep lock.                                                         *)
(***************************************************************************)

(* The conjuncts of the inductive invariant of the sleep locks.            *)
LEMMA LockParts == IInv => TypeOK /\ Exclusive /\ LockInv /\ WakeInv
BY Zenon DEF IInv

(* The initial state satisfies the invariant: nobody is inside.            *)
LEMMA InitIInv == Init => IInv
<1> SUFFICES ASSUME Init PROVE IInv
  BY Zenon
<1> USE SleepLockConstants DEF Init, Procs, Holds
<1>1. TypeOK
  <2>1. 1 \in 1 .. NPROC + 1
    OBVIOUS
  <2> QED
    BY <2>1, Zenon DEF TypeOK, States, Labels
<1>2. Exclusive
  BY Zenon DEF Exclusive
<1>3. LockInv
  BY Zenon DEF LockInv, LkHolders
<1>4. WakeInv
  BY Zenon DEF WakeInv
<1> QED
  BY <1>1, <1>2, <1>3, <1>4, Zenon DEF IInv

(* Every step of every process preserves the invariant.                    *)
LEMMA NextIInv == IInv /\ [Next]_vars => IInv'
<1> SUFFICES ASSUME IInv, [Next]_vars PROVE IInv'
  BY Zenon
<1> USE SleepLockConstants DEF Procs, At, Goto
<1>1. ASSUME NEW p \in Procs, Call(p) PROVE IInv'
  <2>1. TypeOK'
    BY <1>1, LockParts, Zenon DEF Call, TypeOK, States, Labels
  <2>2. Exclusive'
    BY <1>1, LockParts DEF Call, TypeOK, Exclusive, LockInv, Holds,
           LkHolders
  <2>3. LockInv'
    BY <1>1, LockParts DEF Call, TypeOK, Exclusive, LockInv, Holds,
           LkHolders, States
  <2>4. WakeInv'
    BY <1>1, LockParts DEF Call, TypeOK, Exclusive, LockInv, WakeInv,
           WakeAhead, Holds, LkHolders, States
  <2> QED
    BY <2>1, <2>2, <2>3, <2>4, Zenon DEF IInv
<1>2. ASSUME NEW p \in Procs, Enter(p) PROVE IInv'
  <2>1. TypeOK'
    BY <1>2, LockParts, Zenon DEF Enter, TypeOK, States, Labels
  <2>2. Exclusive'
    BY <1>2, LockParts DEF Enter, TypeOK, Exclusive, LockInv, Holds,
           LkHolders
  <2>3. LockInv'
    BY <1>2, LockParts DEF Enter, TypeOK, Exclusive, LockInv, Holds,
           LkHolders, States
  <2>4. WakeInv'
    BY <1>2, LockParts DEF Enter, TypeOK, Exclusive, LockInv, WakeInv,
           WakeAhead, Holds, LkHolders, States
  <2> QED
    BY <2>1, <2>2, <2>3, <2>4, Zenon DEF IInv
<1>3. ASSUME NEW p \in Procs, Take(p) PROVE IInv'
  <2>1. TypeOK'
    BY <1>3, LockParts, Zenon DEF Take, TypeOK, States, Labels
  <2>2. Exclusive'
    BY <1>3, LockParts DEF Take, TypeOK, Exclusive, LockInv, Holds,
           LkHolders
  <2>3. LockInv'
    BY <1>3, LockParts DEF Take, TypeOK, Exclusive, LockInv, Holds,
           LkHolders, States
  <2>4. WakeInv'
    BY <1>3, LockParts, Zenon DEF Take, TypeOK, Exclusive, LockInv, WakeInv,
           WakeAhead, Holds, LkHolders, States
  <2> QED
    BY <2>1, <2>2, <2>3, <2>4, Zenon DEF IInv
<1>4. ASSUME NEW p \in Procs, Busy(p) PROVE IInv'
  <2>1. TypeOK'
    BY <1>4, LockParts, Zenon DEF Busy, TypeOK, States, Labels
  <2>2. Exclusive'
    BY <1>4, LockParts DEF Busy, TypeOK, Exclusive, LockInv, Holds,
           LkHolders
  <2>3. LockInv'
    BY <1>4, LockParts DEF Busy, TypeOK, Exclusive, LockInv, Holds,
           LkHolders, States
  <2>4. WakeInv'
    BY <1>4, LockParts, Zenon DEF Busy, TypeOK, Exclusive, LockInv, WakeInv,
           WakeAhead, Holds, LkHolders, States
  <2> QED
    BY <2>1, <2>2, <2>3, <2>4, Zenon DEF IInv
<1>5. ASSUME NEW p \in Procs, SleepLockSelf(p) PROVE IInv'
  <2>1. TypeOK'
    BY <1>5, LockParts, Zenon DEF SleepLockSelf, TypeOK, States, Labels
  <2>2. Exclusive'
    BY <1>5, LockParts DEF SleepLockSelf, TypeOK, Exclusive, LockInv, Holds,
           LkHolders
  <2>3. LockInv'
    BY <1>5, LockParts DEF SleepLockSelf, TypeOK, Exclusive, LockInv, Holds,
           LkHolders, States
  <2>4. WakeInv'
    BY <1>5, LockParts, Zenon DEF SleepLockSelf, TypeOK, Exclusive, LockInv,
           WakeInv, WakeAhead, Holds, LkHolders, States
  <2> QED
    BY <2>1, <2>2, <2>3, <2>4, Zenon DEF IInv
<1>6. ASSUME NEW p \in Procs, SleepUnlock(p) PROVE IInv'
  <2>1. TypeOK'
    BY <1>6, LockParts, Zenon DEF SleepUnlock, TypeOK, States, Labels
  <2>2. Exclusive'
    BY <1>6, LockParts DEF SleepUnlock, TypeOK, Exclusive, LockInv, Holds,
           LkHolders
  <2>3. LockInv'
    BY <1>6, LockParts DEF SleepUnlock, TypeOK, Exclusive, LockInv, Holds,
           LkHolders, States
  <2>4. WakeInv'
    BY <1>6, LockParts, Zenon DEF SleepUnlock, TypeOK, Exclusive, LockInv, WakeInv,
           WakeAhead, Holds, LkHolders, States
  <2> QED
    BY <2>1, <2>2, <2>3, <2>4, Zenon DEF IInv
<1>7. ASSUME NEW p \in Procs, SleepSet(p) PROVE IInv'
  <2>1. TypeOK'
    BY <1>7, LockParts, Zenon DEF SleepSet, TypeOK, States, Labels
  <2>2. Exclusive'
    BY <1>7, LockParts DEF SleepSet, TypeOK, Exclusive, LockInv, Holds,
           LkHolders
  <2>3. LockInv'
    BY <1>7, LockParts DEF SleepSet, TypeOK, Exclusive, LockInv, Holds,
           LkHolders, States
  <2>4. WakeInv'
    BY <1>7, LockParts DEF SleepSet, TypeOK, Exclusive, LockInv, WakeInv,
           WakeAhead, Holds, LkHolders, States
  <2> QED
    BY <2>1, <2>2, <2>3, <2>4, Zenon DEF IInv
<1>8. ASSUME NEW p \in Procs, Dispatch(p) PROVE IInv'
  <2>1. TypeOK'
    BY <1>8, LockParts, Zenon DEF Dispatch, TypeOK, States, Labels
  <2>2. Exclusive'
    BY <1>8, LockParts DEF Dispatch, TypeOK, Exclusive, LockInv, Holds,
           LkHolders
  <2>3. LockInv'
    <3>1. pc[p] = "sched" /\ pc' = [pc EXCEPT ![p] = "enter"]
      BY <1>8, LockParts, Zenon DEF Dispatch, LockInv
    <3>2. state' = [state EXCEPT ![p] = "RUNNING"] /\ UNCHANGED <<locked, pid, lk, plock, idx>>
      BY <1>8, Zenon DEF Dispatch
    <3> QED
      BY <3>1, <3>2, LockParts DEF TypeOK, LockInv, Holds, LkHolders
  <2>4. WakeInv'
    <3>1. /\ pc[p] = "sched" /\ pc' = [pc EXCEPT ![p] = "enter"]
          /\ state' = [state EXCEPT ![p] = "RUNNING"] /\ UNCHANGED <<locked, idx>>
      BY <1>8, LockParts, Zenon DEF Dispatch, LockInv
    <3>2. \A q \in Procs : /\ pc'[q] = "sleep_set" => pc[q] = "sleep_set"
                           /\ state'[q] = "SLEEPING" => state[q] = "SLEEPING"
                           /\ pc[q] \in {"wake_lock", "wake_set"} => pc'[q] = pc[q]
      BY <3>1, LockParts, Zenon DEF TypeOK
    <3>3. \A q \in Procs : WakeAhead(q) => WakeAhead(q)'
      BY <3>1, <3>2, Zenon DEF WakeAhead
    <3> QED
      BY <3>1, <3>2, <3>3, LockParts, Zenon DEF WakeInv
  <2> QED
    BY <2>1, <2>2, <2>3, <2>4, Zenon DEF IInv
<1>9. ASSUME NEW p \in Procs, Kill(p) PROVE IInv'
  <2>1. TypeOK'
    BY <1>9, LockParts, Zenon DEF Kill, TypeOK, States, Labels
  <2>2. Exclusive'
    BY <1>9, LockParts DEF Kill, TypeOK, Exclusive, LockInv, Holds,
           LkHolders
  <2>3. LockInv'
    BY <1>9, LockParts DEF Kill, TypeOK, Exclusive, LockInv, Holds,
           LkHolders, States
  <2>4. WakeInv'
    BY <1>9, LockParts DEF Kill, TypeOK, Exclusive, LockInv, WakeInv,
           WakeAhead, Holds, LkHolders, States
  <2> QED
    BY <2>1, <2>2, <2>3, <2>4, Zenon DEF IInv
<1>10. ASSUME NEW p \in Procs, Leave(p) PROVE IInv'
  <2>1. TypeOK'
    BY <1>10, LockParts, Zenon DEF Leave, TypeOK, States, Labels
  <2>2. Exclusive'
    BY <1>10, LockParts DEF Leave, TypeOK, Exclusive, LockInv, Holds,
           LkHolders
  <2>3. LockInv'
    BY <1>10, LockParts DEF Leave, TypeOK, Exclusive, LockInv, Holds,
           LkHolders, States
  <2>4. WakeInv'
    BY <1>10, LockParts, Zenon DEF Leave, TypeOK, Exclusive, LockInv, WakeInv,
           WakeAhead, Holds, LkHolders, States
  <2> QED
    BY <2>1, <2>2, <2>3, <2>4, Zenon DEF IInv
<1>11. ASSUME NEW p \in Procs, Clear(p) PROVE IInv'
  <2>1. TypeOK'
    BY <1>11, LockParts, Zenon DEF Clear, TypeOK, States, Labels
  <2>2. Exclusive'
    BY <1>11, LockParts DEF Clear, TypeOK, Exclusive, LockInv, Holds,
           LkHolders
  <2>3. LockInv'
    BY <1>11, LockParts DEF Clear, TypeOK, Exclusive, LockInv, Holds,
           LkHolders, States
  <2>4. WakeInv'
    BY <1>11, LockParts DEF Clear, TypeOK, Exclusive, LockInv, WakeInv,
           WakeAhead, Holds, LkHolders, States
  <2> QED
    BY <2>1, <2>2, <2>3, <2>4, Zenon DEF IInv
<1>12. ASSUME NEW p \in Procs, WakeLock(p) PROVE IInv'
  <2>1. TypeOK'
    BY <1>12, LockParts, Zenon DEF WakeLock, TypeOK, States, Labels
  <2>2. Exclusive'
    BY <1>12, LockParts DEF WakeLock, TypeOK, Exclusive, LockInv, Holds,
           LkHolders
  <2>3. LockInv'
    BY <1>12, LockParts DEF WakeLock, TypeOK, Exclusive, LockInv, Holds,
           LkHolders, States
  <2>4. WakeInv'
    BY <1>12, LockParts DEF WakeLock, TypeOK, Exclusive, LockInv, WakeInv,
           WakeAhead, Holds, LkHolders, States
  <2> QED
    BY <2>1, <2>2, <2>3, <2>4, Zenon DEF IInv
<1>13. ASSUME NEW p \in Procs, WakeSet(p) PROVE IInv'
  <2>1. TypeOK'
    BY <1>13, LockParts DEF WakeSet, TypeOK, LockInv, States, Labels
  <2>2. Exclusive'
    BY <1>13, LockParts DEF WakeSet, TypeOK, Exclusive, LockInv, Holds,
           LkHolders
  <2>3. LockInv'
    BY <1>13, LockParts DEF WakeSet, TypeOK, Exclusive, LockInv, Holds,
           LkHolders, States
  <2>4. WakeInv'
    BY <1>13, LockParts DEF WakeSet, TypeOK, Exclusive, LockInv, WakeInv,
           WakeAhead, Holds, LkHolders, States
  <2> QED
    BY <2>1, <2>2, <2>3, <2>4, Zenon DEF IInv
<1>14. ASSUME NEW p \in Procs, Unlock(p) PROVE IInv'
  <2>1. TypeOK'
    BY <1>14, LockParts DEF Unlock, TypeOK, States, Labels
  <2>2. Exclusive'
    BY <1>14, LockParts DEF Unlock, TypeOK, Exclusive, LockInv, Holds,
           LkHolders
  <2>3. LockInv'
    BY <1>14, LockParts DEF Unlock, TypeOK, Exclusive, LockInv, Holds,
           LkHolders, States
  <2>4. WakeInv'
    BY <1>14, LockParts DEF Unlock, TypeOK, Exclusive, LockInv, WakeInv,
           WakeAhead, Holds, LkHolders, States
  <2> QED
    BY <2>1, <2>2, <2>3, <2>4, Zenon DEF IInv
<1>15. CASE UNCHANGED vars
  BY <1>15 DEF vars, IInv, TypeOK, Exclusive, LockInv, WakeInv, WakeAhead, Holds
<1> QED
  BY <1>1, <1>2, <1>3, <1>4, <1>5, <1>6, <1>7, <1>8, <1>9, <1>10, <1>11, <1>12, <1>13, <1>14, <1>15, Zenon DEF Next, Acquires, Releases

-----------------------------------------------------------------------------

(* acquiresleep(), releasesleep(): the types, the exclusion and the wakeup *)
(* invariant together, from the inductive invariant.                       *)
THEOREM Invariance == Spec => []IInv
BY InitIInv, NextIInv, PTL DEF Spec

(* acquiresleep(), releasesleep() and sleep() keep every variable in its   *)
(* type.                                                                   *)
THEOREM TypeCorrect == Spec => []TypeOK
<1>1. IInv => TypeOK
  BY Zenon DEF IInv
<1> QED
  BY <1>1, Invariance, PTL

(* acquiresleep(): any number of processes exclude each other.             *)
THEOREM ExclusionHolds == Spec => []Exclusive
<1>1. IInv => Exclusive
  BY Zenon DEF IInv
<1> QED
  BY <1>1, Invariance, PTL

(* sleep(), wakeup(): no process sleeps on a free lock, unless the loop of *)
(* wakeup() has still to reach it.                                         *)
THEOREM NoWakeupIsLost == Spec => []NoLostWakeup
<1>1. IInv => NoLostWakeup
  BY LockParts, Zenon DEF WakeInv, WakeAhead, NoLostWakeup
<1> QED
  BY <1>1, Invariance, PTL

-----------------------------------------------------------------------------

(* Initially nobody wants the abstract lock and it is free.                *)
LEMMA InitRefines == Init => M!Init
BY Zenon DEF Init, M!Init, wantsBar, holderBar

(* Calling acquiresleep() requests the abstract lock, leaving its loop is  *)
(* the grant, clearing lk->locked the return, and nothing else shows.      *)
LEMMA NextRefines == IInv /\ [Next]_vars => [M!Next]_<<wantsBar, holderBar>>
<1> SUFFICES ASSUME IInv, [Next]_vars PROVE [M!Next]_<<wantsBar, holderBar>>
  BY Zenon
<1> USE SleepLockConstants, LockParts DEF TypeOK, wantsBar, holderBar, At,
         Goto
<1>1. ASSUME NEW p \in Procs, Call(p) PROVE M!Request(p)
  BY <1>1 DEF Call, M!Request, LockInv, Holds
<1>2. ASSUME NEW p \in Procs, Take(p) PROVE M!Grant(p)
  BY <1>2, Zenon DEF Take, M!Grant
<1>3. ASSUME NEW p \in Procs, Clear(p) PROVE M!Return(p)
  BY <1>3, Zenon DEF Clear, M!Return, Exclusive, Holds
<1>4. ASSUME NEW p \in Procs, Kill(p) \/ Leave(p) \/ Enter(p) \/ Busy(p)
                                \/ SleepLockSelf(p) \/ SleepUnlock(p) \/ SleepSet(p)
      PROVE UNCHANGED <<wantsBar, holderBar>>
  BY <1>4 DEF Kill, Leave, Enter, Busy, SleepLockSelf, SleepUnlock, SleepSet
<1>5. ASSUME NEW p \in Procs, Dispatch(p) PROVE UNCHANGED <<wantsBar, holderBar>>
  BY <1>5 DEF Dispatch, LockInv
<1>6. ASSUME NEW p \in Procs, WakeLock(p) \/ WakeSet(p) \/ Unlock(p)
      PROVE UNCHANGED <<wantsBar, holderBar>>
  BY <1>6 DEF WakeLock, WakeSet, Unlock
<1>7. CASE UNCHANGED vars
  BY <1>7, Zenon DEF vars
<1> QED
  BY <1>1, <1>2, <1>3, <1>4, <1>5, <1>6, <1>7, Zenon DEF Next, Acquires, Releases, M!Next

(* acquiresleep(), releasesleep(), sleep() and wakeup() together implement *)
(* the abstract lock.                                                      *)
THEOREM ImplementsMutex == Spec => IsMutex
BY InitRefines, NextRefines, Invariance, PTL DEF Spec, IsMutex, M!Spec

(***************************************************************************)
(* Locks, interrupts and the clock.                                        *)
(***************************************************************************)

(* The conjuncts of the inductive invariant of the harts.                  *)
LEMMA CpuParts ==
  CpuInv =>
  /\ CpuTypeOK /\ CpuNeverPanics
  /\ \A g, h \in Harts : cpu[g].proc = cpu[h].proc /\ cpu[g].proc # NoThread => g = h
  /\ \A h \in Harts : cpu[h].proc # NoThread => ctx[h].trap = "none" /\ ctx[h].pc = "scheduler"
  /\ \A h \in Harts : Nests(h, cpu[h], ctx[Running(h)], spin)
  /\ \A t \in Threads : (Away(t) => SwitchedOut(ctx[t])) /\ Sleeps(ctx[t], ticks)
BY Zenon DEF CpuInv

(* The context that a hart runs is a context, and runs on no other hart.   *)
LEMMA RunningContext ==
  ASSUME CpuInv, NEW h \in Harts
  PROVE  /\ Running(h) \in Contexts
         /\ Running(h) \in Threads <=> cpu[h].proc # NoThread
         /\ Running(h) \in Harts <=> Running(h) = h
         /\ \A g \in Harts : Running(g) = Running(h) => g = h
  BY CpuAssumption, CpuParts DEF CpuTypeOK, CpuRecs, Running, Contexts

(* What a step on one hart does not change of the others.                  *)
Alike(r, s) == /\ s.trap = r.trap /\ s.intena = r.intena
               /\ s.pc = r.pc \/ (r.pc = "asleep" /\ s.pc = "woken")
Apart(h) ==
  /\ \A g \in Harts \ {h} : cpu'[g] = cpu[g] /\ \A l \in Locks : spin'[l] = g <=> spin[l] = g
  /\ \A t \in Threads : Sleeps(ctx'[t], ticks')

(* A context that is not touched keeps its part of the invariant.          *)
LEMMA AlikeNests ==
  ASSUME NEW h, NEW c, NEW r, NEW s, NEW l, NEW m, Nests(h, c, r, l), Alike(r, s),
         \A k \in Locks : m[k] = h <=> l[k] = h
  PROVE  Nests(h, c, s, m)
<1>1. (m["tickslock"] = h <=> l["tickslock"] = h) /\ (m["vdisk_lock"] = h <=> l["vdisk_lock"] = h)
  BY Zenon DEF Locks
<1>2. (InTicks(s) <=> InTicks(r)) /\ (InDisk(s) <=> InDisk(r))
  BY Zenon DEF Alike, InTicks, InDisk
<1>3. s.pc \in {"sleep_locked", "io_locked", "scheduler", "forkret", "forked"} \/ r.pc \in {"scheduler", "forked"}
      => s.pc = r.pc
  BY Zenon DEF Alike
<1> QED
  BY <1>1, <1>2, <1>3, Zenon DEF Nests, Alike

(* ... and so does one that has been switched away from.                   *)
LEMMA AlikeSwitched ==
  ASSUME NEW r, NEW s, SwitchedOut(r), Alike(r, s)
  PROVE  SwitchedOut(s)
  BY Zenon DEF SwitchedOut, Alike, InTicks, InDisk

(* A step in which hart h goes on with its context.                        *)
LEMMA Stays ==
  ASSUME CpuInv, CpuTypeOK', CpuNeverPanics', NEW h \in Harts, Apart(h),
         \A y \in Contexts \ {Running(h)} : Alike(ctx[y], ctx'[y]),
         cpu'[h].proc = cpu[h].proc,
         Nests(h, cpu'[h], ctx'[Running(h)], spin')
  PROVE  CpuInv'
<1>1. \A g \in Harts : Running(g)' = Running(g) /\ cpu'[g].proc = cpu[g].proc
  BY Zenon DEF Running, Apart
<1>2. \A g \in Harts : g # h => Running(g) \in Contexts \ {Running(h)}
  BY RunningContext, Zenon
<1>3. ASSUME NEW g \in Harts, cpu'[g].proc # NoThread
      PROVE  ctx'[g].trap = "none" /\ ctx'[g].pc = "scheduler"
  <2>1. cpu[g].proc # NoThread
    BY <1>1, <1>3, Zenon
  <2>2. ctx[g].trap = "none" /\ ctx[g].pc = "scheduler"
    BY <2>1, CpuParts, Zenon
  <2>3. g \in Contexts \ {Running(h)}
    BY <2>1, RunningContext, CpuAssumption, Zenon DEF Contexts
  <2>4. Alike(ctx[g], ctx'[g])
    BY <2>3, Zenon
  <2> QED
    BY <2>2, <2>4, Zenon DEF Alike
<1>4. ASSUME NEW g \in Harts
      PROVE  Nests(g, cpu'[g], ctx'[Running(g)'], spin')
  <2>1. CASE g = h
    BY <1>1, <2>1, Zenon
  <2>2. CASE g # h
    <3>1. Nests(g, cpu[g], ctx[Running(g)], spin)
      BY CpuParts, Zenon
    <3>2. Alike(ctx[Running(g)], ctx'[Running(g)])
      BY <1>2, <2>2, Zenon
    <3>3. cpu'[g] = cpu[g] /\ \A k \in Locks : spin'[k] = g <=> spin[k] = g
      BY <2>2, Zenon DEF Apart
    <3>4. Nests(g, cpu[g], ctx'[Running(g)], spin')
      BY <3>1, <3>2, <3>3, AlikeNests
    <3>5. Running(g)' = Running(g)
      BY <1>1, <2>2, Zenon
    <3> QED
      BY <3>3, <3>4, <3>5, Zenon
  <2> QED
    BY <2>1, <2>2, Zenon
<1>5. ASSUME NEW t \in Threads, Away(t)'
      PROVE  SwitchedOut(ctx'[t])
  <2>1. Away(t) /\ t \in Contexts
    BY <1>1, <1>5, Zenon DEF Away, Contexts
  <2>2. t # Running(h)
    BY <2>1, CpuAssumption, Zenon DEF Away, Running
  <2> QED
    BY <2>1, <2>2, CpuParts, AlikeSwitched, Zenon
<1>6. \A g, k \in Harts : cpu'[g].proc = cpu'[k].proc /\ cpu'[g].proc # NoThread => g = k
  BY <1>1, CpuParts, Zenon
<1> QED
  BY <1>1, <1>3, <1>4, <1>5, <1>6, Zenon DEF Apart, CpuInv

(* sched(): hart h leaves its thread for its scheduler.                    *)
LEMMA Leaves ==
  ASSUME CpuInv, CpuTypeOK', CpuNeverPanics', NEW h \in Harts, Apart(h),
         \A y \in Contexts \ {Running(h)} : Alike(ctx[y], ctx'[y]),
         cpu[h].proc # NoThread, cpu'[h].proc = NoThread,
         Nests(h, cpu'[h], ctx'[h], spin'), SwitchedOut(ctx'[Running(h)])
  PROVE  CpuInv'
<1>1. /\ \A g \in Harts \ {h} : Running(g)' = Running(g) /\ cpu'[g].proc = cpu[g].proc
      /\ Running(h)' = h
  BY Zenon DEF Running, Apart
<1>2. \A g \in Harts : g # h => Running(g) \in Contexts \ {Running(h)}
  BY RunningContext, Zenon
<1>3. ASSUME NEW g \in Harts, cpu'[g].proc # NoThread
      PROVE  ctx'[g].trap = "none" /\ ctx'[g].pc = "scheduler"
  <2>1. g # h /\ cpu[g].proc # NoThread
    BY <1>1, <1>3, Zenon
  <2>2. ctx[g].trap = "none" /\ ctx[g].pc = "scheduler"
    BY <2>1, CpuParts, Zenon
  <2>3. g \in Contexts \ {Running(h)}
    BY <2>1, RunningContext, CpuAssumption, Zenon DEF Contexts
  <2>4. Alike(ctx[g], ctx'[g])
    BY <2>3, Zenon
  <2> QED
    BY <2>2, <2>4, Zenon DEF Alike
<1>4. ASSUME NEW g \in Harts
      PROVE  Nests(g, cpu'[g], ctx'[Running(g)'], spin')
  <2>1. CASE g = h
    BY <1>1, <2>1, Zenon
  <2>2. CASE g # h
    <3>1. Nests(g, cpu[g], ctx[Running(g)], spin)
      BY CpuParts, Zenon
    <3>2. Alike(ctx[Running(g)], ctx'[Running(g)])
      BY <1>2, <2>2, Zenon
    <3>3. cpu'[g] = cpu[g] /\ \A k \in Locks : spin'[k] = g <=> spin[k] = g
      BY <2>2, Zenon DEF Apart
    <3>4. Nests(g, cpu[g], ctx'[Running(g)], spin')
      BY <3>1, <3>2, <3>3, AlikeNests
    <3>5. Running(g)' = Running(g)
      BY <1>1, <2>2, Zenon
    <3> QED
      BY <3>3, <3>4, <3>5, Zenon
  <2> QED
    BY <2>1, <2>2, Zenon
<1>5. ASSUME NEW t \in Threads, Away(t)'
      PROVE  SwitchedOut(ctx'[t])
  <2>1. CASE t = Running(h)
    BY <2>1, Zenon
  <2>2. CASE t # Running(h)
    <3>1. Away(t) /\ t \in Contexts
      BY <1>1, <1>5, <2>2, Zenon DEF Away, Contexts, Running
    <3> QED
      BY <2>2, <3>1, CpuParts, AlikeSwitched, Zenon
  <2> QED
    BY <2>1, <2>2, Zenon
<1>6. ASSUME NEW g \in Harts, NEW k \in Harts, cpu'[g].proc = cpu'[k].proc, cpu'[g].proc # NoThread
      PROVE  g = k
  <2>1. g # h /\ k # h
    BY <1>6, Zenon
  <2>2. cpu[g].proc = cpu[k].proc /\ cpu[g].proc # NoThread
    BY <1>1, <1>6, <2>1, Zenon
  <2> QED
    BY <2>2, CpuParts, Zenon
<1> QED
  BY <1>1, <1>3, <1>4, <1>5, <1>6, Zenon DEF Apart, CpuInv

(* scheduler(): hart h leaves its scheduler for thread t.                  *)
LEMMA Resumes ==
  ASSUME CpuInv, CpuTypeOK', CpuNeverPanics', NEW h \in Harts, NEW t \in Threads, Apart(h),
         \A y \in Contexts \ {t} : Alike(ctx[y], ctx'[y]),
         cpu[h].proc = NoThread, cpu'[h].proc = t, Away(t),
         ctx[h].trap = "none", Nests(h, cpu'[h], ctx'[t], spin')
  PROVE  CpuInv'
<1>1. /\ \A g \in Harts \ {h} : Running(g)' = Running(g) /\ cpu'[g].proc = cpu[g].proc
      /\ Running(h)' = t /\ Running(h) = h
  BY CpuAssumption, Zenon DEF Running, Apart
<1>2. \A g \in Harts : g # h => Running(g) \in Contexts \ {t}
  BY RunningContext, Zenon DEF Away, Running
<1>3. ASSUME NEW g \in Harts, cpu'[g].proc # NoThread
      PROVE  ctx'[g].trap = "none" /\ ctx'[g].pc = "scheduler"
  <2>1. ctx[g].trap = "none" /\ ctx[g].pc = "scheduler"
    <3>1. CASE g = h
      <4>1. Nests(h, cpu[h], ctx[h], spin)
        BY <1>1, CpuParts, Zenon
      <4> QED
        BY <3>1, <4>1, Zenon DEF Nests
    <3>2. CASE g # h
      BY <1>1, <1>3, <3>2, CpuParts, Zenon
    <3> QED
      BY <3>1, <3>2, Zenon
  <2>2. g \in Contexts \ {t}
    BY CpuAssumption, Zenon DEF Contexts
  <2>3. Alike(ctx[g], ctx'[g])
    BY <2>2, Zenon
  <2> QED
    BY <2>1, <2>3, Zenon DEF Alike
<1>4. ASSUME NEW g \in Harts
      PROVE  Nests(g, cpu'[g], ctx'[Running(g)'], spin')
  <2>1. CASE g = h
    BY <1>1, <2>1, Zenon
  <2>2. CASE g # h
    <3>1. Nests(g, cpu[g], ctx[Running(g)], spin)
      BY CpuParts, Zenon
    <3>2. Alike(ctx[Running(g)], ctx'[Running(g)])
      BY <1>2, <2>2, Zenon
    <3>3. cpu'[g] = cpu[g] /\ \A k \in Locks : spin'[k] = g <=> spin[k] = g
      BY <2>2, Zenon DEF Apart
    <3>4. Nests(g, cpu[g], ctx'[Running(g)], spin')
      BY <3>1, <3>2, <3>3, AlikeNests
    <3>5. Running(g)' = Running(g)
      BY <1>1, <2>2, Zenon
    <3> QED
      BY <3>3, <3>4, <3>5, Zenon
  <2> QED
    BY <2>1, <2>2, Zenon
<1>5. ASSUME NEW u \in Threads, Away(u)'
      PROVE  SwitchedOut(ctx'[u])
  <2>1. Away(u) /\ u \in Contexts /\ u # t
    BY <1>1, <1>5, CpuAssumption, Zenon DEF Away, Contexts
  <2> QED
    BY <2>1, CpuParts, AlikeSwitched, Zenon
<1>6. ASSUME NEW g \in Harts, NEW k \in Harts, cpu'[g].proc = cpu'[k].proc, cpu'[g].proc # NoThread
      PROVE  g = k
  <2>1. CASE g = h \/ k = h
    BY <1>1, <1>6, <2>1, Zenon DEF Away
  <2>2. CASE g # h /\ k # h
    <3>1. cpu[g].proc = cpu[k].proc /\ cpu[g].proc # NoThread
      BY <1>1, <1>6, <2>2, Zenon
    <3> QED
      BY <3>1, CpuParts, Zenon
  <2> QED
    BY <2>1, <2>2, Zenon
<1> QED
  BY <1>1, <1>3, <1>4, <1>5, <1>6, Zenon DEF Apart, CpuInv

-----------------------------------------------------------------------------
(* What changes when one context is updated.                               *)
LEMMA UpdateContext ==
  ASSUME CpuInv, NEW x \in Contexts, NEW r \in CtxRecs, ctx' = [ctx EXCEPT ![x] = r],
         ticks' = ticks, x \in Threads => Sleeps(r, ticks)
  PROVE  /\ ctx' \in [Contexts -> CtxRecs] /\ ctx'[x] = r
         /\ \A y \in Contexts \ {x} : Alike(ctx[y], ctx'[y])
         /\ \A t \in Threads : Sleeps(ctx'[t], ticks')
  BY CpuParts, Zenon DEF CpuTypeOK, Alike, Contexts

(* A step that changes only the context of hart h, outside of traps and    *)
(* without locks.                                                          *)
LEMMA ContextStep ==
  ASSUME CpuInv, NEW h \in Harts, NEW r \in CtxRecs, UNCHANGED <<cpu, spin, ticks, cpuPanic>>,
         ctx' = [ctx EXCEPT ![Running(h)] = r],
         Running(h) \in Threads => Sleeps(r, ticks),
         Nests(h, cpu[h], r, spin)
  PROVE  CpuInv'
<1>1. Running(h) \in Contexts
  BY RunningContext, Zenon
<1>2. /\ ctx' \in [Contexts -> CtxRecs] /\ ctx'[Running(h)] = r
      /\ \A y \in Contexts \ {Running(h)} : Alike(ctx[y], ctx'[y])
      /\ \A t \in Threads : Sleeps(ctx'[t], ticks')
  BY <1>1, UpdateContext, Zenon
<1>3. CpuTypeOK' /\ CpuNeverPanics' /\ Apart(h)
  BY <1>2, CpuParts, Zenon DEF CpuTypeOK, CpuNeverPanics, Apart
<1> QED
  BY <1>2, <1>3, Stays, Zenon

(* push_off() and pop_off() on struct cpu.                                 *)
LEMMA PushOff ==
  ASSUME NEW c \in CpuRecs
  PROVE  /\ push_off(c) \in CpuRecs
         /\ ~push_off(c).sie /\ push_off(c).noff = c.noff + 1 /\ push_off(c).proc = c.proc
         /\ push_off(c).intena <=> IF c.noff = 0 THEN c.sie ELSE c.intena
<1>1. c \in [sie : BOOLEAN, noff : Nat, intena : BOOLEAN, proc : Threads \cup {NoThread}]
  BY Zenon DEF CpuRecs
<1>2. PICK b \in BOOLEAN : b = IF c.noff = 0 THEN c.sie ELSE c.intena
  BY <1>1, Zenon
<1>3. PICK d : d = [c EXCEPT !.intena = b, !.sie = FALSE]
  BY Zenon
<1>4. d \in CpuRecs /\ ~d.sie /\ d.noff = c.noff /\ (d.intena <=> b) /\ d.proc = c.proc
  BY <1>1, <1>3, Zenon DEF CpuRecs
<1>5. push_off(c) = [d EXCEPT !.noff = c.noff + 1]
  BY <1>1, <1>2, <1>3, Zenon DEF push_off
<1> QED
  BY <1>2, <1>4, <1>5 DEF CpuRecs

(* pop_off() restores the enable bit at the last level only.               *)
LEMMA PopOff ==
  ASSUME NEW c \in CpuRecs, c.noff > 0
  PROVE  /\ pop_off(c) \in CpuRecs
         /\ pop_off(c).noff = c.noff - 1 /\ pop_off(c).proc = c.proc
         /\ pop_off(c).intena = c.intena
         /\ pop_off(c).sie <=> IF c.noff = 1 THEN c.intena ELSE c.sie
<1>1. c \in [sie : BOOLEAN, noff : Nat, intena : BOOLEAN, proc : Threads \cup {NoThread}]
  BY Zenon DEF CpuRecs
<1>2. PICK b \in BOOLEAN : b = IF c.noff = 1 THEN c.intena ELSE c.sie
  BY <1>1, Zenon
<1>3. PICK d : d = [c EXCEPT !.noff = c.noff - 1]
  BY Zenon
<1>4. d \in CpuRecs /\ d.noff = c.noff - 1 /\ d.intena = c.intena /\ d.proc = c.proc
  BY <1>1, <1>3 DEF CpuRecs
<1>5. pop_off(c) = [d EXCEPT !.sie = b]
  BY <1>1, <1>2, <1>3, Zenon DEF pop_off
<1> QED
  BY <1>2, <1>4, <1>5, Zenon DEF CpuRecs

(* acquire(): outside of a trap it finds interrupts on, in one off; in     *)
(* either the hart has no lock yet.                                        *)
LEMMA AcquireIs ==
  ASSUME CpuInv, NEW h \in Harts, NEW l \in Locks, NEW r \in CtxRecs, acquire(h, l), ticks' = ticks,
         ctx' = [ctx EXCEPT ![Running(h)] = r],
         Running(h) \in Threads => Sleeps(r, ticks),
         ~InTicks(ctx[Running(h)]), ~InDisk(ctx[Running(h)]),
         (Running(h) \in Threads /\ ctx[Running(h)].pc # "forked") \/ ctx[Running(h)].trap # "none",
         r.trap = "none" <=> ctx[Running(h)].trap = "none",
         InTicks(r) <=> l = "tickslock", InDisk(r) <=> l = "vdisk_lock",
         r.pc \in {"sleep_locked", "io_locked"} => r.trap = "none",
         Running(h) \in Harts => r.pc = "scheduler", r.pc # "forkret"
  PROVE  CpuInv'
<1> USE DEF Locks
<1>1. Running(h) \in Contexts /\ (Running(h) \in Threads <=> cpu[h].proc # NoThread)
      /\ (Running(h) \in Harts <=> Running(h) = h)
  BY RunningContext, Zenon
<1>2. /\ ctx' \in [Contexts -> CtxRecs] /\ ctx'[Running(h)] = r
      /\ \A y \in Contexts \ {Running(h)} : Alike(ctx[y], ctx'[y])
      /\ \A t \in Threads : Sleeps(ctx'[t], ticks')
  BY <1>1, UpdateContext, Zenon
<1>3. Nests(h, cpu[h], ctx[Running(h)], spin) /\ cpu[h] \in CpuRecs
  BY CpuParts, Zenon DEF CpuTypeOK
<1>4. PICK c \in CpuRecs : c = push_off(cpu[h])
  BY <1>3, PushOff, Zenon
<1>5. /\ c.noff = 1 /\ ~c.sie /\ c.proc = cpu[h].proc
      /\ c.intena <=> ctx[Running(h)].trap = "none"
  BY <1>1, <1>3, <1>4, PushOff DEF Nests, CpuRecs
<1>6. cpu' = [cpu EXCEPT ![h] = c] /\ spin' = [spin EXCEPT ![l] = h] /\ spin[l] = NoHart /\ ~cpuPanic'
  BY <1>3, <1>4, CpuAssumption, Zenon DEF acquire, Nests
<1>7. CpuTypeOK' /\ CpuNeverPanics' /\ Apart(h)
  BY <1>2, <1>6, CpuAssumption, CpuParts DEF CpuTypeOK, CpuNeverPanics,
         Apart
<1>8. cpu'[h] = c /\ \A k \in Locks : spin'[k] = h <=> k = l
  <2>1. cpu \in [Harts -> CpuRecs] /\ spin \in [Locks -> Harts \cup {NoHart}]
    BY CpuParts, Zenon DEF CpuTypeOK
  <2>2. \A k \in Locks : spin[k] # h
    BY <1>3, Zenon DEF Nests
  <2> QED
    BY <1>6, <2>1, <2>2, Zenon
<1>9. Nests(h, cpu'[h], ctx'[Running(h)], spin')
  BY <1>1, <1>2, <1>5, <1>8, CpuAssumption DEF Nests, Contexts
<1> QED
  BY <1>2, <1>5, <1>7, <1>8, <1>9, Stays, Zenon

(* release() keeps the types, where the hart holds the lock.               *)
LEMMA ReleaseTypes ==
  ASSUME CpuInv, NEW h \in Harts, NEW l \in Locks, release(h, l),
         InTicks(ctx[Running(h)]) <=> l = "tickslock", InDisk(ctx[Running(h)]) <=> l = "vdisk_lock"
  PROVE  cpu' \in [Harts -> CpuRecs] /\ spin' \in [Locks -> Harts \cup {NoHart}]
<1>1. Nests(h, cpu[h], ctx[Running(h)], spin) /\ cpu[h] \in CpuRecs
  BY CpuParts, Zenon DEF CpuTypeOK
<1>2. cpu[h].noff = 1
  BY <1>1, Zenon DEF Nests, Locks
<1>3. pop_off(cpu[h]) \in CpuRecs
  BY <1>1, <1>2, PopOff
<1> QED
  BY <1>3, CpuParts, Zenon DEF release, CpuTypeOK

(* release(): the hart has this lock and no other.                         *)
LEMMA ReleaseIs ==
  ASSUME CpuInv, NEW h \in Harts, NEW l \in Locks, NEW r \in CtxRecs, release(h, l),
         CpuTypeOK', ctx'[Running(h)] = r,
         \A y \in Contexts \ {Running(h)} : Alike(ctx[y], ctx'[y]),
         \A t \in Threads : Sleeps(ctx'[t], ticks'),
         InTicks(ctx[Running(h)]) <=> l = "tickslock", InDisk(ctx[Running(h)]) <=> l = "vdisk_lock",
         r.trap = "none" <=> ctx[Running(h)].trap = "none",
         ~InTicks(r), ~InDisk(r), Running(h) \in Harts => r.pc = "scheduler",
         r.pc # "forkret", ctx[Running(h)].trap = "none" => Running(h) \in Threads
  PROVE  CpuInv'
<1> USE DEF Locks
<1>1. Running(h) \in Contexts /\ (Running(h) \in Threads <=> cpu[h].proc # NoThread)
      /\ (Running(h) \in Harts <=> Running(h) = h)
  BY RunningContext, Zenon
<1>2. Nests(h, cpu[h], ctx[Running(h)], spin) /\ cpu[h] \in CpuRecs
  BY CpuParts, Zenon DEF CpuTypeOK
<1>3. PICK c : c = pop_off(cpu[h])
  BY Zenon
<1>4. /\ c.noff = 0 /\ c.proc = cpu[h].proc
      /\ c.sie <=> ctx[Running(h)].trap = "none"
  BY <1>2, <1>3 DEF Nests, pop_off, CpuRecs
<1>5. cpu' = [cpu EXCEPT ![h] = c] /\ spin' = [spin EXCEPT ![l] = NoHart] /\ spin[l] = h /\ ~cpuPanic'
  BY <1>2, <1>3 DEF release, Nests, PopPanics, CpuRecs
<1>6. CpuNeverPanics' /\ Apart(h)
  BY <1>5, CpuAssumption, CpuParts, Zenon DEF CpuTypeOK, CpuNeverPanics, Apart
<1>7. cpu'[h] = c /\ \A k \in Locks : spin'[k] # h
  <2>1. cpu \in [Harts -> CpuRecs] /\ spin \in [Locks -> Harts \cup {NoHart}]
    BY CpuParts, Zenon DEF CpuTypeOK
  <2>2. \A k \in Locks : spin[k] = h => k = l
    BY <1>2 DEF Nests
  <2> QED
    BY <1>5, <2>1, <2>2, CpuAssumption, Zenon
<1>8. Nests(h, cpu'[h], ctx'[Running(h)], spin')
  BY <1>1, <1>4, <1>7, CpuAssumption DEF Nests, Contexts, InTicks, InDisk
<1> QED
  BY <1>4, <1>6, <1>7, <1>8, Stays, Zenon

(* The same, where the step changes only this context.                     *)
LEMMA ReleasesOwn ==
  ASSUME CpuInv, NEW h \in Harts, NEW l \in Locks, NEW r \in CtxRecs, release(h, l), ticks' = ticks,
         ctx' = [ctx EXCEPT ![Running(h)] = r],
         Running(h) \in Threads => Sleeps(r, ticks),
         InTicks(ctx[Running(h)]) <=> l = "tickslock", InDisk(ctx[Running(h)]) <=> l = "vdisk_lock",
         r.trap = "none" <=> ctx[Running(h)].trap = "none",
         ~InTicks(r), ~InDisk(r), Running(h) \in Harts => r.pc = "scheduler",
         r.pc # "forkret", ctx[Running(h)].trap = "none" => Running(h) \in Threads
  PROVE  CpuInv'
<1>1. Running(h) \in Contexts
  BY RunningContext, Zenon
<1>2. /\ ctx' \in [Contexts -> CtxRecs] /\ ctx'[Running(h)] = r
      /\ \A y \in Contexts \ {Running(h)} : Alike(ctx[y], ctx'[y])
      /\ \A t \in Threads : Sleeps(ctx'[t], ticks')
  BY <1>1, UpdateContext, Zenon
<1>3. CpuTypeOK'
  BY <1>2, ReleaseTypes, CpuParts, Zenon DEF CpuTypeOK
<1> QED
  BY <1>2, <1>3, ReleaseIs, Zenon

(* A remainder is no more than the number itself.                          *)
LEMMA RemainderSmaller ==
  ASSUME NEW a \in Nat, NEW d \in Nat \ {0}
  PROVE  a % d <= a
<1>1. a = d * (a \div d) + (a % d) /\ a \div d \in Int /\ a % d \in 0 .. d - 1
  BY DivMod
<1>2. a \div d >= 0
  BY <1>1
<1> QED
  BY <1>1, <1>2

-----------------------------------------------------------------------------
(* The actions of CpuNext.                                                 *)
LEMMA EcallInv ==
  ASSUME CpuInv, NEW h \in Harts, ecall(h)
  PROVE  CpuInv'
<1>1. PICK t \in {Running(h)} \ Harts :
        /\ ctx[t].pc = "user" /\ ctx[t].trap = "none" /\ ctx[t].calls # <<>>
        /\ ctx' = [ctx EXCEPT ![t].pc = Head(ctx[t].calls).call, ![t].n = Head(ctx[t].calls).n,
                              ![t].calls = Tail(@)]
  BY Zenon DEF ecall
<1>2. t = Running(h) /\ t \in Threads /\ t \in Contexts /\ ctx[t] \in CtxRecs
      /\ ctx \in [Contexts -> CtxRecs]
  BY <1>1, RunningContext, CpuParts, Zenon DEF Contexts, CpuTypeOK
<1>3. PICK r : r = [ctx[t] EXCEPT !.pc = Head(ctx[t].calls).call, !.n = Head(ctx[t].calls).n,
                                  !.calls = Tail(@)]
  BY Zenon
<1>4. Head(ctx[t].calls) \in SysCalls /\ Tail(ctx[t].calls) \in Seq(SysCalls)
  BY <1>1, <1>2 DEF CtxRecs
<1>5. r \in CtxRecs /\ r.pc \in {"sleep", "io"} /\ r.trap = "none"
  BY <1>1, <1>2, <1>3, <1>4, Zenon DEF CtxRecs, SysCalls
<1>6. ctx' = [ctx EXCEPT ![t] = r]
  BY <1>1, <1>2, <1>3, Zenon
<1>7. Nests(h, cpu[h], ctx[t], spin)
  BY <1>2, Zenon DEF CpuInv
<1>8. Nests(h, cpu[h], r, spin) /\ Sleeps(r, ticks)
  BY <1>1, <1>5, <1>7, Zenon DEF Nests, Sleeps, InTicks, InDisk
<1>9. UNCHANGED <<cpu, spin, ticks, cpuPanic>>
  BY Zenon DEF ecall
<1> QED
  BY <1>2, <1>5, <1>6, <1>8, <1>9, ContextStep, Zenon

(* The end of sys_sleep().                                                 *)
LEMMA SleepEndInv ==
  ASSUME CpuInv, NEW h \in Harts, sleep_end(h)
  PROVE  CpuInv'
<1>1. PICK t \in {Running(h)} \ Harts :
        /\ ctx[t].trap = "none" /\ ctx[t].pc = "slept"
        /\ ctx' = [ctx EXCEPT ![t].pc = "return"]
        /\ UNCHANGED <<cpu, spin, ticks, cpuPanic>>
  BY Zenon DEF sleep_end
<1>2. t = Running(h) /\ t \in Threads /\ t \in Contexts /\ ctx[t] \in CtxRecs
      /\ ctx \in [Contexts -> CtxRecs] /\ Nests(h, cpu[h], ctx[t], spin)
  BY <1>1, RunningContext, CpuParts, Zenon DEF Contexts, CpuTypeOK
<1>3. PICK r : r = [ctx[t] EXCEPT !.pc = "return"]
  BY Zenon
<1>4. r \in CtxRecs /\ r.pc = "return" /\ r.trap = "none"
  BY <1>1, <1>2, <1>3, Zenon DEF CtxRecs
<1>5. ctx' = [ctx EXCEPT ![t] = r]
  BY <1>1, <1>2, <1>3, Zenon
<1> QED
  BY <1>1, <1>2, <1>4, <1>5, ContextStep, Zenon DEF Nests, Sleeps, InTicks, InDisk

(* A device call takes and gives back vdisk_lock.                          *)
LEMMA SysIoInv ==
  ASSUME CpuInv, NEW h \in Harts, sys_io(h)
  PROVE  CpuInv'
<1>1. PICK t \in {Running(h)} \ Harts :
        /\ ctx[t].trap = "none" /\ ticks' = ticks
        /\ \/ /\ ctx[t].pc = "io" /\ acquire(h, "vdisk_lock")
              /\ ctx' = [ctx EXCEPT ![t].pc = "io_locked"]
           \/ /\ ctx[t].pc = "io_locked" /\ release(h, "vdisk_lock")
              /\ ctx' = [ctx EXCEPT ![t].pc = "return"]
  BY Zenon DEF sys_io
<1>2. t = Running(h) /\ t \in Threads /\ t \in Contexts /\ ctx[t] \in CtxRecs
      /\ ctx \in [Contexts -> CtxRecs] /\ Running(h) \notin Harts
  BY <1>1, RunningContext, CpuParts DEF Contexts, CpuTypeOK
<1>3. CASE ctx[t].pc = "io"
  <2>1. PICK r : r = [ctx[t] EXCEPT !.pc = "io_locked"]
    BY Zenon
  <2>2. r \in CtxRecs /\ r.pc = "io_locked" /\ r.trap = "none"
    BY <1>1, <1>2, <2>1, Zenon DEF CtxRecs
  <2>3. ctx' = [ctx EXCEPT ![t] = r] /\ acquire(h, "vdisk_lock")
    BY <1>1, <1>2, <1>3, <2>1, Zenon
  <2> QED
    BY <1>1, <1>2, <1>3, <2>2, <2>3, AcquireIs, Zenon DEF Locks, Sleeps, InTicks, InDisk
<1>4. CASE ctx[t].pc = "io_locked"
  <2>1. PICK r : r = [ctx[t] EXCEPT !.pc = "return"]
    BY Zenon
  <2>2. r \in CtxRecs /\ r.pc = "return" /\ r.trap = "none" /\ Sleeps(r, ticks)
    BY <1>1, <1>2, <2>1, Zenon DEF CtxRecs, Sleeps
  <2>3. ctx' = [ctx EXCEPT ![t] = r] /\ release(h, "vdisk_lock")
    BY <1>1, <1>2, <1>4, <2>1, Zenon
  <2> QED
    BY <1>1, <1>2, <1>4, <2>2, <2>3, ReleasesOwn, Zenon DEF Locks, InTicks, InDisk
<1> QED
  BY <1>1, <1>3, <1>4, Zenon

(* The return to user space enables interrupts.                            *)
LEMMA UsertrapretInv ==
  ASSUME CpuInv, NEW h \in Harts, usertrapret(h)
  PROVE  CpuInv'
<1>1. PICK t \in {Running(h)} \ Harts :
        /\ ctx[t].pc \in {"forked", "return"} /\ ctx[t].trap = "none"
        /\ ctx' = [ctx EXCEPT ![t].pc = "user", ![t].n = 0, ![t].ticks0 = 0, ![t].slept = 0]
  BY Zenon DEF usertrapret
<1>2. t = Running(h) /\ t \in Threads /\ t \in Contexts /\ ctx[t] \in CtxRecs
      /\ ctx \in [Contexts -> CtxRecs] /\ Nests(h, cpu[h], ctx[t], spin)
      /\ cpu[h].proc # NoThread /\ cpu[h] \in CpuRecs
  BY <1>1, RunningContext, CpuParts, Zenon DEF Contexts, CpuTypeOK
<1>3. PICK r : r = [ctx[t] EXCEPT !.pc = "user", !.n = 0, !.ticks0 = 0, !.slept = 0]
  BY Zenon
<1>4. r \in CtxRecs /\ r.pc = "user" /\ r.trap = "none"
  <2>1. PICK s : s = [ctx[t] EXCEPT !.pc = "user", !.n = 0]
    BY Zenon
  <2>2. s \in CtxRecs /\ s.pc = "user" /\ s.trap = "none"
    BY <1>1, <1>2, <2>1, Zenon DEF CtxRecs
  <2>3. r = [s EXCEPT !.ticks0 = 0, !.slept = 0]
    BY <1>3, <2>1, Zenon
  <2>4. 0 \in 0 .. TICKS - 1
    BY CpuAssumption
  <2> QED
    BY <2>2, <2>3, <2>4, Zenon DEF CtxRecs
<1>5. ctx' = [ctx EXCEPT ![t] = r]
  BY <1>1, <1>2, <1>3, Zenon
<1>6. PICK c : c = [cpu[h] EXCEPT !.sie = TRUE]
  BY Zenon
<1>7. c \in CpuRecs /\ c.noff = cpu[h].noff /\ c.sie /\ c.proc = cpu[h].proc
  BY <1>2, <1>6, Zenon DEF CpuRecs
<1>8. cpu' = [cpu EXCEPT ![h] = c] /\ UNCHANGED <<spin, ticks, cpuPanic>>
  BY <1>2, <1>6, Zenon DEF usertrapret
<1>9. Sleeps(r, ticks)
  BY <1>4, Zenon DEF Sleeps
<1>10. /\ ctx' \in [Contexts -> CtxRecs] /\ ctx'[t] = r
       /\ \A y \in Contexts \ {t} : Alike(ctx[y], ctx'[y])
       /\ \A v \in Threads : Sleeps(ctx'[v], ticks')
  BY <1>2, <1>4, <1>5, <1>8, <1>9, UpdateContext, Zenon
<1>11. cpu'[h] = c /\ CpuTypeOK' /\ CpuNeverPanics' /\ Apart(h)
  BY <1>7, <1>8, <1>10, CpuParts, Zenon DEF CpuTypeOK, CpuNeverPanics, Apart
<1>12. Nests(h, c, r, spin)
  <2>1. ~InTicks(ctx[t]) /\ ~InDisk(ctx[t]) /\ ~InTicks(r) /\ ~InDisk(r)
    BY <1>1, <1>4, Zenon DEF InTicks, InDisk
  <2>2. cpu[h].noff = 0 /\ spin["tickslock"] # h /\ spin["vdisk_lock"] # h
    BY <1>2, <2>1, Zenon DEF Nests
  <2>3. c.noff = 0 /\ c.noff # 1
    BY <1>7, <2>2
  <2> QED
    BY <1>2, <1>4, <1>7, <2>1, <2>2, <2>3, Zenon DEF Nests
<1> QED
  BY <1>2, <1>7, <1>8, <1>10, <1>11, <1>12, Stays, Zenon

(* sys_sleep() takes tickslock, at first and when it is woken.             *)
LEMMA SleepStartInv ==
  ASSUME CpuInv, NEW h \in Harts, sleep_start(h)
  PROVE  CpuInv'
<1>1. PICK t \in {Running(h)} \ Harts :
        /\ ctx[t].trap = "none" /\ ctx[t].pc \in {"sleep", "woken"}
        /\ acquire(h, "tickslock") /\ ticks' = ticks
        /\ ctx' = [ctx EXCEPT ![t].ticks0 = IF ctx[t].pc = "sleep" THEN ticks ELSE @,
                              ![t].slept = IF ctx[t].pc = "sleep" THEN 0 ELSE @,
                              ![t].pc = "sleep_locked"]
  BY Zenon DEF sleep_start
<1>2. t = Running(h) /\ t \in Threads /\ t \in Contexts /\ ctx[t] \in CtxRecs
      /\ ctx \in [Contexts -> CtxRecs] /\ Running(h) \notin Harts
      /\ ticks \in 0 .. TICKS - 1 /\ Sleeps(ctx[t], ticks)
  BY <1>1, RunningContext, CpuParts, Zenon DEF Contexts, CpuTypeOK
<1>3. PICK r : r = [ctx[t] EXCEPT !.ticks0 = IF ctx[t].pc = "sleep" THEN ticks ELSE @,
                                  !.slept = IF ctx[t].pc = "sleep" THEN 0 ELSE @,
                                  !.pc = "sleep_locked"]
  BY Zenon
<1>4. r \in CtxRecs /\ r.pc = "sleep_locked" /\ r.trap = "none"
  BY <1>1, <1>2, <1>3, Zenon DEF CtxRecs
<1>5. ctx' = [ctx EXCEPT ![t] = r]
  BY <1>1, <1>2, <1>3, Zenon
<1>6. Sleeps(r, ticks)
  <2>1. r.slept >= r.n \/ (ticks - r.ticks0) % TICKS = r.slept % TICKS
    <3>1. CASE ctx[t].pc = "sleep"
      <4>1. r.ticks0 = ticks /\ r.slept = 0
        BY <1>2, <1>3, <3>1, Zenon DEF CtxRecs
      <4> QED
        BY <1>2, <4>1
    <3>2. CASE ctx[t].pc = "woken"
      <4>1. r.ticks0 = ctx[t].ticks0 /\ r.slept = ctx[t].slept /\ r.n = ctx[t].n
        BY <1>2, <1>3, <3>2, Zenon DEF CtxRecs
      <4> QED
        BY <1>2, <3>2, <4>1, Zenon DEF Sleeps
    <3> QED
      BY <1>1, <3>1, <3>2, Zenon
  <2> QED
    BY <1>4, <2>1, Zenon DEF Sleeps
<1>7. ~InTicks(ctx[t]) /\ ~InDisk(ctx[t]) /\ InTicks(r) /\ ~InDisk(r) /\ "tickslock" \in Locks
  BY <1>1, <1>4, Zenon DEF InTicks, InDisk, Locks
<1> QED
  BY <1>1, <1>2, <1>4, <1>5, <1>6, <1>7, AcquireIs, Zenon DEF Locks

(* sys_sleep(): a thread that has not slept enough leaves tickslock and    *)
(* its hart; another returns.                                              *)
LEMMA SleepCheckInv ==
  ASSUME CpuInv, NEW h \in Harts, sleep_check(h)
  PROVE  CpuInv'
<1>1. PICK t \in {Running(h)} \ Harts :
        /\ ctx[t].trap = "none" /\ ctx[t].pc = "sleep_locked" /\ ticks' = ticks
        /\ IF Early(t) /\ ~ctx[t].killed
           THEN \E c \in {SleepLocks(cpu[h])} :
                  /\ cpu' = [cpu EXCEPT ![h] = Switched(c)]
                  /\ cpuPanic' = SchedPanics(c)
                  /\ spin' = [spin EXCEPT !["tickslock"] = NoHart]
                  /\ ctx' = [ctx EXCEPT ![t].pc = "asleep", ![t].intena = c.intena]
           ELSE /\ release(h, "tickslock")
                /\ ctx' = [ctx EXCEPT ![t].pc = IF ctx[t].killed THEN "return" ELSE "slept"]
  BY Zenon DEF sleep_check
<1>2. t = Running(h) /\ t \in Threads /\ t \in Contexts /\ ctx[t] \in CtxRecs
      /\ ctx \in [Contexts -> CtxRecs] /\ Running(h) \notin Harts
      /\ ticks \in 0 .. TICKS - 1 /\ Sleeps(ctx[t], ticks) /\ Nests(h, cpu[h], ctx[t], spin)
      /\ cpu[h] \in CpuRecs /\ cpu[h].proc = t /\ cpu[h].proc # NoThread
  BY <1>1, RunningContext, CpuParts DEF Contexts, CpuTypeOK, Running
<1>3. InTicks(ctx[t]) /\ ~InDisk(ctx[t]) /\ "tickslock" \in Locks
  BY <1>1, Zenon DEF InTicks, InDisk, Locks
<1>4. CASE ~(Early(t) /\ ~ctx[t].killed)
  <2>1. PICK r : r = [ctx[t] EXCEPT !.pc = IF ctx[t].killed THEN "return" ELSE "slept"]
    BY Zenon
  <2>2. r \in CtxRecs /\ r.pc \in {"return", "slept"} /\ r.trap = "none"
        /\ r.slept = ctx[t].slept /\ r.n = ctx[t].n
        /\ (r.pc = "slept" => ~Early(t))
    BY <1>1, <1>2, <1>4, <2>1, Zenon DEF CtxRecs
  <2>3. ctx' = [ctx EXCEPT ![t] = r] /\ release(h, "tickslock")
    BY <1>1, <1>2, <1>4, <2>1, Zenon
  <2>4. Sleeps(r, ticks)
    <3>1. ~Early(t) => ctx[t].slept >= ctx[t].n
      <4>1. ctx[t].slept \in Nat /\ ctx[t].n \in Nat /\ TICKS \in Nat \ {0}
        BY <1>2, CpuAssumption, Zenon DEF CtxRecs
      <4>2. ctx[t].slept % TICKS <= ctx[t].slept
        BY <4>1, RemainderSmaller, Zenon
      <4>3. ctx[t].slept >= ctx[t].n \/ (ticks - ctx[t].ticks0) % TICKS = ctx[t].slept % TICKS
        BY <1>1, <1>2, Zenon DEF Sleeps
      <4>4. ctx[t].slept % TICKS \in Nat
        BY <4>1
      <4> QED
        BY <4>1, <4>2, <4>3, <4>4 DEF Early
    <3> QED
      BY <2>2, <3>1, Zenon DEF Sleeps
  <2> QED
    BY <1>1, <1>2, <1>3, <2>2, <2>3, <2>4, ReleasesOwn, Zenon DEF InTicks, InDisk
<1>5. CASE Early(t) /\ ~ctx[t].killed
  <2>1. PICK c : c = SleepLocks(cpu[h])
    BY Zenon
  <2>2. /\ cpu' = [cpu EXCEPT ![h] = Switched(c)]
        /\ cpuPanic' = SchedPanics(c)
        /\ spin' = [spin EXCEPT !["tickslock"] = NoHart]
        /\ ctx' = [ctx EXCEPT ![t].pc = "asleep", ![t].intena = c.intena]
    BY <1>1, <1>5, <2>1, Zenon
  <2>3. cpu[h].noff = 1 /\ cpu[h].intena /\ ~cpu[h].sie
    BY <1>1, <1>2, <1>3 DEF Nests
  <2>4. c \in CpuRecs /\ c.noff = 1 /\ c.intena /\ ~c.sie
    <3>1. PICK d : d = push_off(cpu[h])
      BY Zenon
    <3>2. d \in CpuRecs /\ d.noff = 2 /\ d.intena /\ ~d.sie
      BY <1>2, <2>3, <3>1, PushOff
    <3> QED
      BY <2>1, <3>1, <3>2, PopOff DEF SleepLocks
  <2>5. PICK d : d = [c EXCEPT !.proc = NoThread]
    BY Zenon
  <2>6. d \in CpuRecs /\ d.noff = 1 /\ d.intena /\ ~d.sie /\ d.proc = NoThread
    BY <2>4, <2>5, Zenon DEF CpuRecs
  <2>7. PICK e : e = pop_off(d)
    BY Zenon
  <2>8. e \in CpuRecs /\ e.noff = 0 /\ e.sie /\ e.proc = NoThread
    BY <2>6, <2>7, PopOff
  <2>9. cpu' = [cpu EXCEPT ![h] = e] /\ ~cpuPanic'
    BY <2>2, <2>4, <2>5, <2>7, Zenon DEF Switched, SchedPanics
  <2>10. PICK r : r = [ctx[t] EXCEPT !.pc = "asleep", !.intena = c.intena]
    BY Zenon
  <2>11. r \in CtxRecs /\ r.pc = "asleep" /\ r.trap = "none" /\ r.intena
         /\ r.slept = ctx[t].slept /\ r.n = ctx[t].n /\ r.ticks0 = ctx[t].ticks0
    BY <1>1, <1>2, <2>4, <2>10, Zenon DEF CtxRecs
  <2>12. ctx' = [ctx EXCEPT ![t] = r]
    BY <1>2, <2>2, <2>10, Zenon
  <2>13. Sleeps(r, ticks) /\ SwitchedOut(r)
    BY <1>1, <1>2, <1>5, <2>11, Zenon DEF Sleeps, SwitchedOut, Early, InTicks, InDisk
  <2>14. /\ ctx' \in [Contexts -> CtxRecs] /\ ctx'[t] = r
         /\ \A y \in Contexts \ {t} : Alike(ctx[y], ctx'[y])
         /\ \A u \in Threads : Sleeps(ctx'[u], ticks')
    BY <1>1, <1>2, <2>11, <2>12, <2>13, UpdateContext, Zenon
  <2>15. CpuTypeOK' /\ CpuNeverPanics'
    BY <1>1, <2>2, <2>8, <2>9, <2>14, CpuParts, Zenon DEF CpuTypeOK,
           CpuNeverPanics
  <2>16. cpu'[h] = e /\ \A g \in Harts \ {h} : cpu'[g] = cpu[g]
    BY <2>9, CpuParts, Zenon DEF CpuTypeOK
  <2>17. \A l \in Locks : spin'[l] # h /\ \A g \in Harts \ {h} : spin'[l] = g <=> spin[l] = g
    BY <1>2, <1>3, <2>2, CpuAssumption, CpuParts DEF Nests, CpuTypeOK, Locks
  <2>18. ctx'[h].trap = "none" /\ ctx'[h].pc = "scheduler"
    BY <1>2, <2>12, CpuParts, Zenon DEF Contexts
  <2>19. Nests(h, cpu'[h], ctx'[h], spin') /\ Apart(h)
    BY <2>8, <2>14, <2>16, <2>17, <2>18 DEF Nests, InTicks, InDisk, Locks, Apart
  <2> QED
    BY <1>2, <2>8, <2>13, <2>14, <2>15, <2>16, <2>19, Leaves, Zenon
<1> QED
  BY <1>4, <1>5, Zenon

(* A step that changes SIE and the context of hart h, which holds no lock. *)
LEMMA SieStep ==
  ASSUME CpuInv, NEW h \in Harts, NEW r \in CtxRecs, NEW b \in BOOLEAN,
         UNCHANGED <<spin, ticks>>, ~cpuPanic',
         ctx' = [ctx EXCEPT ![Running(h)] = r],
         cpu' = [cpu EXCEPT ![h].sie = b],
         Running(h) \in Threads => Sleeps(r, ticks),
         r.pc = ctx[Running(h)].pc, ~InTicks(ctx[Running(h)]), ~InDisk(ctx[Running(h)]),
         ~InTicks(r), ~InDisk(r), b <=> r.trap = "none"
  PROVE  CpuInv'
<1>1. Running(h) \in Contexts
  BY RunningContext, Zenon
<1>2. /\ ctx' \in [Contexts -> CtxRecs] /\ ctx'[Running(h)] = r
      /\ \A y \in Contexts \ {Running(h)} : Alike(ctx[y], ctx'[y])
      /\ \A t \in Threads : Sleeps(ctx'[t], ticks')
  BY <1>1, UpdateContext, Zenon
<1>3. PICK c : c = [cpu[h] EXCEPT !.sie = b]
  BY Zenon
<1>4. cpu[h] \in CpuRecs /\ cpu \in [Harts -> CpuRecs] /\ Nests(h, cpu[h], ctx[Running(h)], spin)
  BY CpuParts, Zenon DEF CpuTypeOK
<1>5. c \in CpuRecs /\ c.noff = cpu[h].noff /\ (c.sie <=> b) /\ c.proc = cpu[h].proc
  BY <1>3, <1>4, Zenon DEF CpuRecs
<1>6. cpu' = [cpu EXCEPT ![h] = c]
  BY <1>3, <1>4, Zenon
<1>7. cpu'[h] = c /\ CpuTypeOK' /\ CpuNeverPanics' /\ Apart(h)
  BY <1>2, <1>4, <1>5, <1>6, CpuParts DEF CpuTypeOK, CpuNeverPanics, Apart
<1>8. Nests(h, c, r, spin)
  BY <1>4, <1>5 DEF Nests, InTicks, InDisk
<1> QED
  BY <1>2, <1>5, <1>7, <1>8, Stays, Zenon

(* An interrupt finds its hart outside of critical sections and traps.     *)
LEMMA InterruptInv ==
  ASSUME CpuInv, NEW h \in Harts, NEW cause \in {"timer", "device"}, interrupt(h, cause)
  PROVE  CpuInv'
<1>1. Running(h) \in Contexts /\ ctx[Running(h)] \in CtxRecs /\ ctx \in [Contexts -> CtxRecs]
      /\ (Running(h) \in Threads => Sleeps(ctx[Running(h)], ticks))
      /\ Nests(h, cpu[h], ctx[Running(h)], spin)
  BY RunningContext, CpuParts, Zenon DEF Contexts, CpuTypeOK
<1>2. PICK r : r = [ctx[Running(h)] EXCEPT !.trap = cause]
  BY Zenon
<1>3. r \in CtxRecs /\ r.pc = ctx[Running(h)].pc /\ r.trap = cause
      /\ r.n = ctx[Running(h)].n /\ r.slept = ctx[Running(h)].slept /\ r.ticks0 = ctx[Running(h)].ticks0
  BY <1>1, <1>2, Zenon DEF CtxRecs
<1>4. ctx' = [ctx EXCEPT ![Running(h)] = r]
  BY <1>1, <1>2, Zenon DEF interrupt
<1>5. ctx[Running(h)].trap = "none" /\ ~InTicks(ctx[Running(h)]) /\ ~InDisk(ctx[Running(h)])
  BY <1>1 DEF interrupt, Nests
<1>6. ~InTicks(r) /\ ~InDisk(r) /\ r.trap # "none"
  BY <1>3, <1>5, Zenon DEF InTicks, InDisk
<1>7. Running(h) \in Threads => Sleeps(r, ticks)
  BY <1>1, <1>3, Zenon DEF Sleeps
<1>8. UNCHANGED <<spin, ticks>> /\ ~cpuPanic' /\ cpu' = [cpu EXCEPT ![h].sie = FALSE]
  BY <1>5, Zenon DEF interrupt
<1> QED
  BY <1>3, <1>4, <1>5, <1>6, <1>7, <1>8, SieStep, Zenon

(* The return from a trap restores the interrupted context.                *)
LEMMA TrapReturnInv ==
  ASSUME CpuInv, NEW h \in Harts, trap_return(h)
  PROVE  CpuInv'
<1>1. Running(h) \in Contexts /\ ctx[Running(h)] \in CtxRecs /\ ctx \in [Contexts -> CtxRecs]
      /\ (Running(h) \in Threads => Sleeps(ctx[Running(h)], ticks))
      /\ Nests(h, cpu[h], ctx[Running(h)], spin)
  BY RunningContext, CpuParts, Zenon DEF Contexts, CpuTypeOK
<1>2. PICK r : r = [ctx[Running(h)] EXCEPT !.trap = "none"]
  BY Zenon
<1>3. r \in CtxRecs /\ r.pc = ctx[Running(h)].pc /\ r.trap = "none"
      /\ r.n = ctx[Running(h)].n /\ r.slept = ctx[Running(h)].slept /\ r.ticks0 = ctx[Running(h)].ticks0
  BY <1>1, <1>2, Zenon DEF CtxRecs
<1>4. /\ ctx' = [ctx EXCEPT ![Running(h)] = r] /\ ctx[Running(h)].trap = "done"
      /\ cpu' = [cpu EXCEPT ![h].sie = TRUE] /\ UNCHANGED <<spin, ticks, cpuPanic>>
  BY <1>1, <1>2, Zenon DEF trap_return
<1>5. ~InTicks(ctx[Running(h)]) /\ ~InDisk(ctx[Running(h)]) /\ ~cpuPanic'
  BY <1>1, <1>4, CpuParts, Zenon DEF Nests, InTicks, InDisk, CpuNeverPanics
<1>6. ~InTicks(r) /\ ~InDisk(r)
  BY <1>3, <1>4, <1>5, Zenon DEF InTicks, InDisk
<1>7. Running(h) \in Threads => Sleeps(r, ticks)
  BY <1>1, <1>3, Zenon DEF Sleeps
<1> QED
  BY <1>3, <1>4, <1>5, <1>6, <1>7, SieStep, Zenon

(* The scheduler turns interrupts on before each pass.                     *)
LEMMA SchedPassInv ==
  ASSUME CpuInv, NEW h \in Harts, sched_pass(h)
  PROVE  CpuInv'
<1>1. Running(h) = h /\ h \in Contexts /\ h \notin Threads /\ ctx[h] \in CtxRecs
      /\ Nests(h, cpu[h], ctx[h], spin) /\ ctx[h].trap = "none" /\ ~cpuPanic
  BY RunningContext, CpuAssumption, CpuParts, Zenon DEF Contexts, CpuTypeOK,
         CpuNeverPanics, Running, sched_pass
<1>2. ctx' = [ctx EXCEPT ![h] = ctx[h]]
  BY <1>1, CpuParts, Zenon DEF sched_pass, CpuTypeOK
<1>3. ~InTicks(ctx[h]) /\ ~InDisk(ctx[h])
  BY <1>1, Zenon DEF Nests, InTicks, InDisk, sched_pass
<1>4. UNCHANGED <<spin, ticks, cpuPanic>> /\ cpu' = [cpu EXCEPT ![h].sie = TRUE]
  BY Zenon DEF sched_pass
<1> QED
  BY <1>1, <1>2, <1>3, <1>4, SieStep, Zenon

(* virtio_disk_intr() takes and releases its lock.                         *)
LEMMA DevHandlerInv ==
  ASSUME CpuInv, NEW h \in Harts, dev_handler(h)
  PROVE  CpuInv'
<1>1. Running(h) \in Contexts /\ ctx[Running(h)] \in CtxRecs /\ ctx \in [Contexts -> CtxRecs]
      /\ (Running(h) \in Threads => Sleeps(ctx[Running(h)], ticks))
      /\ (Running(h) \in Harts => ctx[Running(h)].pc = "scheduler")
      /\ Nests(h, cpu[h], ctx[Running(h)], spin) /\ ctx[Running(h)].pc # "forkret"
  BY RunningContext, CpuParts DEF Contexts, CpuTypeOK, Nests
<1>2. ticks' = ticks /\ "vdisk_lock" \in Locks
  BY Zenon DEF dev_handler, Locks
<1>3. CASE ctx[Running(h)].trap = "device"
  <2>1. PICK r : r = [ctx[Running(h)] EXCEPT !.trap = "device_locked"]
    BY Zenon
  <2>2. r \in CtxRecs /\ r.pc = ctx[Running(h)].pc /\ r.trap = "device_locked"
        /\ r.n = ctx[Running(h)].n /\ r.slept = ctx[Running(h)].slept
        /\ r.ticks0 = ctx[Running(h)].ticks0
    BY <1>1, <2>1, Zenon DEF CtxRecs
  <2>3. ctx' = [ctx EXCEPT ![Running(h)] = r] /\ acquire(h, "vdisk_lock")
    BY <1>1, <1>3, <2>1, Zenon DEF dev_handler
  <2>4. Running(h) \in Threads => Sleeps(r, ticks)
    BY <1>1, <2>2, Zenon DEF Sleeps
  <2>5. ~InTicks(ctx[Running(h)]) /\ ~InDisk(ctx[Running(h)]) /\ InDisk(r) /\ ~InTicks(r)
        /\ r.pc \notin {"sleep_locked", "io_locked"}
    BY <1>1, <1>3, <2>2, Zenon DEF Nests, InTicks, InDisk
  <2> QED
    BY <1>1, <1>2, <1>3, <2>2, <2>3, <2>4, <2>5, AcquireIs, Zenon
<1>4. CASE ctx[Running(h)].trap = "device_locked"
  <2>1. PICK r : r = [ctx[Running(h)] EXCEPT !.trap = "done"]
    BY Zenon
  <2>2. r \in CtxRecs /\ r.pc = ctx[Running(h)].pc /\ r.trap = "done"
        /\ r.n = ctx[Running(h)].n /\ r.slept = ctx[Running(h)].slept
        /\ r.ticks0 = ctx[Running(h)].ticks0
    BY <1>1, <2>1, Zenon DEF CtxRecs
  <2>3. ctx' = [ctx EXCEPT ![Running(h)] = r] /\ release(h, "vdisk_lock")
    BY <1>1, <1>4, <2>1, Zenon DEF dev_handler
  <2>4. Running(h) \in Threads => Sleeps(r, ticks)
    BY <1>1, <2>2, Zenon DEF Sleeps
  <2>5. ~InTicks(ctx[Running(h)]) /\ InDisk(ctx[Running(h)]) /\ ~InDisk(r) /\ ~InTicks(r)
    BY <1>1, <1>4, <2>2, Zenon DEF Nests, InTicks, InDisk
  <2> QED
    BY <1>1, <1>2, <1>4, <2>2, <2>3, <2>4, <2>5, ReleasesOwn, Zenon
<1> QED
  BY <1>3, <1>4, Zenon DEF dev_handler

(* A tick counts for every sleeper, also when ticks wraps.                 *)
LEMMA TickCounts ==
  ASSUME NEW r \in CtxRecs, NEW now \in 0 .. TICKS - 1, Sleeps(r, now), NEW s \in CtxRecs,
         s.pc = IF r.pc = "asleep" THEN "woken" ELSE r.pc, s.n = r.n, s.ticks0 = r.ticks0,
         s.slept = IF r.slept < r.n THEN r.slept + 1 ELSE r.slept
  PROVE  Sleeps(s, (now + 1) % TICKS)
<1>1. r.slept \in Nat /\ r.n \in Nat /\ r.ticks0 \in Int /\ now \in Int /\ TICKS \in Nat \ {0}
  BY CpuAssumption DEF CtxRecs
<1>2. ASSUME r.slept < r.n, (now - r.ticks0) % TICKS = r.slept % TICKS
      PROVE  (((now + 1) % TICKS) - r.ticks0) % TICKS = (r.slept + 1) % TICKS
  <2>1. \A a \in Int, c \in Int : ((a % TICKS) + c) % TICKS = (a + c) % TICKS
    BY <1>1, ModStep, Zenon
  <2>2. (((now + 1) % TICKS) + (0 - r.ticks0)) % TICKS = ((now + 1) + (0 - r.ticks0)) % TICKS
    <3>1. now + 1 \in Int /\ 0 - r.ticks0 \in Int
      BY <1>1
    <3> QED
      BY <2>1, <3>1, Zenon
  <2>3. (((now - r.ticks0) % TICKS) + 1) % TICKS = ((now - r.ticks0) + 1) % TICKS
    <3>1. now - r.ticks0 \in Int /\ 1 \in Int
      BY <1>1
    <3> QED
      BY <2>1, <3>1, Zenon
  <2>4. ((r.slept % TICKS) + 1) % TICKS = (r.slept + 1) % TICKS
    <3>1. r.slept \in Int /\ 1 \in Int
      BY <1>1
    <3> QED
      BY <2>1, <3>1, Zenon
  <2>5. (now - r.ticks0) + 1 = (now + 1) + (0 - r.ticks0)
    BY <1>1
  <2>6. (((now + 1) % TICKS) + (0 - r.ticks0)) % TICKS = (r.slept + 1) % TICKS
    BY <1>2, <2>2, <2>3, <2>4, <2>5, Zenon
  <2>7. ((now + 1) % TICKS) - r.ticks0 = ((now + 1) % TICKS) + (0 - r.ticks0)
    BY <1>1
  <2> QED
    BY <2>6, <2>7, Zenon
<1>3. CASE r.slept < r.n
  <2>1. s.slept = r.slept + 1
    BY <1>3, Zenon
  <2>2. s.pc \in {"sleep_locked", "asleep", "woken"} =>
          (((now + 1) % TICKS) - s.ticks0) % TICKS = s.slept % TICKS
    BY <1>1, <1>2, <1>3, <2>1 DEF Sleeps
  <2> QED
    BY <1>1, <1>3, <2>1, <2>2 DEF Sleeps
<1>4. CASE ~(r.slept < r.n)
  <2>1. s.slept = r.slept /\ s.slept >= s.n
    BY <1>1, <1>4
  <2> QED
    BY <2>1, Zenon DEF Sleeps
<1> QED
  BY <1>3, <1>4, Zenon

(* clockintr() counts a tick under tickslock and wakes the sleepers.       *)
LEMMA ClockintrInv ==
  ASSUME CpuInv, NEW h \in Harts, clockintr(h)
  PROVE  CpuInv'
<1>1. Running(h) \in Contexts /\ ctx[Running(h)] \in CtxRecs /\ ctx \in [Contexts -> CtxRecs]
      /\ (Running(h) \in Threads => Sleeps(ctx[Running(h)], ticks))
      /\ (Running(h) \in Harts => ctx[Running(h)].pc = "scheduler")
      /\ Nests(h, cpu[h], ctx[Running(h)], spin) /\ ctx[Running(h)].pc # "forkret"
  BY RunningContext, CpuParts, Zenon DEF Contexts, CpuTypeOK, Nests
<1>2. "tickslock" \in Locks
  BY Zenon DEF Locks
<1>3. ASSUME ctx[Running(h)].trap = "timer", NEW trap \in {"timer_locked", "ticked"},
             NEW r, r = [ctx[Running(h)] EXCEPT !.trap = trap]
      PROVE  /\ r \in CtxRecs /\ r.pc = ctx[Running(h)].pc /\ r.trap = trap
             /\ Running(h) \in Threads => Sleeps(r, ticks)
             /\ ~InTicks(ctx[Running(h)]) /\ ~InDisk(ctx[Running(h)]) /\ ~InDisk(r)
             /\ InTicks(r) <=> trap = "timer_locked"
             /\ r.pc \notin {"sleep_locked", "io_locked"}
  <2>1. /\ r \in CtxRecs /\ r.pc = ctx[Running(h)].pc /\ r.trap = trap
        /\ r.n = ctx[Running(h)].n /\ r.slept = ctx[Running(h)].slept
        /\ r.ticks0 = ctx[Running(h)].ticks0
    BY <1>1, <1>3, Zenon DEF CtxRecs
  <2> QED
    BY <1>1, <1>3, <2>1, Zenon DEF Sleeps, InTicks, InDisk, Nests
<1>4. CASE /\ ctx[Running(h)].trap = "timer" /\ acquire(h, "tickslock") /\ UNCHANGED ticks
           /\ ctx' = [ctx EXCEPT ![Running(h)].trap = "timer_locked"]
  <2>1. PICK r : r = [ctx[Running(h)] EXCEPT !.trap = "timer_locked"]
    BY Zenon
  <2>2. ctx' = [ctx EXCEPT ![Running(h)] = r]
    BY <1>1, <1>4, <2>1, Zenon
  <2>3. /\ r \in CtxRecs /\ r.pc = ctx[Running(h)].pc /\ r.trap = "timer_locked"
        /\ Running(h) \in Threads => Sleeps(r, ticks)
        /\ ~InTicks(ctx[Running(h)]) /\ ~InDisk(ctx[Running(h)]) /\ ~InDisk(r) /\ InTicks(r)
        /\ r.pc \notin {"sleep_locked", "io_locked"}
    BY <1>3, <1>4, <2>1, Zenon
  <2> QED
    BY <1>1, <1>2, <1>4, <2>2, <2>3, AcquireIs, Zenon
<1>5. CASE /\ ctx[Running(h)].trap = "timer" /\ UNCHANGED <<cpu, spin, ticks, cpuPanic>>
           /\ ctx' = [ctx EXCEPT ![Running(h)].trap = "ticked"]
  <2>1. PICK r : r = [ctx[Running(h)] EXCEPT !.trap = "ticked"]
    BY Zenon
  <2>2. ctx' = [ctx EXCEPT ![Running(h)] = r]
    BY <1>1, <1>5, <2>1, Zenon
  <2>3. Nests(h, cpu[h], r, spin)
    BY <1>1, <1>3, <1>5, <2>1, Zenon DEF Nests
  <2> QED
    BY <1>3, <1>5, <2>1, <2>2, <2>3, ContextStep, Zenon
<1>6. CASE /\ ctx[Running(h)].trap = "timer_locked" /\ release(h, "tickslock")
           /\ ticks' = (ticks + 1) % TICKS
           /\ ctx' = Woken([ctx EXCEPT ![Running(h)].trap = "ticked"])
  <2>0. PICK d : d = [ctx EXCEPT ![Running(h)].trap = "ticked"]
    BY Zenon
  <2> DEFINE PC(r) == IF r.pc = "asleep" THEN "woken" ELSE r.pc
             Slept(r, y) == IF r.slept < ctx[y].n THEN r.slept + 1 ELSE r.slept
             Wakes(y) == [d[y] EXCEPT !.pc = PC(d[y]), !.slept = Slept(d[y], y)]
  <2>a. ctx' = [y \in Contexts |-> Wakes(y)]
    <3>1. ctx' = Woken(d)
      BY <1>6, <2>0, Zenon
    <3> QED
      BY <3>1, Zenon DEF Woken
  <2> HIDE DEF PC, Slept
  <2>1. ASSUME NEW y \in Contexts
        PROVE  /\ ctx'[y] \in CtxRecs /\ ctx'[y].n = ctx[y].n /\ ctx'[y].ticks0 = ctx[y].ticks0
               /\ ctx'[y].pc = IF ctx[y].pc = "asleep" THEN "woken" ELSE ctx[y].pc
               /\ ctx'[y].slept = IF ctx[y].slept < ctx[y].n THEN ctx[y].slept + 1 ELSE ctx[y].slept
               /\ ctx'[y].intena = ctx[y].intena
               /\ ctx'[y].trap = IF y = Running(h) THEN "ticked" ELSE ctx[y].trap
    <3>1. PICK r : r = d[y]
      BY Zenon
    <3>2. /\ r \in CtxRecs /\ r.n = ctx[y].n /\ r.ticks0 = ctx[y].ticks0 /\ r.pc = ctx[y].pc
          /\ r.slept = ctx[y].slept /\ r.intena = ctx[y].intena
          /\ r.trap = IF y = Running(h) THEN "ticked" ELSE ctx[y].trap
      <4>1. CASE y = Running(h)
        <5>1. r = [ctx[y] EXCEPT !.trap = "ticked"]
          BY <1>1, <2>0, <3>1, <4>1, Zenon
        <5> QED
          BY <1>1, <4>1, <5>1, Zenon DEF CtxRecs
      <4>2. CASE y # Running(h)
        <5>1. r = ctx[y]
          BY <1>1, <2>0, <3>1, <4>2, Zenon
        <5> QED
          BY <1>1, <4>2, <5>1, Zenon
      <4> QED
        BY <4>1, <4>2, Zenon
    <3>3. PICK at : at = IF r.pc = "asleep" THEN "woken" ELSE r.pc
      BY Zenon
    <3>4. PICK n : n = IF r.slept < ctx[y].n THEN r.slept + 1 ELSE r.slept
      BY Zenon
    <3>5. ctx'[y] = [r EXCEPT !.pc = at, !.slept = n]
      BY <2>a, <3>1, <3>3, <3>4, Zenon DEF PC, Slept
    <3>6. at \in {"scheduler", "forkret", "forked", "return", "user", "io", "io_locked", "sleep",
                  "sleep_locked", "asleep", "woken", "slept"} /\ n \in Nat
      BY <1>1, <3>2, <3>3, <3>4 DEF CtxRecs
    <3>7. ctx'[y] \in CtxRecs /\ ctx'[y].pc = at /\ ctx'[y].slept = n /\ ctx'[y].n = r.n
          /\ ctx'[y].ticks0 = r.ticks0 /\ ctx'[y].intena = r.intena /\ ctx'[y].trap = r.trap
      <4>1. PICK q : q = [r EXCEPT !.pc = at]
        BY Zenon
      <4>2. q \in CtxRecs /\ q.pc = at /\ q.n = r.n /\ q.ticks0 = r.ticks0 /\ q.intena = r.intena
            /\ q.trap = r.trap
        BY <3>2, <3>6, <4>1, Zenon DEF CtxRecs
      <4>3. ctx'[y] = [q EXCEPT !.slept = n]
        BY <3>5, <4>1, Zenon
      <4> QED
        BY <3>6, <4>2, <4>3, Zenon DEF CtxRecs
    <3> QED
      BY <3>2, <3>3, <3>4, <3>7, Zenon
  <2>2. ctx' \in [Contexts -> CtxRecs]
    <3>1. \A y \in Contexts : Wakes(y) \in CtxRecs
      BY <2>a, <2>1, Zenon
    <3> HIDE DEF Wakes
    <3> QED
      BY <2>a, <3>1, Zenon
  <2>3. /\ InTicks(ctx[Running(h)]) /\ ~InDisk(ctx[Running(h)])
        /\ ctx[Running(h)].pc \notin {"sleep_locked", "io_locked"}
    BY <1>1, <1>6, Zenon DEF Nests, InTicks, InDisk
  <2>4. ticks \in 0 .. TICKS - 1 /\ ticks' \in 0 .. TICKS - 1
    BY <1>6, CpuAssumption, CpuParts DEF CpuTypeOK
  <2>5. CpuTypeOK'
    BY <1>2, <1>6, <2>2, <2>3, <2>4, ReleaseTypes, Zenon DEF CpuTypeOK
  <2>6. \A t \in Threads : Sleeps(ctx'[t], ticks')
    <3> TAKE t \in Threads
    <3>1. t \in Contexts /\ ctx[t] \in CtxRecs /\ Sleeps(ctx[t], ticks)
      BY <1>1, CpuParts, Zenon DEF Contexts
    <3>2. Sleeps(ctx'[t], (ticks + 1) % TICKS)
      BY <2>1, <2>4, <3>1, TickCounts, Zenon
    <3> QED
      BY <1>6, <3>2, Zenon
  <2>7. \A y \in Contexts \ {Running(h)} : Alike(ctx[y], ctx'[y])
    BY <2>1, Zenon DEF Alike
  <2>8. PICK r : r = ctx'[Running(h)]
    BY Zenon
  <2>9. r \in CtxRecs /\ r.trap = "ticked" /\ ~InTicks(r) /\ ~InDisk(r)
        /\ r.pc # "forkret" /\ (Running(h) \in Harts => r.pc = "scheduler")
    BY <1>1, <2>1, <2>3, <2>8, Zenon DEF InTicks, InDisk
  <2> QED
    BY <1>2, <1>6, <2>3, <2>5, <2>6, <2>7, <2>8, <2>9, ReleaseIs, Zenon
<1> QED
  BY <1>4, <1>5, <1>6, Zenon DEF clockintr

(* yield() at the end of a timer interrupt.                                *)
LEMMA YieldInv ==
  ASSUME CpuInv, NEW h \in Harts, yield(h)
  PROVE  CpuInv'
<1> DEFINE x == Running(h)
<1>1. x \in Contexts /\ ctx[x] \in CtxRecs /\ ctx \in [Contexts -> CtxRecs]
      /\ (x \in Threads => Sleeps(ctx[x], ticks)) /\ Nests(h, cpu[h], ctx[x], spin)
      /\ cpu[h] \in CpuRecs /\ (x \in Threads <=> cpu[h].proc # NoThread) /\ (x \in Harts <=> x = h)
  BY RunningContext, CpuParts DEF Contexts, CpuTypeOK, Nests
<1>2. ctx[x].trap = "ticked" /\ UNCHANGED <<spin, ticks>>
  BY Zenon DEF yield
<1>3. ~InTicks(ctx[x]) /\ ~InDisk(ctx[x]) /\ cpu[h].noff = 0 /\ ~cpu[h].sie
  BY <1>1, <1>2, Zenon DEF Nests, InTicks, InDisk
<1>4. CASE x \notin Threads
  <2>1. PICK r : r = [ctx[x] EXCEPT !.trap = "done"]
    BY Zenon
  <2>2. r \in CtxRecs /\ r.pc = ctx[x].pc /\ r.trap = "done"
    BY <1>1, <2>1, Zenon DEF CtxRecs
  <2>3. ctx' = [ctx EXCEPT ![x] = r] /\ UNCHANGED <<cpu, spin, ticks, cpuPanic>>
    BY <1>1, <1>2, <1>4, <2>1, Zenon DEF yield
  <2>4. Nests(h, cpu[h], r, spin)
    BY <1>1, <1>2, <1>3, <2>2, Zenon DEF Nests, InTicks, InDisk
  <2> QED
    BY <1>4, <2>2, <2>3, <2>4, ContextStep, Zenon
<1>5. CASE x \in Threads
  <2>1. PICK c : c = push_off(cpu[h])
    BY Zenon
  <2>2. /\ cpu' = [cpu EXCEPT ![h] = Switched(c)]
        /\ cpuPanic' = SchedPanics(c)
        /\ ctx' = [ctx EXCEPT ![x].trap = "done", ![x].intena = c.intena]
    BY <1>5, <2>1, Zenon DEF yield
  <2>3. c \in CpuRecs /\ c.noff = 1 /\ ~c.intena /\ ~c.sie /\ c.intena \in BOOLEAN
    BY <1>1, <1>3, <2>1, PushOff DEF CpuRecs
  <2>4. PICK d : d = [c EXCEPT !.proc = NoThread]
    BY Zenon
  <2>5. d \in CpuRecs /\ d.noff = 1 /\ ~d.intena /\ ~d.sie /\ d.proc = NoThread
    BY <2>3, <2>4, Zenon DEF CpuRecs
  <2>6. PICK e : e = pop_off(d)
    BY Zenon
  <2>7. e \in CpuRecs /\ e.noff = 0 /\ ~e.sie /\ e.proc = NoThread
    BY <2>5, <2>6, PopOff
  <2>8. cpu' = [cpu EXCEPT ![h] = e] /\ ~cpuPanic'
    BY <2>2, <2>3, <2>4, <2>6, Zenon DEF Switched, SchedPanics
  <2>9. PICK r : r = [ctx[x] EXCEPT !.trap = "done", !.intena = c.intena]
    BY Zenon
  <2>10. r \in CtxRecs /\ r.pc = ctx[x].pc /\ r.trap = "done" /\ ~r.intena
         /\ r.slept = ctx[x].slept /\ r.n = ctx[x].n /\ r.ticks0 = ctx[x].ticks0
    BY <1>1, <2>3, <2>9, Zenon DEF CtxRecs
  <2>11. ctx' = [ctx EXCEPT ![x] = r]
    BY <1>1, <2>2, <2>9, Zenon
  <2>12. Sleeps(r, ticks) /\ SwitchedOut(r)
    BY <1>1, <1>3, <1>5, <2>10, Zenon DEF Sleeps, SwitchedOut, InTicks, InDisk, Nests
  <2>13. /\ ctx' \in [Contexts -> CtxRecs] /\ ctx'[x] = r
         /\ \A y \in Contexts \ {x} : Alike(ctx[y], ctx'[y])
         /\ \A u \in Threads : Sleeps(ctx'[u], ticks')
    BY <1>1, <1>2, <2>10, <2>11, <2>12, UpdateContext, Zenon
  <2>14. CpuTypeOK' /\ CpuNeverPanics'
    BY <1>2, <2>7, <2>8, <2>13, CpuParts, Zenon DEF CpuTypeOK, CpuNeverPanics
  <2>15. cpu'[h] = e /\ \A g \in Harts \ {h} : cpu'[g] = cpu[g]
    BY <2>8, CpuParts, Zenon DEF CpuTypeOK
  <2>16. x # h
    BY <1>5, CpuAssumption, Zenon
  <2>17. ctx'[h].trap = "none" /\ ctx'[h].pc = "scheduler"
    BY <1>1, <1>5, <2>11, <2>16, CpuParts, Zenon DEF Contexts
  <2>18. Nests(h, e, ctx'[h], spin) /\ Apart(h)
    BY <1>1, <1>2, <1>3, <2>7, <2>13, <2>15, <2>17 DEF Nests, InTicks, InDisk, Apart
  <2> QED
    BY <1>1, <1>2, <1>5, <2>7, <2>12, <2>13, <2>14, <2>15, <2>18, Leaves, Zenon
<1> QED
  BY <1>4, <1>5, Zenon

(* scheduler(): a thread resumes with the interrupts that it left with,    *)
(* on whatever hart.                                                       *)
LEMMA DispatchInv ==
  ASSUME CpuInv, NEW h \in Harts, NEW t \in Threads, dispatch(h, t), Ready(t),
         cpu[h].proc = NoThread, ctx[h].trap = "none", UNCHANGED <<spin, ticks>>, ~cpuPanic'
  PROVE  CpuInv'
<1>1. cpu[h].proc = NoThread /\ ctx[h].trap = "none" /\ Ready(t) /\ UNCHANGED <<spin, ticks>>
  OBVIOUS
<1>2. Running(h) = h /\ t \in Contexts /\ ctx[t] \in CtxRecs /\ ctx \in [Contexts -> CtxRecs]
      /\ Nests(h, cpu[h], ctx[h], spin) /\ cpu[h] \in CpuRecs /\ cpu \in [Harts -> CpuRecs]
      /\ Away(t) /\ SwitchedOut(ctx[t]) /\ Sleeps(ctx[t], ticks) /\ ctx[t].pc # "asleep"
  BY <1>1, CpuParts, Zenon DEF Contexts, CpuTypeOK, Running, Ready, Away
<1>3. cpu[h].noff = 0 /\ ~InTicks(ctx[h]) /\ ~InDisk(ctx[h])
  BY <1>1, <1>2, Zenon DEF Nests, InTicks, InDisk
<1>4. PICK c : c = [cpu[h] EXCEPT !.proc = t]
  BY Zenon
<1>5. c \in CpuRecs /\ c.noff = 0 /\ c.proc = t
  BY <1>2, <1>3, <1>4, Zenon DEF CpuRecs
<1>6. PICK d : d = push_off(c)
  BY Zenon
<1>7. d \in CpuRecs /\ d.noff = 1 /\ ~d.sie /\ d.proc = t
  BY <1>5, <1>6, PushOff
<1>8. PICK b \in BOOLEAN : b = IF ctx[t].pc = "forkret" THEN d.intena ELSE ctx[t].intena
  BY <1>2, <1>7, Zenon DEF CpuRecs, CtxRecs
<1>9. PICK e : e = [d EXCEPT !.intena = b]
  BY Zenon
<1>10. e \in CpuRecs /\ e.noff = 1 /\ ~e.sie /\ e.proc = t /\ (e.intena <=> b)
  BY <1>7, <1>9, Zenon DEF CpuRecs
<1>11. PICK f : f = pop_off(e)
  BY Zenon
<1>12. f \in CpuRecs /\ f.noff = 0 /\ (f.sie <=> b) /\ f.proc = t
  BY <1>10, <1>11, PopOff
<1>13. cpu' = [cpu EXCEPT ![h] = f]
  <2>1. cpu' = [cpu EXCEPT ![h] = Resumed(push_off([cpu[h] EXCEPT !.proc = t]), t)]
    BY <1>2, Zenon DEF dispatch
  <2>2. cpu' = [cpu EXCEPT ![h] = Resumed(d, t)]
    BY <1>4, <1>6, <2>1, Zenon
  <2>3. Resumed(d, t) = f
    BY <1>8, <1>9, <1>11, Zenon DEF Resumed
  <2> QED
    BY <2>2, <2>3, Zenon
<1>14. ~cpuPanic'
  OBVIOUS
<1>15. PICK r : r = IF ctx[t].pc = "forkret" THEN [ctx[t] EXCEPT !.pc = "forked"] ELSE ctx[t]
  BY Zenon
<1>16. /\ r \in CtxRecs /\ r.trap = ctx[t].trap /\ r.pc # "forkret"
       /\ Sleeps(r, ticks) /\ ~InTicks(r) /\ ~InDisk(r)
       /\ b => r.trap = "none"
       /\ r.pc # "forked" => (b <=> r.trap = "none")
  <2>1. CASE ctx[t].pc = "forkret"
    <3>1. r = [ctx[t] EXCEPT !.pc = "forked"]
      BY <1>15, <2>1, Zenon
    <3>2. r \in CtxRecs /\ r.trap = ctx[t].trap /\ r.pc = "forked"
      BY <1>2, <3>1, Zenon DEF CtxRecs
    <3> QED
      BY <1>2, <1>7, <1>8, <2>1, <3>2, Zenon DEF Sleeps, InTicks, InDisk, SwitchedOut
  <2>2. CASE ctx[t].pc # "forkret"
    <3>1. r = ctx[t]
      BY <1>15, <2>2, Zenon
    <3> QED
      BY <1>2, <1>8, <2>2, <3>1, Zenon DEF SwitchedOut
  <2> QED
    BY <2>1, <2>2, Zenon
<1>17. ctx' = [ctx EXCEPT ![t] = r]
  <2>1. CASE ctx[t].pc = "forkret"
    BY <1>2, <1>15, <2>1, Zenon DEF dispatch
  <2>2. CASE ctx[t].pc # "forkret"
    BY <1>2, <1>15, <2>2, Zenon DEF dispatch
  <2> QED
    BY <2>1, <2>2, Zenon
<1>18. /\ ctx' \in [Contexts -> CtxRecs] /\ ctx'[t] = r
       /\ \A y \in Contexts \ {t} : Alike(ctx[y], ctx'[y])
       /\ \A u \in Threads : Sleeps(ctx'[u], ticks')
  BY <1>1, <1>2, <1>16, <1>17, UpdateContext, Zenon
<1>19. CpuTypeOK' /\ CpuNeverPanics' /\ cpu'[h] = f /\ Apart(h)
  BY <1>1, <1>2, <1>12, <1>13, <1>14, <1>18, CpuParts, Zenon DEF CpuTypeOK,
         CpuNeverPanics, Apart
<1>20. Nests(h, f, r, spin)
  <2>1. spin["tickslock"] # h /\ spin["vdisk_lock"] # h
    BY <1>2, <1>3, Zenon DEF Nests
  <2>2. f.noff # 1 /\ f.proc # NoThread
    BY <1>12, CpuAssumption
  <2>3. r.pc \notin {"sleep_locked", "io_locked"}
    BY <1>16, Zenon DEF InTicks, InDisk
  <2> QED
    BY <1>12, <1>16, <2>1, <2>2, <2>3, Zenon DEF Nests
<1> QED
  BY <1>1, <1>2, <1>12, <1>18, <1>19, <1>20, Resumes, Zenon

(* scheduler(): an iteration of its loop, whether the process is RUNNABLE  *)
(* or not.                                                                 *)
LEMMA SchedulerInv ==
  ASSUME CpuInv, NEW h \in Harts, scheduler(h), scan[h] \in 1 .. Len(Table) + 1
  PROVE  CpuInv'
<1>1. /\ cpu[h].proc = NoThread /\ ctx[h].trap = "none" /\ UNCHANGED <<spin, ticks>>
      /\ cpuPanic' = PopPanics(push_off(cpu[h])) /\ scan[h] <= Len(Table)
  BY Zenon DEF scheduler
<1>2. PICK t \in Threads : t = Table[scan[h]]
  BY <1>1, CpuAssumption
<1>3. Running(h) = h /\ ctx \in [Contexts -> CtxRecs] /\ h \in Contexts
      /\ Nests(h, cpu[h], ctx[h], spin) /\ cpu[h] \in CpuRecs /\ cpu \in [Harts -> CpuRecs]
  BY <1>1, CpuParts, Zenon DEF Contexts, CpuTypeOK, Running
<1>4. cpu[h].noff = 0 /\ ~InTicks(ctx[h]) /\ ~InDisk(ctx[h])
  BY <1>1, <1>3, Zenon DEF Nests, InTicks, InDisk
<1>5. PICK d \in CpuRecs : d = push_off(cpu[h])
  BY <1>3, PushOff, Zenon
<1>6. d.noff = 1 /\ ~d.sie /\ d.proc = NoThread /\ (d.intena <=> cpu[h].sie)
  BY <1>1, <1>3, <1>4, <1>5, PushOff
<1>7. ~cpuPanic'
  <2>1. ~(d.noff < 1)
    BY <1>6
  <2> QED
    BY <1>1, <1>5, <1>6, <2>1, Zenon DEF PopPanics
<1>8. CASE Ready(t)
  <2>1. dispatch(h, t)
    BY <1>2, <1>8, Zenon DEF scheduler
  <2> QED
    BY <1>1, <1>7, <1>8, <2>1, DispatchInv, Zenon
<1>9. CASE ~Ready(t)
  <2>1. PICK e : e = pop_off(d)
    BY Zenon
  <2>2. e \in CpuRecs /\ e.noff = 0 /\ (e.sie <=> cpu[h].sie) /\ e.proc = NoThread
    BY <1>6, <2>1, PopOff
  <2>3. cpu' = [cpu EXCEPT ![h] = e] /\ ctx' = ctx
    BY <1>2, <1>5, <1>9, <2>1, Zenon DEF scheduler
  <2>4. cpu'[h] = e /\ CpuTypeOK' /\ CpuNeverPanics' /\ Apart(h)
    BY <1>1, <1>7, <2>2, <2>3, CpuParts, Zenon DEF CpuTypeOK, CpuNeverPanics, Apart
  <2>5. Nests(h, e, ctx[h], spin)
    <3>1. e.noff # 1
      BY <2>2
    <3> QED
      BY <1>1, <1>3, <1>4, <2>2, <3>1, Zenon DEF Nests
  <2>6. \A y \in Contexts \ {Running(h)} : Alike(ctx[y], ctx'[y])
    BY <2>3, Zenon DEF Alike
  <2> QED
    BY <1>1, <1>3, <2>2, <2>3, <2>4, <2>5, <2>6, Stays, Zenon
<1> QED
  BY <1>8, <1>9, Zenon

(* kill() wakes a sleeper and moves no context.                            *)
LEMMA KillInv ==
  ASSUME CpuInv, NEW t \in Threads, cpu_kill(t)
  PROVE  CpuInv'
<1>1. t \in Contexts /\ ctx[t] \in CtxRecs /\ ctx \in [Contexts -> CtxRecs] /\ Sleeps(ctx[t], ticks)
      /\ t \notin Harts /\ ctx[t].pc \in {"asleep", "woken", "sleep"}
  BY CpuAssumption, CpuParts, Zenon DEF Contexts, CpuTypeOK, cpu_kill
<1>2. PICK at \in {"woken", "sleep"} : at = IF ctx[t].pc = "asleep" THEN "woken" ELSE ctx[t].pc
  BY <1>1, Zenon
<1>3. PICK r : r = [ctx[t] EXCEPT !.killed = TRUE, !.pc = at]
  BY Zenon
<1>4. r \in CtxRecs /\ r.trap = ctx[t].trap /\ r.pc = at /\ r.intena = ctx[t].intena
      /\ r.slept = ctx[t].slept /\ r.n = ctx[t].n /\ r.ticks0 = ctx[t].ticks0
  BY <1>1, <1>2, <1>3, Zenon DEF CtxRecs
<1>5. ctx' = [ctx EXCEPT ![t] = r] /\ UNCHANGED <<cpu, spin, ticks, cpuPanic>>
  BY <1>1, <1>2, <1>3, Zenon DEF cpu_kill
<1>6. Sleeps(r, ticks)
  BY <1>1, <1>2, <1>4, Zenon DEF Sleeps
<1>7. /\ ctx' \in [Contexts -> CtxRecs] /\ ctx'[t] = r
      /\ \A y \in Contexts \ {t} : ctx[y] = ctx'[y]
      /\ \A u \in Threads : Sleeps(ctx'[u], ticks')
  BY <1>1, <1>4, <1>5, <1>6, CpuParts, Zenon DEF CpuTypeOK, Contexts
<1>8. CpuTypeOK' /\ CpuNeverPanics'
  BY <1>5, <1>7, CpuParts, Zenon DEF CpuTypeOK, CpuNeverPanics
<1>9. ASSUME NEW h \in Harts PROVE Nests(h, cpu[h], ctx'[Running(h)], spin)
  <2>1. Running(h) \in Contexts /\ Nests(h, cpu[h], ctx[Running(h)], spin)
        /\ (Running(h) \in Threads <=> cpu[h].proc # NoThread)
    BY RunningContext, Zenon DEF CpuInv
  <2>2. CASE Running(h) = t
    BY <1>1, <1>2, <1>4, <1>7, <2>1, <2>2, Zenon DEF Nests, InTicks, InDisk
  <2>3. CASE Running(h) # t
    BY <1>7, <2>1, <2>3, Zenon
  <2> QED
    BY <2>2, <2>3, Zenon
<1>10. \A u \in Threads : Away(u) => SwitchedOut(ctx'[u])
  BY <1>1, <1>2, <1>4, <1>7, CpuParts DEF SwitchedOut, InTicks, InDisk,
         Contexts
<1>11. \A h \in Harts : ctx'[h] = ctx[h] /\ Running(h)' = Running(h)
  BY <1>1, <1>5, <1>7, Zenon DEF Contexts, Running
<1>12. \A u \in Threads : Away(u)' <=> Away(u)
  BY <1>5, Zenon DEF Away
<1> QED
  BY <1>5, <1>7, <1>8, <1>9, <1>10, <1>11, <1>12 DEF CpuInv

-----------------------------------------------------------------------------
(* CpuInv is inductive, whatever system calls the threads make, with the   *)
(* bounds of the scheduler's loop.                                         *)
THEOREM CpuInvariance ==
  ASSUME NEW calls \in [Threads -> Seq(SysCalls)]
  PROVE  CpuInit(calls) /\ [][CpuNext]_cpuVars => [](CpuInv /\ InTable)
<1>1. CpuInit(calls) => CpuInv /\ InTable
  <2> SUFFICES ASSUME CpuInit(calls) PROVE CpuInv /\ InTable
    BY Zenon
  <2> USE CpuAssumption DEF CpuInit
  <2>1. cpu \in [Harts -> CpuRecs] /\ \A h \in Harts : cpu[h].noff = 0 /\ ~cpu[h].sie
                                                       /\ cpu[h].proc = NoThread
    BY Zenon DEF CpuRecs
  <2>2. \A x \in Contexts :
          /\ ctx[x].pc = (IF x \in Harts THEN "scheduler" ELSE "forkret") /\ ctx[x].trap = "none"
          /\ ctx[x] \in CtxRecs
    <3> TAKE x \in Contexts
    <3>1. PICK at \in {"scheduler", "forkret"} : at = IF x \in Harts THEN "scheduler" ELSE "forkret"
      BY Zenon
    <3>2. PICK cs \in Seq(SysCalls) : cs = IF x \in Harts THEN <<>> ELSE calls[x]
      <4>1. <<>> \in Seq(SysCalls)
        OBVIOUS
      <4> QED
        BY <4>1, Zenon DEF Contexts
    <3>3. ctx[x] = [pc |-> at, trap |-> "none", intena |-> FALSE, calls |-> cs,
                    n |-> 0, ticks0 |-> 0, slept |-> 0, killed |-> FALSE]
      BY <3>1, <3>2, Zenon
    <3>4. 0 \in 0 .. TICKS - 1 /\ 0 \in Nat
      OBVIOUS
    <3> QED
      BY <3>1, <3>2, <3>3, <3>4, Zenon DEF CtxRecs
  <2>3. CpuTypeOK /\ CpuNeverPanics
    <3>1. ctx \in [Contexts -> CtxRecs]
      BY <2>2, Zenon
    <3>2. spin \in [Locks -> Harts \cup {NoHart}] /\ ticks \in 0 .. TICKS - 1 /\ ~cpuPanic
      OBVIOUS
    <3> QED
      BY <2>1, <3>1, <3>2, Zenon DEF CpuTypeOK, CpuNeverPanics
  <2>4. \A h \in Harts : Running(h) = h /\ h \in Contexts
    BY <2>1, Zenon DEF Running, Contexts
  <2>5. \A h \in Harts : Nests(h, cpu[h], ctx[Running(h)], spin)
    BY <2>1, <2>2, <2>4 DEF Nests, InTicks, InDisk, Locks
  <2>6. \A t \in Threads : t \in Contexts /\ t \notin Harts
    BY Zenon DEF Contexts
  <2>7. \A t \in Threads : SwitchedOut(ctx[t]) /\ Sleeps(ctx[t], ticks)
    BY <2>2, <2>6, Zenon DEF SwitchedOut, Sleeps, InTicks, InDisk
  <2>8. InTable
    <3>1. Len(Table) + 1 \in 1 .. Len(Table) + 1
      OBVIOUS
    <3> QED
      BY <3>1, Zenon DEF InTable
  <2> QED
    BY <2>1, <2>3, <2>5, <2>7, <2>8, Zenon DEF CpuInv
<1>2. CpuInv /\ InTable /\ [CpuNext]_cpuVars => CpuInv'
  <2> SUFFICES ASSUME CpuInv, InTable, [CpuNext]_cpuVars PROVE CpuInv'
    BY Zenon
  <2>1. CASE UNCHANGED cpuVars
    BY <2>1, Zenon DEF cpuVars, CpuInv, CpuTypeOK, CpuNeverPanics, Running, Away
  <2>2. CASE \E h \in Harts : scheduler(h) \/ sched_pass(h)
    BY <2>2, SchedulerInv, SchedPassInv, Zenon DEF InTable
  <2>3. CASE \E h \in Harts :
          \/ \E cause \in {"timer", "device"} : interrupt(h, cause)
          \/ ecall(h) \/ usertrapret(h) \/ sys_io(h) \/ sleep_start(h) \/ sleep_check(h)
          \/ sleep_end(h) \/ dev_handler(h) \/ clockintr(h) \/ yield(h) \/ trap_return(h)
    BY <2>3, InterruptInv, EcallInv, UsertrapretInv, SysIoInv, SleepStartInv, SleepCheckInv,
       SleepEndInv, DevHandlerInv, ClockintrInv, YieldInv, TrapReturnInv, Zenon
  <2>4. CASE \E t \in Threads : cpu_kill(t)
    BY <2>4, KillInv, Zenon
  <2> QED
    BY <2>1, <2>2, <2>3, <2>4, Zenon DEF CpuNext
<1>3. InTable /\ [CpuNext]_cpuVars => InTable'
  <2> SUFFICES ASSUME InTable, [CpuNext]_cpuVars PROVE InTable'
    BY Zenon
  <2>1. Len(Table) \in Nat /\ 1 \in 1 .. Len(Table) + 1
    BY CpuAssumption
  <2>2. CASE UNCHANGED scan
    BY <2>2, Zenon DEF InTable
  <2>3. ASSUME NEW h \in Harts, scheduler(h) PROVE InTable'
    <3>1. scan[h] \in 1 .. Len(Table) + 1 /\ scan[h] <= Len(Table)
      BY <2>3, Zenon DEF InTable, scheduler
    <3>2. scan[h] + 1 \in 1 .. Len(Table) + 1
      BY <2>1, <3>1
    <3> QED
      BY <2>3, <3>2, Zenon DEF InTable, scheduler
  <2>4. ASSUME NEW h \in Harts, sched_pass(h) PROVE InTable'
    BY <2>1, <2>4, Zenon DEF InTable, sched_pass
  <2> QED
    BY <2>2, <2>3, <2>4, Zenon DEF CpuNext, cpuVars
<1> QED
  BY <1>1, <1>2, <1>3, PTL

(* The locks of a hart are none, or the one that noff counts.              *)
LEMMA HeldLocks ==
  ASSUME CpuInv, InTable
  PROVE  LocksExact
<1> SUFFICES ASSUME NEW h \in Harts
             PROVE  /\ cpu[h].noff = Count(h, "tickslock") + Count(h, "vdisk_lock")
                    /\ cpu[h].sie => Held(h) = {} /\ ctx[Running(h)].trap = "none"
                    /\ /\ cpu[h].proc # NoThread /\ ctx[Running(h)].pc # "forked"
                       /\ Held(h) = {} /\ ctx[Running(h)].trap = "none"
                       => cpu[h].sie
  BY CpuParts, Zenon DEF LocksExact, IntrExact
<1>1. Nests(h, cpu[h], ctx[Running(h)], spin)
  BY Zenon DEF CpuInv
<1>2. CASE InTicks(ctx[Running(h)])
  <2>1. Held(h) = {"tickslock"} /\ cpu[h].noff = 1
    BY <1>1, <1>2, Zenon DEF Held, Locks, Nests, InTicks, InDisk
  <2>2. Count(h, "tickslock") + Count(h, "vdisk_lock") = 1 /\ Held(h) # {}
    BY <2>1 DEF Count
  <2>3. ~cpu[h].sie
    BY <1>1, <2>1 DEF Nests
  <2> QED
    BY <2>1, <2>2, <2>3, Zenon
<1>3. CASE ~InTicks(ctx[Running(h)]) /\ InDisk(ctx[Running(h)])
  <2>1. Held(h) = {"vdisk_lock"} /\ cpu[h].noff = 1
    BY <1>1, <1>3, Zenon DEF Held, Locks, Nests
  <2>2. Count(h, "tickslock") + Count(h, "vdisk_lock") = 1 /\ Held(h) # {}
    BY <2>1 DEF Count
  <2>3. ~cpu[h].sie
    BY <1>1, <2>1 DEF Nests
  <2> QED
    BY <2>1, <2>2, <2>3, Zenon
<1>4. CASE ~InTicks(ctx[Running(h)]) /\ ~InDisk(ctx[Running(h)])
  <2>1. Held(h) = {} /\ cpu[h].noff = 0
    BY <1>1, <1>4, Zenon DEF Held, Locks, Nests
  <2>2. cpu[h].proc # NoThread /\ ctx[Running(h)].pc # "forked" /\ ctx[Running(h)].trap = "none" => cpu[h].sie
    BY <1>1, <2>1, Zenon DEF Nests
  <2> QED
    BY <1>1, <2>1, <2>2 DEF Nests, Count
<1> QED
  BY <1>2, <1>3, <1>4, Zenon

(* push_off(), pop_off(), sched(), kerneltrap(): on any number of harts,   *)
(* nothing panics, noff counts the hart's locks and a thread that has been *)
(* in user space runs with interrupts on exactly outside of critical       *)
(* sections and traps, wherever it was interrupted, switched out and       *)
(* resumed, whatever the scheduler left in the enable bit.                 *)
THEOREM LocksNest ==
  ASSUME NEW calls \in [Threads -> Seq(SysCalls)]
  PROVE  CpuInit(calls) /\ [][CpuNext]_cpuVars => []LocksExact
  BY CpuInvariance, HeldLocks, PTL

(* sys_sleep() and clockintr(): for any width of ticks, sleep(n) returns 0 *)
(* only after n ticks, and a process still asleep has ticks to wait for.   *)
THEOREM SleepLasts ==
  ASSUME NEW calls \in [Threads -> Seq(SysCalls)]
  PROVE  CpuInit(calls) /\ [][CpuNext]_cpuVars => []SleepsExact
<1>1. CpuInv => SleepsExact
  BY CpuParts, Zenon DEF Sleeps, SleepsExact, SleptEnough, TickSleepers
<1> QED
  BY <1>1, CpuInvariance, PTL
=============================================================================
