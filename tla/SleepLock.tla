------------------------------ MODULE SleepLock ------------------------------
(***************************************************************************)
(* One sleep lock (kernel/sleeplock.c) used by NPROC processes, down to    *)
(* the spinlocks: acquiresleep() and releasesleep() with lk->lk, and       *)
(* sleep() and wakeup() (kernel/proc.c) with every p->lock.  Each acquire, *)
(* release and critical section is a step, so every order in which a       *)
(* sleeper and a waker can take the two locks is a behaviour.              *)
(*                                                                         *)
(* A process that is RUNNING makes a step whenever the scheduler gives it  *)
(* a CPU; that choice is the interleaving.  chan is this lock exactly when *)
(* the process is between "sleep_set" and its return from sched().         *)
(***************************************************************************)
EXTENDS Naturals

CONSTANTS NPROC,     \* number of processes
          Free       \* the holder of a free spinlock

Procs == 1 .. NPROC

ASSUME SleepLockConstants == NPROC \in Nat \ {0} /\ Free \notin Procs

VARIABLES locked, pid,   \* the fields of struct sleeplock (pid: a process)
          lk,            \* holder of the spinlock lk->lk
          plock,         \* plock[p]: holder of p->lock
          state,         \* state[p]: p->state
          pc, idx        \* idx[p]: the loop variable of wakeup()

vars == <<locked, pid, lk, plock, state, pc, idx>>

States == {"RUNNABLE", "RUNNING", "SLEEPING"}

Labels == {"outside", "enter", "test", "sleep_lock", "sleep_unlk", "sleep_set",
           "sched", "holds", "leave", "wake_lock", "wake_set"}

(* struct sleeplock: its fields, the states of the processes and the       *)
(* spinlocks keep their types.                                             *)
TypeOK ==
  /\ locked \in BOOLEAN
  /\ pid \in Procs \cup {Free}
  /\ lk \in Procs \cup {Free}
  /\ plock \in [Procs -> Procs \cup {Free}]
  /\ state \in [Procs -> States]
  /\ pc \in [Procs -> Labels]
  /\ idx \in [Procs -> 1 .. NPROC + 1]

Init ==
  /\ locked = FALSE
  /\ pid = Free
  /\ lk = Free
  /\ plock = [p \in Procs |-> Free]
  /\ state = [p \in Procs |-> "RUNNING"]
  /\ pc = [p \in Procs |-> "outside"]
  /\ idx = [p \in Procs |-> 1]

-----------------------------------------------------------------------------
At(p, l) == pc[p] = l /\ state[p] = "RUNNING"
Goto(p, l) == pc' = [pc EXCEPT ![p] = l]

(* acquiresleep() ...                                                      *)
Call(p) ==
  /\ At(p, "outside")
  /\ Goto(p, "enter")
  /\ UNCHANGED <<locked, pid, lk, plock, state, idx>>

(* ... acquire(&lk->lk), also at the end of sleep() ...                    *)
Enter(p) ==
  /\ At(p, "enter") /\ lk = Free
  /\ lk' = p
  /\ Goto(p, "test")
  /\ UNCHANGED <<locked, pid, plock, state, idx>>

(* Variants: a woken process does not test the lock again; the holder is   *)
(* not recorded.                                                           *)
TakeUntested(p) ==
  /\ At(p, "test")
  /\ locked' = TRUE
  /\ pid' = p
  /\ lk' = Free
  /\ Goto(p, "holds")
  /\ UNCHANGED <<plock, state, idx>>

TakeAnonymous(p) ==
  /\ At(p, "test") /\ ~locked
  /\ locked' = TRUE
  /\ lk' = Free
  /\ Goto(p, "holds")
  /\ UNCHANGED <<pid, plock, state, idx>>

(* ... and the loop: take the lock and release lk->lk, or sleep.           *)
Take(p) ==
  /\ At(p, "test") /\ ~locked
  /\ locked' = TRUE
  /\ pid' = p
  /\ lk' = Free
  /\ Goto(p, "holds")
  /\ UNCHANGED <<plock, state, idx>>

(* Variant: lk->lk is released before sleep() takes p->lock.               *)
BusyReleases(p) ==
  /\ At(p, "test") /\ locked
  /\ lk' = Free
  /\ Goto(p, "sleep_lock")
  /\ UNCHANGED <<locked, pid, plock, state, idx>>

Busy(p) ==
  /\ At(p, "test") /\ locked
  /\ Goto(p, "sleep_lock")
  /\ UNCHANGED <<locked, pid, lk, plock, state, idx>>

(* sleep(lk, &lk->lk): acquire(&p->lock), release(lk), then SLEEPING.      *)
SleepLockSelf(p) ==
  /\ At(p, "sleep_lock") /\ plock[p] = Free
  /\ plock' = [plock EXCEPT ![p] = p]
  /\ Goto(p, "sleep_unlk")
  /\ UNCHANGED <<locked, pid, lk, state, idx>>

(* Variant: sleep() gives up p->lock together with lk->lk.                 *)
SleepUnlockBoth(p) ==
  /\ At(p, "sleep_unlk")
  /\ lk' = Free
  /\ plock' = [plock EXCEPT ![p] = Free]
  /\ Goto(p, "sleep_set")
  /\ UNCHANGED <<locked, pid, state, idx>>

SleepUnlock(p) ==
  /\ At(p, "sleep_unlk")
  /\ lk' = Free
  /\ Goto(p, "sleep_set")
  /\ UNCHANGED <<locked, pid, plock, state, idx>>

(* p->chan = lk, p->state = SLEEPING, sched(); the scheduler releases      *)
(* p->lock.                                                                *)
SleepSet(p) ==
  /\ At(p, "sleep_set")
  /\ state' = [state EXCEPT ![p] = "SLEEPING"]
  /\ plock' = [plock EXCEPT ![p] = Free]
  /\ Goto(p, "sched")
  /\ UNCHANGED <<locked, pid, lk, idx>>

(* The scheduler finds p RUNNABLE under p->lock; back in sleep(), p clears *)
(* chan and releases p->lock.                                              *)
Dispatch(p) ==
  /\ state[p] = "RUNNABLE" /\ plock[p] = Free
  /\ state' = [state EXCEPT ![p] = "RUNNING"]
  /\ Goto(p, "enter")
  /\ UNCHANGED <<locked, pid, lk, plock, idx>>

(* kill() makes a sleeping p RUNNABLE, under p->lock.                      *)
Kill(p) ==
  /\ state[p] = "SLEEPING" /\ plock[p] = Free
  /\ state' = [state EXCEPT ![p] = "RUNNABLE"]
  /\ UNCHANGED <<locked, pid, lk, plock, pc, idx>>

(* releasesleep(): acquire(&lk->lk) and clear the fields ...               *)
Leave(p) ==
  /\ At(p, "holds")
  /\ Goto(p, "leave")
  /\ UNCHANGED <<locked, pid, lk, plock, state, idx>>

Clear(p) ==
  /\ At(p, "leave") /\ lk = Free
  /\ lk' = p
  /\ locked' = FALSE
  /\ pid' = Free
  /\ Goto(p, "wake_lock")
  /\ UNCHANGED <<plock, state, idx>>

(* ... wakeup(lk): for every q, acquire(&q->lock) and look at it ...       *)
WakeLock(p) ==
  /\ At(p, "wake_lock") /\ idx[p] <= NPROC /\ plock[idx[p]] = Free
  /\ plock' = [plock EXCEPT ![idx[p]] = p]
  /\ Goto(p, "wake_set")
  /\ UNCHANGED <<locked, pid, lk, state, idx>>

(* Variant: wakeup() passes over the sleepers.                             *)
WakeSetNobody(p) ==
  /\ At(p, "wake_set")
  /\ plock' = [plock EXCEPT ![idx[p]] = Free]
  /\ idx' = [idx EXCEPT ![p] = @ + 1]
  /\ Goto(p, "wake_lock")
  /\ UNCHANGED <<locked, pid, lk, state>>

WakeSet(p) ==
  /\ At(p, "wake_set")
  /\ state' = [state EXCEPT ![idx[p]] = IF @ = "SLEEPING" THEN "RUNNABLE" ELSE @]
  /\ plock' = [plock EXCEPT ![idx[p]] = Free]
  /\ idx' = [idx EXCEPT ![p] = @ + 1]
  /\ Goto(p, "wake_lock")
  /\ UNCHANGED <<locked, pid, lk>>

(* ... release(&lk->lk).                                                   *)
Unlock(p) ==
  /\ At(p, "wake_lock") /\ idx[p] = NPROC + 1
  /\ lk' = Free
  /\ idx' = [idx EXCEPT ![p] = 1]
  /\ Goto(p, "outside")
  /\ UNCHANGED <<locked, pid, plock, state>>

-----------------------------------------------------------------------------
(* A call of acquiresleep() or releasesleep() once it is under way.        *)
Acquires(p) == \/ Enter(p) \/ Take(p) \/ Busy(p) \/ SleepLockSelf(p)
               \/ SleepUnlock(p) \/ SleepSet(p) \/ Dispatch(p)
Releases(p) == Clear(p) \/ WakeLock(p) \/ WakeSet(p) \/ Unlock(p)

Next == \E p \in Procs : Call(p) \/ Acquires(p) \/ Kill(p) \/ Leave(p) \/ Releases(p)

Spec == Init /\ [][Next]_vars

(* The scheduler runs every thread that can run, a holder gives the lock   *)
(* back, and the spinlock lk->lk, when it is free again and again (kill()  *)
(* may wake the sleepers for ever), is acquired by releasesleep() in the   *)
(* end.  Nothing is assumed about which waiter wins.                       *)
FairSpec == Spec /\ \A p \in Procs : /\ WF_vars(Acquires(p))
                                     /\ SF_vars(Releases(p))
                                     /\ WF_vars(Leave(p))

-----------------------------------------------------------------------------
(* Properties.                                                             *)

Holds(p) == pc[p] \in {"holds", "leave"}

(* acquiresleep(): at most one process is between acquiresleep() and       *)
(* releasesleep(), and lk->locked and lk->pid name it, so holdingsleep()   *)
(* answers correctly.                                                      *)
Exclusive ==
  \A p \in Procs : Holds(p) =>
    /\ locked /\ pid = p
    /\ \A q \in Procs : Holds(q) => q = p

(* sleep(), wakeup(): "Once we hold p->lock, we can be guaranteed that we  *)
(* won't miss any wakeup": a process that sleeps on a free lock is still   *)
(* ahead of the wakeup() loop of a releasesleep() under way.               *)
NoLostWakeup ==
  \A p \in Procs : state[p] = "SLEEPING" /\ ~locked =>
    \E q \in Procs : /\ pc[q] \in {"wake_lock", "wake_set"}
                     /\ idx[q] <= p

(* The abstract lock.                                                      *)
wantsBar == {p \in Procs : pc[p] \in {"enter", "test", "sleep_lock", "sleep_unlk",
                                      "sleep_set", "sched"}}
holderBar == IF locked THEN pid ELSE Free

(* releasesleep(): a free lock that somebody wants is taken by somebody;   *)
(* no waiter stays asleep beside it.                                       *)
SomebodyGetsIt == (~locked /\ wantsBar # {}) ~> locked

M == INSTANCE Mutex WITH wants <- wantsBar, holder <- holderBar

(* acquiresleep() and releasesleep() implement the abstract lock.          *)
IsMutex == M!Spec

-----------------------------------------------------------------------------
(* The conjuncts of the inductive invariant IInv.                          *)

LkHolders == {"test", "sleep_lock", "sleep_unlk", "wake_lock", "wake_set"}

(* Who holds which lock, by where a process is.                            *)
LockInv ==
  /\ locked => pid \in Procs /\ Holds(pid)
  /\ \A p \in Procs :
       /\ pc[p] \in LkHolders <=> lk = p
       /\ pc[p] \in {"sleep_lock", "sleep_unlk"} => locked
       /\ pc[p] \in {"sleep_unlk", "sleep_set"} => plock[p] = p
       /\ pc[p] = "wake_set" => idx[p] \in Procs /\ plock[idx[p]] = p
       /\ pc[p] \in {"wake_lock", "wake_set"} => ~locked
       /\ pc[p] \notin {"wake_lock", "wake_set"} => idx[p] = 1
       /\ pc[p] = "sched" <=> state[p] # "RUNNING"

(* A wakeup() loop under way will still look at slot p.                    *)
WakeAhead(p) == \E q \in Procs : pc[q] \in {"wake_lock", "wake_set"} /\ idx[q] <= p

(* A process that is committed to sleep, though it is not SLEEPING yet.    *)
WakeInv ==
  \A p \in Procs :
    (state[p] = "SLEEPING" \/ pc[p] = "sleep_set") /\ ~locked => WakeAhead(p)

(* The inductive invariant: it implies NoLostWakeup, and has Exclusive as  *)
(* a conjunct.                                                             *)
IInv == TypeOK /\ Exclusive /\ LockInv /\ WakeInv
=============================================================================
