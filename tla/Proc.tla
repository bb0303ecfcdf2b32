-------------------------------- MODULE Proc --------------------------------
(***************************************************************************)
(* The process table of kernel/proc.c: fork, exit, wait, kill, sleep,      *)
(* wakeup and the per-CPU scheduler, run by several CPUs over one table.   *)
(*                                                                         *)
(* A step is what a CPU does between two points where another CPU can      *)
(* interfere: the acquisition of a p->lock, or an access to p->parent that *)
(* the code makes without the lock.  A critical section that holds only    *)
(* one p->lock and acquires nothing more is a single step, guarded by that *)
(* lock being free.  lock[q] is the CPU recorded in proc[q].lock.cpu, kept *)
(* only across steps.                                                      *)
(***************************************************************************)
EXTENDS Naturals

CONSTANTS NPROC,       \* size of the process table
          CPUs,        \* the harts
          NoCPU,       \* not a CPU: the holder of a free lock
          MaxPid,      \* bound: the last pid allocpid() hands out
          KillPids,    \* the arguments processes pass to kill()
          Blocking,    \* slots whose processes sleep on a device channel
          AllocFails   \* whether kalloc() may return 0 in fork()

Procs == 1 .. NPROC
initproc == 1
NoProc == 0                 \* a null struct proc *, and a null channel
DevChan == NPROC + 1        \* a channel that is not a process

ASSUME ProcConstants ==
  /\ NPROC \in Nat \ {0}
  /\ NoCPU \notin CPUs
  /\ MaxPid \in Nat \ {0}
  /\ KillPids \subseteq Nat \ {1}   \* nobody kills init
  /\ Blocking \subseteq Procs
  /\ AllocFails \in BOOLEAN

VARIABLES state, parent, chan, killed, pid,   \* fields of struct proc
          lock,       \* lock[p]: the CPU that holds proc[p].lock, or NoCPU
          cpu,        \* cpu[c]: c->proc
          nextpid,
          pc,         \* where the kernel thread of slot p is
          idx,        \* the loop variable np of wait(), pp of reparent()
          havekids,   \* the local of wait()
          oparent     \* original_parent, the local of exit()

fields == <<state, parent, chan, killed, pid>>
locals == <<idx, havekids, oparent>>
vars == <<fields, lock, cpu, nextpid, pc, locals>>

States == {"UNUSED", "SLEEPING", "RUNNABLE", "RUNNING", "ZOMBIE"}

Labels == {"user",                               \* user mode, no lock held
           "dev_sleep",                          \* in sleep() on DevChan
           "wait_scan", "wait_lock", "wait_sleep",
           "exit_wakeinit", "exit_parent", "exit_lockparent", "exit_lockself",
           "exit_reparent", "exit_give", "exit_zombie", "exit_sched",
           "none"}                               \* no kernel thread

(* struct proc, struct cpu: the fields of the process table, the locks and *)
(* the locals of the kernel threads keep their types.                      *)
TypeOK ==
  /\ state \in [Procs -> States]
  /\ parent \in [Procs -> Procs \cup {NoProc}]
  /\ chan \in [Procs -> Procs \cup {NoProc, DevChan}]
  /\ killed \in [Procs -> BOOLEAN]
  /\ pid \in [Procs -> Nat]
  /\ lock \in [Procs -> CPUs \cup {NoCPU}]
  /\ cpu \in [CPUs -> Procs \cup {NoProc}]
  /\ nextpid \in Nat
  /\ pc \in [Procs -> Labels]
  /\ idx \in [Procs -> 1 .. NPROC + 1]
  /\ havekids \in [Procs -> BOOLEAN]
  /\ oparent \in [Procs -> Procs \cup {NoProc}]

(* userinit() has made the first process, in the first slot; no CPU has    *)
(* entered the scheduler loop yet.                                         *)
Init ==
  /\ state = [p \in Procs |-> IF p = initproc THEN "RUNNABLE" ELSE "UNUSED"]
  /\ parent = [p \in Procs |-> NoProc]
  /\ chan = [p \in Procs |-> NoProc]
  /\ killed = [p \in Procs |-> FALSE]
  /\ pid = [p \in Procs |-> IF p = initproc THEN 1 ELSE 0]
  /\ lock = [p \in Procs |-> NoCPU]
  /\ cpu = [c \in CPUs |-> NoProc]
  /\ nextpid = 2
  /\ pc = [p \in Procs |-> IF p = initproc THEN "user" ELSE "none"]
  /\ idx = [p \in Procs |-> 1]
  /\ havekids = [p \in Procs |-> FALSE]
  /\ oparent = [p \in Procs |-> NoProc]

-----------------------------------------------------------------------------
(* Helpers.                                                                *)

At(c, p, l) == cpu[c] = p /\ pc[p] = l
Goto(p, l) == pc' = [pc EXCEPT ![p] = l]
Unlocked(q) == lock[q] = NoCPU

(* Locals that are dead, because the call is over or the scan starts anew, *)
(* have their initial values.                                              *)
ScanReset(p) == /\ idx' = [idx EXCEPT ![p] = 1]
                /\ havekids' = [havekids EXCEPT ![p] = FALSE]

(* freeproc(np): every field of the slot that another process can see.     *)
freeproc(np) ==
  /\ pid' = [pid EXCEPT ![np] = 0]
  /\ parent' = [parent EXCEPT ![np] = NoProc]
  /\ chan' = [chan EXCEPT ![np] = NoProc]
  /\ killed' = [killed EXCEPT ![np] = FALSE]
  /\ state' = [state EXCEPT ![np] = "UNUSED"]

(* Variant: the test that q sleeps on itself compares with init.           *)
wakeup1Init(q) == [state EXCEPT ![q] =
                     IF chan[q] = initproc /\ @ = "SLEEPING" THEN "RUNNABLE" ELSE @]

(* wakeup1(q), under q->lock: only a q that sleeps on itself, in wait().   *)
wakeup1(q) == [state EXCEPT ![q] =
                 IF chan[q] = q /\ @ = "SLEEPING" THEN "RUNNABLE" ELSE @]

-----------------------------------------------------------------------------
(* fork().  allocproc() takes some UNUSED slot under its lock and keeps    *)
(* the lock to the end of fork(), so each outcome is one step.  Finding no *)
(* slot changes nothing.  killed is not among the fields it sets.          *)

allocproc(c, p, np) ==
  /\ At(c, p, "user") /\ ~killed[p]
  /\ state[np] = "UNUSED" /\ Unlocked(np)
  /\ nextpid <= MaxPid
  /\ nextpid' = nextpid + 1

Fork(c, p, np) ==
  /\ allocproc(c, p, np)
  /\ pid' = [pid EXCEPT ![np] = nextpid]
  /\ parent' = [parent EXCEPT ![np] = p]
  /\ state' = [state EXCEPT ![np] = "RUNNABLE"]
  /\ Goto(np, "user")
  /\ UNCHANGED <<chan, killed, lock, cpu, locals>>

(* No page for the trapframe: the slot stays UNUSED but keeps its new pid. *)
ForkNoTrapframe(c, p, np) ==
  /\ AllocFails
  /\ allocproc(c, p, np)
  /\ pid' = [pid EXCEPT ![np] = nextpid]
  /\ UNCHANGED <<state, parent, chan, killed, lock, cpu, pc, locals>>

(* No page for the page table, in allocproc() or uvmcopy().                *)
ForkNoPagetable(c, p, np) ==
  /\ AllocFails
  /\ allocproc(c, p, np)
  /\ freeproc(np)
  /\ UNCHANGED <<lock, cpu, pc, locals>>

-----------------------------------------------------------------------------
(* Variant: kill() leaves a sleeper asleep.                                *)
KillAsleep(c, p, t, q) ==
  /\ At(c, p, "user") /\ ~killed[p]
  /\ t \in KillPids /\ pid[q] = t /\ Unlocked(q)
  /\ killed' = [killed EXCEPT ![q] = TRUE]
  /\ UNCHANGED <<state, parent, chan, pid, lock, cpu, nextpid, pc, locals>>

(* kill(t): a slot whose pid is t, under its lock.  Only free slots share  *)
(* a pid, 0, and which of them the scan meets depends on the other CPUs.   *)
Kill(c, p, t, q) ==
  /\ At(c, p, "user") /\ ~killed[p]
  /\ t \in KillPids /\ pid[q] = t /\ Unlocked(q)
  /\ killed' = [killed EXCEPT ![q] = TRUE]
  /\ state' = [state EXCEPT ![q] = IF @ = "SLEEPING" THEN "RUNNABLE" ELSE @]
  /\ UNCHANGED <<parent, chan, pid, lock, cpu, nextpid, pc, locals>>

(* sleep(DevChan, lk) in a device's system call.  The device's own lock is *)
(* the subject of other modules; here the wakeup may come at any time, and *)
(* a kill that comes after the caller's check of killed does not stop it.  *)
DevSleep(c, p) ==
  /\ p \in Blocking
  /\ At(c, p, "user") /\ Unlocked(p)
  /\ chan' = [chan EXCEPT ![p] = DevChan]
  /\ state' = [state EXCEPT ![p] = "SLEEPING"]
  /\ cpu' = [cpu EXCEPT ![c] = NoProc]
  /\ Goto(p, "dev_sleep")
  /\ UNCHANGED <<parent, killed, pid, lock, nextpid, locals>>

(* One iteration of wakeup(DevChan), called from an interrupt handler.     *)
DevWakeup(q) ==
  /\ Unlocked(q)
  /\ state[q] = "SLEEPING" /\ chan[q] = DevChan
  /\ state' = [state EXCEPT ![q] = "RUNNABLE"]
  /\ UNCHANGED <<parent, chan, killed, pid, lock, cpu, nextpid, pc, locals>>

-----------------------------------------------------------------------------
(* The scheduler.                                                          *)

(* An iteration of scheduler() that finds q RUNNABLE, up to the swtch().   *)
Switch(c, q) ==
  /\ cpu[c] = NoProc
  /\ Unlocked(q) /\ state[q] = "RUNNABLE"
  /\ state' = [state EXCEPT ![q] = "RUNNING"]
  /\ cpu' = [cpu EXCEPT ![c] = q]
  /\ UNCHANGED <<parent, killed, pid, nextpid, locals>>

(* The thread releases q->lock in forkret() or yield() ...                 *)
Dispatch(c, q) ==
  /\ Switch(c, q)
  /\ pc[q] \notin {"dev_sleep", "wait_sleep"}
  /\ UNCHANGED <<chan, pc, lock>>

(* ... in sleep(), called by a driver ...                                  *)
DispatchDev(c, q) ==
  /\ Switch(c, q)
  /\ pc[q] = "dev_sleep"
  /\ chan' = [chan EXCEPT ![q] = NoProc]
  /\ Goto(q, "user")
  /\ UNCHANGED lock

(* Variant: sleep() returns to wait() without the lock it was given.       *)
DispatchWaitUnlocked(c, q) ==
  /\ Switch(c, q)
  /\ pc[q] = "wait_sleep"
  /\ chan' = [chan EXCEPT ![q] = NoProc]
  /\ Goto(q, "wait_scan")
  /\ UNCHANGED lock

(* ... or, called by wait(), keeps it and scans again.                     *)
DispatchWait(c, q) ==
  /\ Switch(c, q)
  /\ pc[q] = "wait_sleep"
  /\ chan' = [chan EXCEPT ![q] = NoProc]
  /\ lock' = [lock EXCEPT ![q] = c]
  /\ Goto(q, "wait_scan")

(* yield(), from a timer interrupt in user mode or in the kernel, or from  *)
(* sys_yield: never while the thread holds a lock, nor while it spins for  *)
(* one, because acquire() turns interrupts off first.                      *)
Yield(c, p) ==
  /\ cpu[c] = p /\ Unlocked(p)
  /\ \/ pc[p] \in {"user", "exit_parent"}
     \/ pc[p] = "exit_wakeinit" /\ Unlocked(initproc)
     \/ pc[p] = "exit_lockparent" /\ Unlocked(oparent[p])
  /\ state' = [state EXCEPT ![p] = "RUNNABLE"]
  /\ cpu' = [cpu EXCEPT ![c] = NoProc]
  /\ UNCHANGED <<parent, chan, killed, pid, lock, nextpid, pc, locals>>

-----------------------------------------------------------------------------
(* wait(addr, flags).                                                      *)

Wait(c, p) ==
  /\ At(c, p, "user") /\ ~killed[p] /\ Unlocked(p)
  /\ lock' = [lock EXCEPT ![p] = c]
  /\ Goto(p, "wait_scan")
  /\ UNCHANGED <<fields, cpu, nextpid, locals>>

(* Variant: the lock of every slot in use is acquired before the check.    *)
WaitScanAny(c, p) ==
  /\ At(c, p, "wait_scan") /\ idx[p] <= NPROC
  /\ idx[p] # p /\ state[idx[p]] # "UNUSED"
  /\ Goto(p, "wait_lock")
  /\ UNCHANGED <<fields, lock, cpu, nextpid, locals>>

(* The check of np->parent, made without np->lock, finds a child or not.   *)
WaitScan(c, p) ==
  /\ At(c, p, "wait_scan") /\ idx[p] <= NPROC
  /\ parent[idx[p]] = p
  /\ Goto(p, "wait_lock")
  /\ UNCHANGED <<fields, lock, cpu, nextpid, locals>>

WaitSkip(c, p) ==
  /\ At(c, p, "wait_scan") /\ idx[p] <= NPROC
  /\ parent[idx[p]] # p
  /\ idx' = [idx EXCEPT ![p] = @ + 1]
  /\ UNCHANGED <<fields, lock, cpu, nextpid, pc, havekids, oparent>>

(* Under np->lock, a child that is not a zombie is passed over.            *)
WaitChild(c, p) ==
  /\ At(c, p, "wait_lock") /\ Unlocked(idx[p])
  /\ state[idx[p]] # "ZOMBIE"
  /\ havekids' = [havekids EXCEPT ![p] = TRUE]
  /\ idx' = [idx EXCEPT ![p] = @ + 1]
  /\ Goto(p, "wait_scan")
  /\ UNCHANGED <<fields, lock, cpu, nextpid, oparent>>

(* A zombie is freed ...                                                   *)
WaitReap(c, p) ==
  /\ At(c, p, "wait_lock") /\ Unlocked(idx[p])
  /\ state[idx[p]] = "ZOMBIE"
  /\ freeproc(idx[p])
  /\ lock' = [lock EXCEPT ![p] = NoCPU]
  /\ ScanReset(p)
  /\ Goto(p, "user")
  /\ UNCHANGED <<cpu, nextpid, oparent>>

(* ... unless copying its status to addr fails; init passes addr 0         *)
(* (user/init.c).                                                          *)
WaitCopyFails(c, p) ==
  /\ At(c, p, "wait_lock") /\ Unlocked(idx[p])
  /\ state[idx[p]] = "ZOMBIE"
  /\ p # initproc
  /\ lock' = [lock EXCEPT ![p] = NoCPU]
  /\ ScanReset(p)
  /\ Goto(p, "user")
  /\ UNCHANGED <<fields, cpu, nextpid, oparent>>

(* The argument flags: 0 blocks; the wait() of init always blocks.         *)
Flags(p) == IF p = initproc THEN {0} ELSE {0, 1}

(* No children, killed, or flags # 0 after a scan without a zombie: -1.    *)
WaitFail(c, p, flags) ==
  /\ At(c, p, "wait_scan") /\ idx[p] = NPROC + 1
  /\ ~havekids[p] \/ killed[p] \/ flags # 0
  /\ lock' = [lock EXCEPT ![p] = NoCPU]
  /\ ScanReset(p)
  /\ Goto(p, "user")
  /\ UNCHANGED <<fields, cpu, nextpid, oparent>>

(* sleep(p, &p->lock): p->lock is held from the scan until the scheduler   *)
(* releases it, with p already SLEEPING.                                   *)
WaitSleep(c, p, flags) ==
  /\ At(c, p, "wait_scan") /\ idx[p] = NPROC + 1
  /\ havekids[p] /\ ~killed[p] /\ flags = 0
  /\ chan' = [chan EXCEPT ![p] = p]
  /\ state' = [state EXCEPT ![p] = "SLEEPING"]
  /\ cpu' = [cpu EXCEPT ![c] = NoProc]
  /\ lock' = [lock EXCEPT ![p] = NoCPU]
  /\ ScanReset(p)
  /\ Goto(p, "wait_sleep")
  /\ UNCHANGED <<parent, killed, pid, nextpid, oparent>>

-----------------------------------------------------------------------------
(* exit(status), called by the program or, once killed, by usertrap().     *)
(* Closing the files is the subject of other modules.                      *)

Exit(c, p) ==
  /\ p # initproc
  /\ At(c, p, "user")
  /\ Goto(p, "exit_wakeinit")
  /\ UNCHANGED <<fields, lock, cpu, nextpid, locals>>

ExitWakeInit(c, p) ==
  /\ At(c, p, "exit_wakeinit") /\ Unlocked(initproc)
  /\ state' = wakeup1(initproc)
  /\ Goto(p, "exit_parent")
  /\ UNCHANGED <<parent, chan, killed, pid, lock, cpu, nextpid, locals>>

ExitParent(c, p) ==
  /\ At(c, p, "exit_parent") /\ Unlocked(p)
  /\ oparent' = [oparent EXCEPT ![p] = parent[p]]
  /\ Goto(p, "exit_lockparent")
  /\ UNCHANGED <<fields, lock, cpu, nextpid, idx, havekids>>

ExitLockParent(c, p) ==
  /\ At(c, p, "exit_lockparent") /\ Unlocked(oparent[p])
  /\ lock' = [lock EXCEPT ![oparent[p]] = c]
  /\ Goto(p, "exit_lockself")
  /\ UNCHANGED <<fields, cpu, nextpid, locals>>

ExitLockSelf(c, p) ==
  /\ At(c, p, "exit_lockself") /\ Unlocked(p)
  /\ lock' = [lock EXCEPT ![p] = c]
  /\ Goto(p, "exit_reparent")
  /\ UNCHANGED <<fields, cpu, nextpid, locals>>

(* reparent(p): the check of pp->parent, made without pp->lock, finds a    *)
(* child or not, until the end of the table.                               *)
ExitFound(c, p) ==
  /\ At(c, p, "exit_reparent") /\ idx[p] <= NPROC
  /\ parent[idx[p]] = p
  /\ Goto(p, "exit_give")
  /\ UNCHANGED <<fields, lock, cpu, nextpid, locals>>

ExitSkip(c, p) ==
  /\ At(c, p, "exit_reparent") /\ idx[p] <= NPROC
  /\ parent[idx[p]] # p
  /\ idx' = [idx EXCEPT ![p] = @ + 1]
  /\ UNCHANGED <<fields, lock, cpu, nextpid, pc, havekids, oparent>>

(* Variant: reparent() leaves out the last slot.                           *)
ExitScannedEarly(c, p) ==
  /\ At(c, p, "exit_reparent") /\ idx[p] >= NPROC
  /\ Goto(p, "exit_zombie")
  /\ UNCHANGED <<fields, lock, cpu, nextpid, locals>>

ExitScanned(c, p) ==
  /\ At(c, p, "exit_reparent") /\ idx[p] = NPROC + 1
  /\ Goto(p, "exit_zombie")
  /\ UNCHANGED <<fields, lock, cpu, nextpid, locals>>

ExitGive(c, p) ==
  /\ At(c, p, "exit_give") /\ Unlocked(idx[p])
  /\ parent' = [parent EXCEPT ![idx[p]] = initproc]
  /\ idx' = [idx EXCEPT ![p] = @ + 1]
  /\ Goto(p, "exit_reparent")
  /\ UNCHANGED <<state, chan, killed, pid, lock, cpu, nextpid, havekids, oparent>>

(* Variant: the exiting process releases its own lock before sched().      *)
ExitZombieUnlocked(c, p) ==
  /\ At(c, p, "exit_zombie")
  /\ state' = [wakeup1(oparent[p]) EXCEPT ![p] = "ZOMBIE"]
  /\ lock' = [lock EXCEPT ![oparent[p]] = NoCPU, ![p] = NoCPU]
  /\ oparent' = [oparent EXCEPT ![p] = NoProc]
  /\ ScanReset(p)
  /\ Goto(p, "exit_sched")
  /\ UNCHANGED <<parent, chan, killed, pid, cpu, nextpid>>

(* wakeup1(original_parent) and ZOMBIE, under both locks.                  *)
ExitZombie(c, p) ==
  /\ At(c, p, "exit_zombie")
  /\ state' = [wakeup1(oparent[p]) EXCEPT ![p] = "ZOMBIE"]
  /\ lock' = [lock EXCEPT ![oparent[p]] = NoCPU]
  /\ oparent' = [oparent EXCEPT ![p] = NoProc]
  /\ ScanReset(p)
  /\ Goto(p, "exit_sched")
  /\ UNCHANGED <<parent, chan, killed, pid, cpu, nextpid>>

(* sched(): the scheduler, on another stack, releases p->lock.             *)
ExitSched(c, p) ==
  /\ At(c, p, "exit_sched")
  /\ cpu' = [cpu EXCEPT ![c] = NoProc]
  /\ lock' = [lock EXCEPT ![p] = NoCPU]
  /\ Goto(p, "none")
  /\ UNCHANGED <<fields, nextpid, locals>>

-----------------------------------------------------------------------------
(* What wait() and exit() do after they have been entered.                 *)
InWait(c, p) ==
  \/ WaitScan(c, p) \/ WaitSkip(c, p) \/ WaitChild(c, p)
  \/ WaitReap(c, p) \/ WaitCopyFails(c, p)
  \/ \E flags \in Flags(p) : WaitFail(c, p, flags) \/ WaitSleep(c, p, flags)

InExit(c, p) ==
  \/ ExitWakeInit(c, p) \/ ExitParent(c, p) \/ ExitLockParent(c, p)
  \/ ExitLockSelf(c, p) \/ ExitFound(c, p) \/ ExitSkip(c, p) \/ ExitGive(c, p)
  \/ ExitScanned(c, p) \/ ExitZombie(c, p) \/ ExitSched(c, p)

scheduler(c, q) == Dispatch(c, q) \/ DispatchDev(c, q) \/ DispatchWait(c, q)

Syscall(c, p) ==
  \/ \E np \in Procs : \/ Fork(c, p, np)
                       \/ ForkNoTrapframe(c, p, np)
                       \/ ForkNoPagetable(c, p, np)
  \/ \E t \in KillPids, q \in Procs : Kill(c, p, t, q)
  \/ DevSleep(c, p)
  \/ Wait(c, p)
  \/ Exit(c, p)

Next ==
  \/ \E c \in CPUs, p \in Procs :
       \/ Syscall(c, p) \/ InWait(c, p) \/ InExit(c, p)
       \/ scheduler(c, p) \/ Yield(c, p)
  \/ \E q \in Procs : DevWakeup(q)

Spec == Init /\ [][Next]_vars

(* What thread p does on its own once it has a CPU: the rest of a call of  *)
(* wait() or exit(), the exit() that usertrap() makes a killed process     *)
(* call, and the wait() that init calls for ever.                          *)
Runs(p) == \E c \in CPUs : \/ InWait(c, p) \/ InExit(c, p)
                           \/ killed[p] /\ Exit(c, p)
                           \/ p = initproc /\ Wait(c, p)

(* Fairness.  Timer interrupts take every CPU away from a thread that      *)
(* holds no lock, every scheduler loops over the whole table, a spinlock   *)
(* that is free again and again is acquired in the end, and devices        *)
(* interrupt.  Nothing is assumed of the programs other than init.         *)
Fairness ==
  \A p \in Procs :
    /\ SF_vars(Runs(p))
    /\ SF_vars(\E c \in CPUs : scheduler(c, p))
    /\ SF_vars(\E c \in CPUs : Yield(c, p))
    /\ WF_vars(DevWakeup(p))

FairSpec == Spec /\ Fairness

-----------------------------------------------------------------------------
(* Properties.                                                             *)

Held(c) == {q \in Procs : lock[q] = c}

(* The p->lock the thread on c spins for, when c already holds another.    *)
Wanted(c) == {q \in Procs : \E p \in Procs :
                /\ cpu[c] = p
                /\ \/ pc[p] \in {"wait_lock", "exit_give"} /\ q = idx[p]
                   \/ pc[p] = "exit_lockself" /\ q = p}

WaitsFor(c, d) == Wanted(c) \cap Held(d) # {}

(* scheduler(), exit(), wait(): a process is on at most one CPU, and while *)
(* it is there its slot and kernel stack belong to it: the slot is RUNNING *)
(* or, on the way out of exit(), a ZOMBIE whose lock keeps wait() from     *)
(* freeing it and fork() from reusing it.                                  *)
KernelStackOwned ==
  \A c \in CPUs : cpu[c] # NoProc =>
    /\ \A d \in CPUs : cpu[d] = cpu[c] => d = c
    /\ \/ state[cpu[c]] = "RUNNING"
       \/ state[cpu[c]] = "ZOMBIE" /\ lock[cpu[c]] = c

(* wait(), reparent(): "np->parent can't change between the check and the  *)
(* acquire()": the child found without its lock is still a child, and      *)
(* still allocated, when its lock is acquired.                             *)
ParentStable ==
  \A p \in Procs : pc[p] \in {"wait_lock", "exit_give"} =>
    /\ parent[idx[p]] = p
    /\ state[idx[p]] # "UNUSED"

(* exit(), reparent(): every process but init has a parent that has not    *)
(* exited, so somebody can still wait for it.                              *)
NoOrphans ==
  \A q \in Procs \ {initproc} : state[q] # "UNUSED" =>
    /\ parent[q] \in Procs
    /\ state[parent[q]] \notin {"UNUSED", "ZOMBIE"}

(* wait(), exit(): holding p->lock for the whole scan avoids lost wakeups: *)
(* no process other than init sleeps in wait() next to an exited child.    *)
NoLostExit ==
  \A p \in Procs \ {initproc}, q \in Procs :
    (state[p] = "SLEEPING" /\ chan[p] = p /\ parent[q] = p) => state[q] # "ZOMBIE"

(* The parent-then-child lock order of wait() and exit(): no set of CPUs   *)
(* waits in a circle for p->locks that they hold themselves.               *)
NoLockCycle ==
  \A S \in SUBSET CPUs : S # {} =>
    \E c \in S : \A d \in S : ~WaitsFor(c, d)

(* fork(): a process starts its life not killed.                           *)
BornAlive ==
  [][\A q \in Procs : state[q] = "UNUSED" /\ state'[q] = "RUNNABLE"
                        => ~killed'[q]]_vars

(* The conjuncts of the inductive invariant IInv.                          *)

OnCPU(p) == \E c \in CPUs : cpu[c] = p

LocksSelf == {"wait_scan", "wait_lock", "exit_reparent", "exit_give",
              "exit_zombie", "exit_sched"}
LocksParent == {"exit_lockself", "exit_reparent", "exit_give", "exit_zombie"}
ExitPcs == {"exit_wakeinit", "exit_parent", "exit_lockparent", "exit_sched"}
             \cup LocksParent
Scanning == {"exit_reparent", "exit_give"}

(* Which states a thread is in, by where it is and whether it has a CPU.   *)
ThreadInv ==
  /\ \A c, d \in CPUs : cpu[c] = cpu[d] /\ cpu[c] # NoProc => c = d
  /\ \A p \in Procs :
       /\ OnCPU(p) => \/ /\ state[p] = "RUNNING"
                         /\ pc[p] \notin {"none", "dev_sleep", "wait_sleep", "exit_sched"}
                      \/ state[p] = "ZOMBIE" /\ pc[p] = "exit_sched"
       /\ state[p] = "RUNNING" \/ pc[p] \in LocksSelf \cup LocksParent => OnCPU(p)
       /\ state[p] \in {"SLEEPING", "RUNNABLE"} => pc[p] \notin {"none", "exit_sched"}
       /\ state[p] = "UNUSED" => pc[p] = "none" /\ parent[p] = NoProc
       /\ state[p] = "ZOMBIE" => pc[p] \in {"none", "exit_sched"}

(* Which p->locks a thread holds, by where it is.                          *)
LockInv ==
  \A c \in CPUs, p \in Procs : cpu[c] = p =>
    /\ pc[p] \in LocksSelf => lock[p] = c
    /\ pc[p] \in LocksParent => lock[oparent[p]] = c

(* The process tree, and what exit() remembers of it.                      *)
TreeInv ==
  /\ state[initproc] \notin {"UNUSED", "ZOMBIE"}
  /\ parent[initproc] = NoProc
  /\ \A p \in Procs :
       /\ parent[p] # p
       /\ pc[p] \in ExitPcs => p # initproc
       /\ pc[p] \in {"exit_lockparent"} \cup LocksParent =>
            /\ oparent[p] \in Procs \ {p}
            /\ parent[p] \in {oparent[p], initproc}
       /\ \A q \in Procs :
            pc[p] \in {"exit_zombie", "exit_sched"} \/ (pc[p] \in Scanning /\ q < idx[p])
              => parent[q] # p

(* What a scan of wait() has established for the slots behind it.          *)
ScanInv ==
  \A p \in Procs \ {initproc}, q \in Procs :
    pc[p] \in {"wait_scan", "wait_lock"} /\ q < idx[p] /\ parent[q] = p
      => state[q] # "ZOMBIE"

IdxInv ==
  \A p \in Procs : /\ pc[p] \in {"wait_lock", "exit_give"} => idx[p] \in Procs
                   /\ idx[p] # 1 => pc[p] \in {"wait_scan", "wait_lock"} \cup Scanning \cup {"exit_zombie"}

(* The inductive invariant: with the discipline of the p->locks, the tree  *)
(* and the progress of the scans it implies KernelStackOwned, and has      *)
(* ParentStable, NoOrphans and NoLostExit as conjuncts.                    *)
IInv == /\ TypeOK /\ ThreadInv /\ LockInv /\ TreeInv /\ ScanInv /\ IdxInv
        /\ ParentStable /\ NoOrphans /\ NoLostExit

WaitPcs == {"wait_scan", "wait_lock", "wait_sleep"}

(* exit() wakes the parent: a wait() by a process other than init returns  *)
(* once the caller has an exited child.                                    *)
WaitReturns ==
  \A p \in Procs \ {initproc} :
    (pc[p] \in WaitPcs /\ \E q \in Procs : parent[q] = p /\ state[q] = "ZOMBIE")
      ~> pc[p] \notin WaitPcs

(* kill(), sleep(), usertrap(): a killed process exits, also when the kill *)
(* finds it asleep in wait() or in a device driver.                        *)
KilledExits ==
  \A p \in Procs \ {initproc} : (killed[p] /\ state[p] # "UNUSED")
    ~> state[p] \in {"ZOMBIE", "UNUSED"}

(* user/init.c: "this call to wait() returns [...] if a parentless process *)
(* exits": an exited child of init is reaped in the end.                   *)
InitReaps ==
  \A q \in Procs : (state[q] = "ZOMBIE" /\ parent[q] = initproc)
                     ~> state[q] = "UNUSED"
=============================================================================
