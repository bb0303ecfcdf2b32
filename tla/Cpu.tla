-------------------------------- MODULE Cpu ---------------------------------
(***************************************************************************)
(* Interrupts and spin-locks: kernel/spinlock.c and kernel/trap.c, with    *)
(* the parts of proc.c that switch between a thread and a scheduler, and   *)
(* sys_sleep().  A context is the kernel thread of a process or the        *)
(* scheduler of a hart.  A timer or device interrupt reaches whatever      *)
(* context a hart runs while its SIE bit is set; a thread may be moved to  *)
(* another hart inside the trap.  p->lock is taken and released within a   *)
(* step.                                                                   *)
(***************************************************************************)
EXTENDS Integers, Sequences

CONSTANTS Harts, Hart0, Threads,
          Table,             \* proc[]: the threads in the order of the table
          TICKS,             \* number of values of ticks, a uint
          NoHart, NoThread

ASSUME CpuAssumption ==
  /\ Hart0 \in Harts /\ NoHart \notin Harts /\ NoThread \notin Threads
  /\ Harts \cap Threads = {} /\ TICKS \in Nat \ {0} /\ Table \in Seq(Threads)

Locks == {"tickslock", "vdisk_lock"}
Contexts == Harts \cup Threads

VARIABLES
  cpu,       \* cpu[h]: [sie, noff, intena, proc]
  spin,      \* the hart that holds a lock
  ctx,       \* ctx[x]: [pc, trap, intena, calls, n, ticks0, slept, killed]
  ticks,
  scan,      \* scan[h]: the entry of proc[] that scheduler() looks at next
  cpuPanic   \* a panic of spinlock.c, trap.c or sched()

cpuVars == <<cpu, spin, ctx, ticks, scan, cpuPanic>>

CpuInit(calls) ==
  /\ cpu = [h \in Harts |-> [sie |-> FALSE, noff |-> 0, intena |-> FALSE, proc |-> NoThread]]
  /\ spin = [l \in Locks |-> NoHart]
  /\ ctx = [x \in Contexts |->
              [pc |-> IF x \in Harts THEN "scheduler" ELSE "forkret", trap |-> "none",
               intena |-> FALSE, calls |-> IF x \in Harts THEN <<>> ELSE calls[x],
               n |-> 0, ticks0 |-> 0, slept |-> 0, killed |-> FALSE]]
  /\ ticks = 0 /\ cpuPanic = FALSE
  /\ scan = [h \in Harts |-> Len(Table) + 1]

(* struct cpu, struct spinlock and the locals of sys_sleep() keep their    *)
(* types.                                                                  *)
SysCalls == [call : {"sleep", "io"}, n : Nat]
CpuRecs == [sie : BOOLEAN, noff : Nat, intena : BOOLEAN, proc : Threads \cup {NoThread}]
CtxRecs ==
  [pc : {"scheduler", "forkret", "forked", "return", "user", "io", "io_locked", "sleep", "sleep_locked",
         "asleep", "woken", "slept"},
   trap : {"none", "timer", "timer_locked", "ticked", "device", "device_locked", "done"},
   intena : BOOLEAN, calls : Seq(SysCalls), n : Nat, ticks0 : 0 .. TICKS - 1, slept : Nat,
   killed : BOOLEAN]
CpuTypeOK ==
  /\ cpu \in [Harts -> CpuRecs]
  /\ spin \in [Locks -> Harts \cup {NoHart}]
  /\ ctx \in [Contexts -> CtxRecs]
  /\ ticks \in 0 .. TICKS - 1

-----------------------------------------------------------------------------
Running(h) == IF cpu[h].proc = NoThread THEN h ELSE cpu[h].proc
Ready(t) == ctx[t].pc # "asleep" /\ \A h \in Harts : cpu[h].proc # t

push_off(c) == [c EXCEPT !.intena = IF c.noff = 0 THEN c.sie ELSE @, !.sie = FALSE, !.noff = @ + 1]

pop_off(c) == [c EXCEPT !.noff = @ - 1, !.sie = IF c.noff = 1 THEN c.intena ELSE @]
PopPanics(c) == c.sie \/ c.noff < 1

(* acquire() spins until the lock is free, and panics if this hart has it; *)
(* release() panics if it has not.                                         *)
acquire(h, l) ==
  /\ spin[l] \in {NoHart, h}
  /\ spin' = [spin EXCEPT ![l] = h]
  /\ cpu' = [cpu EXCEPT ![h] = push_off(@)]
  /\ cpuPanic' = (spin[l] = h)

release(h, l) ==
  /\ spin' = [spin EXCEPT ![l] = NoHart]
  /\ cpu' = [cpu EXCEPT ![h] = pop_off(@)]
  /\ cpuPanic' = (spin[l] # h \/ PopPanics(cpu[h]))

(* Variant: sleep() keeps the caller's lock.                               *)
SleepKeeps(c) == push_off(c)

(* sleep(): acquire(&p->lock), release(lk).                                *)
SleepLocks(c) == pop_off(push_off(c))

(* sched() with p->lock and nothing else held, and the scheduler's release *)
(* of p->lock: c is the hart as sched() finds it.                          *)
SchedPanics(c) == c.noff # 1 \/ c.sie
Switched(c) == pop_off([c EXCEPT !.proc = NoThread])

(* Variant: sched() does not restore intena.                               *)
ResumedAsIs(c, t) == pop_off(c)

(* The thread that sched() or forkret() resumes, with intena as it was     *)
(* when the thread was switched out, and its release of p->lock.           *)
Resumed(c, t) == pop_off([c EXCEPT !.intena = IF ctx[t].pc = "forkret" THEN @ ELSE ctx[t].intena])

(* swtch() with p->lock held.  The enable bit that acquire() recorded is   *)
(* what the last process to leave this hart, or intr_on(), left; a new     *)
(* process begins in forkret() with it.                                    *)
dispatch(h, t) ==
  /\ cpu' = [cpu EXCEPT ![h] = Resumed(push_off([@ EXCEPT !.proc = t]), t)]
  /\ ctx' = IF ctx[t].pc = "forkret" THEN [ctx EXCEPT ![t].pc = "forked"] ELSE ctx

(* An iteration of the loop of scheduler() over the table.                 *)
scheduler(h) ==
  /\ cpu[h].proc = NoThread /\ ctx[h].trap = "none" /\ scan[h] <= Len(Table)
  /\ scan' = [scan EXCEPT ![h] = @ + 1]
  /\ cpuPanic' = PopPanics(push_off(cpu[h]))
  /\ IF Ready(Table[scan[h]])
     THEN dispatch(h, Table[scan[h]])
     ELSE cpu' = [cpu EXCEPT ![h] = pop_off(push_off(@))] /\ UNCHANGED ctx
  /\ UNCHANGED <<spin, ticks>>

(* A pass over the table begins: intr_on().                                *)
sched_pass(h) ==
  /\ cpu[h].proc = NoThread /\ ctx[h].trap = "none" /\ scan[h] > Len(Table)
  /\ scan' = [scan EXCEPT ![h] = 1]
  /\ cpu' = [cpu EXCEPT ![h].sie = TRUE]
  /\ UNCHANGED <<spin, ctx, ticks, cpuPanic>>

-----------------------------------------------------------------------------
(* usertrap() for a system call, up to intr_on().                          *)
ecall(h) ==
  /\ \E t \in {Running(h)} \ Harts :
       /\ ctx[t].pc = "user" /\ ctx[t].trap = "none" /\ ctx[t].calls # <<>>
       /\ ctx' = [ctx EXCEPT ![t].pc = Head(ctx[t].calls).call, ![t].n = Head(ctx[t].calls).n,
                             ![t].calls = Tail(@)]
  /\ UNCHANGED <<cpu, spin, ticks, cpuPanic>>

(* usertrapret() to sret: interrupts go off until user mode.               *)
usertrapret(h) ==
  /\ \E t \in {Running(h)} \ Harts :
       /\ ctx[t].pc \in {"forked", "return"} /\ ctx[t].trap = "none"
       /\ ctx' = [ctx EXCEPT ![t].pc = "user", ![t].n = 0, ![t].ticks0 = 0, ![t].slept = 0]
  /\ cpu' = [cpu EXCEPT ![h].sie = TRUE]
  /\ UNCHANGED <<spin, ticks, cpuPanic>>

(* A system call that works under vdisk_lock.                              *)
sys_io(h) ==
  \E t \in {Running(h)} \ Harts :
    /\ ctx[t].trap = "none"
    /\ \/ ctx[t].pc = "io" /\ acquire(h, "vdisk_lock") /\ ctx' = [ctx EXCEPT ![t].pc = "io_locked"]
       \/ ctx[t].pc = "io_locked" /\ release(h, "vdisk_lock") /\ ctx' = [ctx EXCEPT ![t].pc = "return"]
    /\ UNCHANGED ticks

(* sys_sleep(): ticks0 is read under tickslock, ...                        *)
sleep_start(h) ==
  \E t \in {Running(h)} \ Harts :
    /\ ctx[t].trap = "none" /\ ctx[t].pc \in {"sleep", "woken"}
    /\ acquire(h, "tickslock")
    /\ ctx' = [ctx EXCEPT ![t].ticks0 = IF ctx[t].pc = "sleep" THEN ticks ELSE @,
                          ![t].slept = IF ctx[t].pc = "sleep" THEN 0 ELSE @,
                          ![t].pc = "sleep_locked"]
    /\ UNCHANGED ticks

(* Variant: the ticks are compared, not their difference.                  *)
EarlyByWrap(t) == ticks < (ctx[t].ticks0 + ctx[t].n) % TICKS

(* ticks - ticks0 < n, in unsigned arithmetic.                             *)
Early(t) == (ticks - ctx[t].ticks0) % TICKS < ctx[t].n

(* ... then the thread returns, or sleeps: acquire(&p->lock), release(lk), *)
(* sched().                                                                *)
sleep_check(h) ==
  \E t \in {Running(h)} \ Harts :
    /\ ctx[t].trap = "none" /\ ctx[t].pc = "sleep_locked"
    /\ IF Early(t) /\ ~ctx[t].killed
       THEN \E c \in {SleepLocks(cpu[h])} :
              /\ cpu' = [cpu EXCEPT ![h] = Switched(c)]
              /\ cpuPanic' = SchedPanics(c)
              /\ spin' = [spin EXCEPT !["tickslock"] = NoHart]
              /\ ctx' = [ctx EXCEPT ![t].pc = "asleep", ![t].intena = c.intena]
       ELSE /\ release(h, "tickslock")
            /\ ctx' = [ctx EXCEPT ![t].pc = IF ctx[t].killed THEN "return" ELSE "slept"]
    /\ UNCHANGED ticks

sleep_end(h) ==
  \E t \in {Running(h)} \ Harts :
    /\ ctx[t].trap = "none" /\ ctx[t].pc = "slept"
    /\ ctx' = [ctx EXCEPT ![t].pc = "return"]
    /\ UNCHANGED <<cpu, spin, ticks, cpuPanic>>

cpu_kill(t) ==
  /\ ~ctx[t].killed /\ ctx[t].pc \in {"asleep", "woken", "sleep"}
  /\ ctx' = [ctx EXCEPT ![t].killed = TRUE, ![t].pc = IF @ = "asleep" THEN "woken" ELSE @]
  /\ UNCHANGED <<cpu, spin, ticks, cpuPanic>>

-----------------------------------------------------------------------------
(* An interrupt: the hart clears SIE and enters usertrap() or kerneltrap(),*)
(* which panics if interrupts are on, and devintr() looks at the cause.    *)
interrupt(h, cause) ==
  /\ cpu[h].sie
  /\ cpu' = [cpu EXCEPT ![h].sie = FALSE]
  /\ cpuPanic' = (ctx[Running(h)].trap # "none")
  /\ ctx' = [ctx EXCEPT ![Running(h)].trap = cause]
  /\ UNCHANGED <<spin, ticks>>

(* devintr() for a device: virtio_disk_intr() takes and releases its lock. *)
dev_handler(h) ==
  \E x \in {Running(h)} :
    /\ \/ ctx[x].trap = "device" /\ acquire(h, "vdisk_lock") /\ ctx' = [ctx EXCEPT ![x].trap = "device_locked"]
       \/ ctx[x].trap = "device_locked" /\ release(h, "vdisk_lock") /\ ctx' = [ctx EXCEPT ![x].trap = "done"]
    /\ UNCHANGED ticks

(* Variant: the sleepers are not woken.                                    *)
WokenNone(c) == [x \in Contexts |-> [c[x] EXCEPT !.slept = IF @ < ctx[x].n THEN @ + 1 ELSE @]]

(* devintr() for the timer: hart 0 counts the tick and wakes the sleepers  *)
(* in clockintr().                                                         *)
Woken(c) == [x \in Contexts |->
  [c[x] EXCEPT !.pc = IF @ = "asleep" THEN "woken" ELSE @,
               !.slept = IF @ < ctx[x].n THEN @ + 1 ELSE @]]

clockintr(h) ==
  \E x \in {Running(h)} :
    \/ /\ ctx[x].trap = "timer" /\ h = Hart0 /\ acquire(h, "tickslock")
       /\ ctx' = [ctx EXCEPT ![x].trap = "timer_locked"]
       /\ UNCHANGED ticks
    \/ /\ ctx[x].trap = "timer_locked" /\ release(h, "tickslock")
       /\ ticks' = (ticks + 1) % TICKS
       /\ ctx' = Woken([ctx EXCEPT ![x].trap = "ticked"])
    \/ /\ ctx[x].trap = "timer" /\ h # Hart0
       /\ ctx' = [ctx EXCEPT ![x].trap = "ticked"]
       /\ UNCHANGED <<cpu, spin, ticks, cpuPanic>>

(* The end of the trap of a timer interrupt: yield(), if a process runs.   *)
yield(h) ==
  \E x \in {Running(h)} :
    /\ ctx[x].trap = "ticked"
    /\ IF x \in Threads
       THEN \E c \in {push_off(cpu[h])} :
              /\ cpu' = [cpu EXCEPT ![h] = Switched(c)]
              /\ cpuPanic' = SchedPanics(c)
              /\ ctx' = [ctx EXCEPT ![x].trap = "done", ![x].intena = c.intena]
       ELSE ctx' = [ctx EXCEPT ![x].trap = "done"] /\ UNCHANGED <<cpu, cpuPanic>>
    /\ UNCHANGED <<spin, ticks>>

(* The end of usertrap() or kerneltrap(): the saved sstatus is restored.   *)
trap_return(h) ==
  \E x \in {Running(h)} :
    /\ ctx[x].trap = "done"
    /\ ctx' = [ctx EXCEPT ![x].trap = "none"]
    /\ cpu' = [cpu EXCEPT ![h].sie = TRUE]
    /\ UNCHANGED <<spin, ticks, cpuPanic>>

CpuNext ==
  /\ ~cpuPanic
  /\ \/ \E h \in Harts : scheduler(h) \/ sched_pass(h)
     \/ /\ \/ \E h \in Harts :
                \/ \E cause \in {"timer", "device"} : interrupt(h, cause)
                \/ ecall(h) \/ usertrapret(h) \/ sys_io(h) \/ sleep_start(h) \/ sleep_check(h)
                \/ sleep_end(h) \/ dev_handler(h) \/ clockintr(h) \/ yield(h) \/ trap_return(h)
           \/ \E t \in Threads : cpu_kill(t)
        /\ UNCHANGED scan
-----------------------------------------------------------------------------
Held(h) == {l \in Locks : spin[l] = h}
Count(h, l) == IF l \in Held(h) THEN 1 ELSE 0

(* No panic of acquire(), release(), pop_off(), sched() or kerneltrap(): a *)
(* handler never wants a lock its own hart holds, whatever is interrupted  *)
(* and wherever a thread resumes.                                          *)
CpuNeverPanics == ~cpuPanic

(* noff counts the locks of the hart, and a thread runs with interrupts on *)
(* exactly outside critical sections and traps, although intena is kept    *)
(* per hart, threads change harts in between and the scheduler may switch  *)
(* with interrupts off (push_off(), pop_off(), sched(), scheduler()).  The *)
(* exception is a new process in forkret(), which has them on or off until *)
(* usertrapret().                                                          *)
IntrExact ==
  \A h \in Harts :
    /\ cpu[h].noff = Count(h, "tickslock") + Count(h, "vdisk_lock")
    /\ cpu[h].sie => Held(h) = {} /\ ctx[Running(h)].trap = "none"
    /\ /\ cpu[h].proc # NoThread /\ ctx[Running(h)].pc # "forked"
       /\ Held(h) = {} /\ ctx[Running(h)].trap = "none"
       => cpu[h].sie

(* The scheduler of a hart stays within the table.                         *)
InTable == scan \in [Harts -> 1 .. Len(Table) + 1]

(* A process asleep on ticks still has ticks to wait for: clockintr() wakes *)
(* every sleeper at each tick.                                             *)
TickSleepers ==
  \A t \in Threads : ctx[t].pc = "asleep" => (ticks - ctx[t].ticks0) % TICKS < ctx[t].n

(* sys_sleep(n) returns 0 only after n ticks, also when ticks wraps and    *)
(* when kill() or a late schedule intervenes.                              *)
SleptEnough == \A t \in Threads : ctx[t].pc = "slept" => ctx[t].slept >= ctx[t].n

(* sys_sleep(), clockintr(): a sleep lasts as long as it should, and no    *)
(* tick passes by a sleeper that has slept for long enough.                *)
SleepsExact == SleptEnough /\ TickSleepers

(* push_off(), pop_off(), sched(), kerneltrap(): locks and interrupts      *)
(* nest, on every hart and for every thread that changes harts.            *)
LocksExact == CpuNeverPanics /\ IntrExact /\ InTable

-----------------------------------------------------------------------------
(* The inductive invariant.                                                *)

(* Where a context holds a lock: in a system call, or in a handler.        *)
InTicks(r) == r.pc = "sleep_locked" \/ r.trap = "timer_locked"
InDisk(r) == r.pc = "io_locked" \/ r.trap = "device_locked"
Away(t) == \A h \in Harts : cpu[h].proc # t

(* The locks of hart h, with struct cpu c, are those of the context r that *)
(* it runs, which no trap finds held; intena tells whether the context was *)
(* outside of a trap when it took them.                                    *)
Nests(h, c, r, l) ==
  /\ l["tickslock"] = h <=> InTicks(r)
  /\ l["vdisk_lock"] = h <=> InDisk(r)
  /\ r.pc \in {"sleep_locked", "io_locked"} => r.trap = "none"
  /\ c.noff = IF InTicks(r) \/ InDisk(r) THEN 1 ELSE 0
  /\ c.noff = 1 => (c.intena <=> r.trap = "none")
  /\ c.sie => c.noff = 0 /\ r.trap = "none"
  /\ c.proc = NoThread => r.pc = "scheduler"
  /\ c.proc # NoThread => r.pc # "forkret" /\ (c.noff = 0 /\ r.trap = "none" /\ r.pc # "forked" => c.sie)

(* A thread that was switched out has no locks; it resumes with interrupts *)
(* as they were, on in sleep() and off in the trap that called yield().    *)
SwitchedOut(r) ==
  /\ r.trap \in {"none", "done"} /\ ~InTicks(r) /\ ~InDisk(r)
  /\ IF r.pc = "forkret" THEN r.trap = "none" ELSE r.intena <=> r.trap = "none"

(* slept counts the ticks since ticks0 was read, until there are n.        *)
Sleeps(r, now) ==
  /\ r.pc \in {"sleep_locked", "asleep", "woken"} =>
       r.slept >= r.n \/ (now - r.ticks0) % TICKS = r.slept % TICKS
  /\ r.pc = "asleep" => (now - r.ticks0) % TICKS < r.n
  /\ r.pc = "slept" => r.slept >= r.n

(* acquire(), release(), sched(), scheduler(), kerneltrap(), clockintr():  *)
(* a thread runs on one hart at most, whose scheduler waits outside of     *)
(* traps; locks, interrupt bits and contexts agree, on every hart.         *)
CpuInv ==
  /\ CpuTypeOK /\ CpuNeverPanics
  /\ \A g, h \in Harts : cpu[g].proc = cpu[h].proc /\ cpu[g].proc # NoThread => g = h
  /\ \A h \in Harts : cpu[h].proc # NoThread => ctx[h].trap = "none" /\ ctx[h].pc = "scheduler"
  /\ \A h \in Harts : Nests(h, cpu[h], ctx[Running(h)], spin)
  /\ \A t \in Threads : (Away(t) => SwitchedOut(ctx[t])) /\ Sleeps(ctx[t], ticks)
=============================================================================
