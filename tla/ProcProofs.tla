----------------------------- MODULE ProcProofs -----------------------------
(***************************************************************************)
(* The process table keeps its invariant IInv, whatever the number of      *)
(* slots and CPUs: the initial state and the steps of fork(), kill(),      *)
(* sleep(), wakeup(), the scheduler and wait(), those of exit(), and the   *)
(* theorems that follow.  One lemma per action of Proc, with one step per  *)
(* conjunct of IInv that needs an argument of its own.                     *)
(***************************************************************************)
EXTENDS Proc, TLAPS

(* What the proofs need of the constants.  Procs, initproc, NoProc and     *)
(* DevChan stay folded everywhere but here and where a loop index moves.   *)
LEMMA Constants ==
  /\ initproc \in Procs /\ NoProc \notin Procs
  /\ DevChan \notin Procs /\ NoProc # DevChan
  /\ NoCPU \notin CPUs
  /\ 1 \in 1 .. NPROC + 1
  /\ \A i \in Procs : i + 1 \in 1 .. NPROC + 1
  /\ \A q \in Procs : ~(q < 1)
BY ProcConstants DEF Procs, initproc, NoProc, DevChan

(* The parts of the invariant.  The proofs cite this where they expand the *)
(* parts, and leave IInv folded.                                           *)
LEMMA Parts ==
  IInv => /\ TypeOK /\ ThreadInv /\ LockInv /\ TreeInv /\ ScanInv /\ IdxInv
          /\ ParentStable /\ NoOrphans /\ NoLostExit
BY Zenon DEF IInv

(* userinit() leaves a table that satisfies the invariant.                 *)
LEMMA InitIInv ==
  ASSUME Init
  PROVE  IInv
<1> USE Constants DEF Init
<1>1. TypeOK
  BY ProcConstants, Zenon DEF TypeOK, States, Labels
<1>2. ThreadInv /\ LockInv
  BY Zenon DEF ThreadInv, LockInv, OnCPU, LocksSelf, LocksParent
<1>3. TreeInv
  BY Zenon DEF TreeInv, ExitPcs, LocksParent, Scanning
<1>4. ScanInv /\ IdxInv /\ ParentStable
  BY Zenon DEF ScanInv, IdxInv, ParentStable
<1>5. NoOrphans /\ NoLostExit
  BY Zenon DEF NoOrphans, NoLostExit
<1> QED
  BY <1>1, <1>2, <1>3, <1>4, <1>5, Zenon DEF IInv

(* fork() fills an UNUSED slot, which no thread, scan or child refers to.  *)
LEMMA ForkKeeps ==
  ASSUME IInv, NEW c \in CPUs, NEW p \in Procs, NEW np \in Procs,
         Fork(c, p, np)
  PROVE  IInv'
<1> USE Constants, Parts DEF Fork, allocproc, At, Goto, Unlocked, fields,
         locals
<1>1. TypeOK'
  BY DEF TypeOK, States, Labels
<1>2. ThreadInv'
  BY DEF ThreadInv, TypeOK, OnCPU, LocksSelf, LocksParent
<1>3. TreeInv'
  BY DEF TreeInv, TypeOK, ThreadInv, ExitPcs, LocksParent, Scanning, OnCPU,
         LocksSelf
<1>4. IdxInv'
  BY DEF IdxInv, TypeOK, ThreadInv, Scanning, OnCPU, LocksSelf, LocksParent
<1>5. NoOrphans'
  BY DEF NoOrphans, TypeOK, ThreadInv, OnCPU, LocksSelf, LocksParent
<1>6. LockInv'
  BY DEF LockInv, LocksSelf, LocksParent
<1>7. ScanInv'
  BY DEF ScanInv
<1>8. ParentStable' /\ NoLostExit'
  BY DEF ParentStable, NoLostExit
<1> QED BY <1>1, <1>2, <1>3, <1>4, <1>5, <1>6, <1>7, <1>8, Zenon DEF IInv

(* fork() without a trapframe page changes only a pid.                     *)
LEMMA ForkNoTrapframeKeeps ==
  ASSUME IInv, NEW c \in CPUs, NEW p \in Procs, NEW np \in Procs,
         ForkNoTrapframe(c, p, np)
  PROVE  IInv'
<1> USE Constants, Parts DEF ForkNoTrapframe, allocproc, At, Unlocked,
         fields, locals
<1>1. TypeOK'
  BY DEF TypeOK, States, Labels
<1>2. ThreadInv'
  BY DEF ThreadInv, OnCPU, LocksSelf, LocksParent
<1>3. LockInv'
  BY DEF LockInv, LocksSelf, LocksParent
<1>4. TreeInv'
  BY DEF TreeInv, ExitPcs, LocksParent, Scanning
<1>5. ScanInv'
  BY Zenon DEF ScanInv
<1>6. IdxInv'
  BY Zenon DEF IdxInv, Scanning
<1>7. ParentStable' /\ NoOrphans' /\ NoLostExit'
  BY Zenon DEF ParentStable, NoOrphans, NoLostExit
<1> QED BY <1>1, <1>2, <1>3, <1>4, <1>5, <1>6, <1>7, Zenon DEF IInv

(* fork() without a page table frees a slot that was UNUSED.               *)
LEMMA ForkNoPagetableKeeps ==
  ASSUME IInv, NEW c \in CPUs, NEW p \in Procs, NEW np \in Procs,
         ForkNoPagetable(c, p, np)
  PROVE  IInv'
<1> USE Constants, Parts DEF ForkNoPagetable, allocproc, freeproc, At,
         Unlocked, fields, locals
<1>1. TypeOK'
  BY DEF TypeOK, States, Labels
<1>2. TreeInv'
  BY DEF TreeInv, TypeOK, ThreadInv, ExitPcs, LocksParent, Scanning, OnCPU,
         LocksSelf
<1>3. ThreadInv'
  BY DEF ThreadInv, OnCPU, LocksSelf, LocksParent
<1>4. LockInv'
  BY DEF LockInv, LocksSelf, LocksParent
<1>5. ScanInv'
  BY DEF ScanInv
<1>6. IdxInv'
  BY Zenon DEF IdxInv, Scanning
<1>7. ParentStable' /\ NoOrphans' /\ NoLostExit'
  BY DEF ParentStable, NoOrphans, NoLostExit
<1> QED BY <1>1, <1>2, <1>3, <1>4, <1>5, <1>6, <1>7, Zenon DEF IInv

(* kill() wakes a sleeper that keeps its place in wait() or a driver.      *)
LEMMA KillKeeps ==
  ASSUME IInv, NEW c \in CPUs, NEW p \in Procs, NEW t \in KillPids, NEW q \in Procs,
         Kill(c, p, t, q)
  PROVE  IInv'
<1> USE Constants, Parts DEF Kill, At, Unlocked, fields, locals
<1>1. TypeOK'
  BY Zenon DEF TypeOK, States, Labels
<1>2. ThreadInv'
  BY DEF ThreadInv, OnCPU, LocksSelf, LocksParent
<1>3. LockInv'
  BY Zenon DEF LockInv, LocksSelf, LocksParent
<1>4. TreeInv'
  BY DEF TreeInv, ExitPcs, LocksParent, Scanning
<1>5. ScanInv'
  BY DEF ScanInv
<1>6. IdxInv'
  BY Zenon DEF IdxInv, Scanning
<1>7. ParentStable' /\ NoOrphans' /\ NoLostExit'
  BY DEF ParentStable, NoOrphans, NoLostExit
<1> QED BY <1>1, <1>2, <1>3, <1>4, <1>5, <1>6, <1>7, Zenon DEF IInv

(* sleep() in a driver gives the CPU away with no lock held.               *)
LEMMA DevSleepKeeps ==
  ASSUME IInv, NEW c \in CPUs, NEW p \in Procs, DevSleep(c, p)
  PROVE  IInv'
<1> USE Constants, Parts DEF DevSleep, At, Goto, Unlocked, fields, locals
<1>1. TypeOK'
  BY Zenon DEF TypeOK, States, Labels
<1>2. ThreadInv'
  BY DEF ThreadInv, TypeOK, OnCPU, LocksSelf, LocksParent
<1>3. NoOrphans'
  BY DEF NoOrphans, TypeOK, ThreadInv, OnCPU, LocksSelf, LocksParent
<1>4. NoLostExit'
  BY Zenon DEF NoLostExit, TypeOK
<1>5. LockInv'
  BY DEF LockInv, LocksSelf, LocksParent
<1>6. TreeInv'
  BY DEF TreeInv, ExitPcs, LocksParent, Scanning
<1>7. ScanInv'
  BY DEF ScanInv
<1>8. IdxInv'
  BY DEF IdxInv, Scanning
<1>9. ParentStable'
  BY DEF ParentStable
<1> QED BY <1>1, <1>2, <1>3, <1>4, <1>5, <1>6, <1>7, <1>8, <1>9, Zenon DEF IInv

(* wakeup() changes only the state of a sleeper.                           *)
LEMMA DevWakeupKeeps ==
  ASSUME IInv, NEW p \in Procs, DevWakeup(p)
  PROVE  IInv'
<1> USE Constants, Parts DEF DevWakeup, Unlocked, fields, locals
<1>1. TypeOK'
  BY Zenon DEF TypeOK, States, Labels
<1>2. ThreadInv'
  BY DEF ThreadInv, OnCPU, LocksSelf, LocksParent
<1>3. LockInv'
  BY Zenon DEF LockInv, LocksSelf, LocksParent
<1>4. TreeInv'
  BY DEF TreeInv, ExitPcs, LocksParent, Scanning
<1>5. ScanInv'
  BY DEF ScanInv
<1>6. IdxInv'
  BY Zenon DEF IdxInv, Scanning
<1>7. ParentStable' /\ NoOrphans' /\ NoLostExit'
  BY DEF ParentStable, NoOrphans, NoLostExit
<1> QED BY <1>1, <1>2, <1>3, <1>4, <1>5, <1>6, <1>7, Zenon DEF IInv

(* scheduler() resumes a thread that holds no lock.                        *)
LEMMA DispatchKeeps ==
  ASSUME IInv, NEW c \in CPUs, NEW p \in Procs, Dispatch(c, p)
  PROVE  IInv'
<1> USE Constants, Parts DEF Dispatch, Switch, Goto, Unlocked, fields,
         locals
<1>1. TypeOK'
  BY Zenon DEF TypeOK, States, Labels
<1>2. ThreadInv'
  BY DEF ThreadInv, TypeOK, OnCPU, LocksSelf, LocksParent
<1>3. LockInv'
  BY DEF LockInv, TypeOK, ThreadInv, LocksSelf, LocksParent, OnCPU
<1>4. TreeInv'
  BY DEF TreeInv, ExitPcs, LocksParent, Scanning
<1>5. ScanInv'
  BY DEF ScanInv
<1>6. IdxInv'
  BY Zenon DEF IdxInv, Scanning
<1>7. ParentStable' /\ NoOrphans' /\ NoLostExit'
  BY DEF ParentStable, NoOrphans, NoLostExit
<1> QED BY <1>1, <1>2, <1>3, <1>4, <1>5, <1>6, <1>7, Zenon DEF IInv

(* scheduler() resumes a driver's sleep().                                 *)
LEMMA DispatchDevKeeps ==
  ASSUME IInv, NEW c \in CPUs, NEW p \in Procs, DispatchDev(c, p)
  PROVE  IInv'
<1> USE Constants, Parts DEF DispatchDev, Switch, Goto, Unlocked, fields,
         locals
<1>1. TypeOK'
  BY Zenon DEF TypeOK, States, Labels
<1>2. ThreadInv'
  BY DEF ThreadInv, TypeOK, OnCPU, LocksSelf, LocksParent
<1>3. LockInv'
  BY DEF LockInv, LocksSelf, LocksParent
<1>4. TreeInv'
  BY DEF TreeInv, ExitPcs, LocksParent, Scanning
<1>5. ScanInv'
  BY DEF ScanInv
<1>6. IdxInv'
  BY DEF IdxInv, Scanning
<1>7. ParentStable' /\ NoOrphans' /\ NoLostExit'
  BY DEF ParentStable, NoOrphans, NoLostExit
<1> QED BY <1>1, <1>2, <1>3, <1>4, <1>5, <1>6, <1>7, Zenon DEF IInv

(* scheduler() resumes wait(), which holds p->lock and scans anew.         *)
LEMMA DispatchWaitKeeps ==
  ASSUME IInv, NEW c \in CPUs, NEW p \in Procs, DispatchWait(c, p)
  PROVE  IInv'
<1> USE Constants, Parts DEF DispatchWait, Switch, Goto, Unlocked, fields,
         locals
<1>1. TypeOK'
  BY Zenon DEF TypeOK, States, Labels
<1>2. ThreadInv'
  BY DEF ThreadInv, TypeOK, OnCPU, LocksSelf, LocksParent
<1>3. LockInv'
  BY DEF LockInv, TypeOK, ThreadInv, LocksSelf, LocksParent, OnCPU
<1>4. ScanInv'
  BY Zenon DEF ScanInv, TypeOK, IdxInv, Scanning
<1>5. TreeInv'
  BY DEF TreeInv, ExitPcs, LocksParent, Scanning
<1>6. IdxInv'
  BY DEF IdxInv, Scanning
<1>7. ParentStable' /\ NoOrphans' /\ NoLostExit'
  BY DEF ParentStable, NoOrphans, NoLostExit
<1> QED BY <1>1, <1>2, <1>3, <1>4, <1>5, <1>6, <1>7, Zenon DEF IInv

(* yield() gives up a CPU on which no p->lock is held.                     *)
LEMMA YieldKeeps ==
  ASSUME IInv, NEW c \in CPUs, NEW p \in Procs, Yield(c, p)
  PROVE  IInv'
<1> USE Constants, Parts DEF Yield, Unlocked, fields, locals
<1>1. TypeOK'
  BY Zenon DEF TypeOK, States, Labels
<1>2. ThreadInv'
  BY DEF ThreadInv, TypeOK, OnCPU, LocksSelf, LocksParent
<1>3. NoOrphans'
  BY DEF NoOrphans, TypeOK, ThreadInv, OnCPU, LocksSelf, LocksParent
<1>4. LockInv'
  BY DEF LockInv, LocksSelf, LocksParent
<1>5. TreeInv'
  BY DEF TreeInv, ExitPcs, LocksParent, Scanning
<1>6. ScanInv'
  BY DEF ScanInv
<1>7. IdxInv'
  BY Zenon DEF IdxInv, Scanning
<1>8. ParentStable' /\ NoLostExit'
  BY DEF ParentStable, NoLostExit
<1> QED BY <1>1, <1>2, <1>3, <1>4, <1>5, <1>6, <1>7, <1>8, Zenon DEF IInv

(* wait() takes the caller's own lock and starts to scan.                  *)
LEMMA WaitKeeps ==
  ASSUME IInv, NEW c \in CPUs, NEW p \in Procs, Wait(c, p)
  PROVE  IInv'
<1> USE Constants, Parts DEF Wait, At, Goto, Unlocked, fields, locals
<1>1. TypeOK'
  BY Zenon DEF TypeOK, States, Labels
<1>2. LockInv'
  BY DEF LockInv, TypeOK, ThreadInv, LocksSelf, LocksParent, OnCPU
<1>3. ScanInv'
  BY DEF ScanInv, TypeOK, IdxInv, Scanning
<1>4. ThreadInv'
  BY DEF ThreadInv, OnCPU, LocksSelf, LocksParent
<1>5. TreeInv'
  BY DEF TreeInv, ExitPcs, LocksParent, Scanning
<1>6. IdxInv'
  BY DEF IdxInv, Scanning
<1>7. ParentStable' /\ NoOrphans' /\ NoLostExit'
  BY DEF ParentStable, NoOrphans, NoLostExit
<1> QED BY <1>1, <1>2, <1>3, <1>4, <1>5, <1>6, <1>7, Zenon DEF IInv

(* wait() finds a child without holding its lock.                          *)
LEMMA WaitScanKeeps ==
  ASSUME IInv, NEW c \in CPUs, NEW p \in Procs, WaitScan(c, p)
  PROVE  IInv'
<1>a. idx[p] \in Procs
  BY ProcConstants, Parts DEF At, TypeOK, Procs, WaitScan
<1> USE Constants, Parts DEF WaitScan, At, Goto, fields, locals
<1>1. TypeOK'
  BY Zenon DEF TypeOK, States, Labels
<1>2. ThreadInv'
  BY DEF ThreadInv, TypeOK, OnCPU, LocksSelf, LocksParent
<1>3. LockInv'
  BY DEF LockInv, TypeOK, LocksSelf, LocksParent
<1>4. IdxInv'
  BY <1>a DEF IdxInv, Scanning
<1>5. ParentStable'
  BY <1>a DEF ParentStable, TypeOK, ThreadInv, OnCPU, LocksSelf, LocksParent
<1>6. TreeInv'
  BY DEF TreeInv, ExitPcs, LocksParent, Scanning
<1>7. ScanInv'
  BY DEF ScanInv
<1>8. NoOrphans' /\ NoLostExit'
  BY Zenon DEF NoOrphans, NoLostExit
<1> QED BY <1>1, <1>2, <1>3, <1>4, <1>5, <1>6, <1>7, <1>8, Zenon DEF IInv

(* wait() passes over a slot that is no child.                             *)
LEMMA WaitSkipKeeps ==
  ASSUME IInv, NEW c \in CPUs, NEW p \in Procs, WaitSkip(c, p)
  PROVE  IInv'
<1>a. idx[p] \in Procs /\ idx'[p] = idx[p] + 1
  BY ProcConstants, Parts DEF At, TypeOK, Procs, WaitSkip
<1>b. \A q \in Procs : q < idx'[p] => q < idx[p] \/ q = idx[p]
  BY <1>a, ProcConstants, Parts DEF At, TypeOK, Procs
<1> USE Constants, Parts DEF WaitSkip, At, fields, locals
<1>1. TypeOK'
  BY <1>a, <1>b, Zenon DEF TypeOK, States, Labels
<1>2. ScanInv'
  BY <1>a, <1>b DEF ScanInv
<1>3. ThreadInv'
  BY DEF ThreadInv, OnCPU, LocksSelf, LocksParent
<1>4. LockInv'
  BY Zenon DEF LockInv, LocksSelf, LocksParent
<1>5. TreeInv'
  BY DEF TreeInv, ExitPcs, LocksParent, Scanning
<1>6. IdxInv'
  BY DEF IdxInv, Scanning
<1>7. ParentStable' /\ NoOrphans' /\ NoLostExit'
  BY DEF ParentStable, NoOrphans, NoLostExit
<1> QED BY <1>1, <1>2, <1>3, <1>4, <1>5, <1>6, <1>7, Zenon DEF IInv

(* wait() passes over a child seen, under its lock, not to be a zombie.    *)
LEMMA WaitChildKeeps ==
  ASSUME IInv, NEW c \in CPUs, NEW p \in Procs, WaitChild(c, p)
  PROVE  IInv'
<1>a. idx[p] \in Procs /\ idx'[p] = idx[p] + 1
  BY ProcConstants, Parts, Zenon DEF At, TypeOK, Procs, IdxInv, WaitChild
<1>b. \A q \in Procs : q < idx'[p] => q < idx[p] \/ q = idx[p]
  BY <1>a, ProcConstants, Parts DEF At, TypeOK, Procs
<1> USE Constants, Parts DEF WaitChild, At, Goto, Unlocked, fields, locals
<1>1. TypeOK'
  BY <1>a, <1>b, Zenon DEF TypeOK, States, Labels
<1>2. ThreadInv'
  BY DEF ThreadInv, TypeOK, OnCPU, LocksSelf, LocksParent
<1>3. LockInv'
  BY DEF LockInv, TypeOK, LocksSelf, LocksParent
<1>4. ScanInv'
  BY <1>a, <1>b DEF ScanInv
<1>5. IdxInv'
  BY Zenon DEF IdxInv, TypeOK, Scanning
<1>6. ParentStable'
  BY Zenon DEF ParentStable, TypeOK
<1>7. TreeInv'
  BY DEF TreeInv, ExitPcs, LocksParent, Scanning
<1>8. NoOrphans' /\ NoLostExit'
  BY Zenon DEF NoOrphans, NoLostExit
<1> QED BY <1>1, <1>2, <1>3, <1>4, <1>5, <1>6, <1>7, <1>8, Zenon DEF IInv

(* wait() frees a zombie: it has no thread and, by TreeInv, no child.      *)
LEMMA WaitReapKeeps ==
  ASSUME IInv, NEW c \in CPUs, NEW p \in Procs, WaitReap(c, p)
  PROVE  IInv'
<1> USE Constants, Parts DEF WaitReap, At, Goto, Unlocked, freeproc,
         ScanReset, fields, locals
<1>1. TypeOK'
  BY Zenon DEF TypeOK, IdxInv, Scanning, States, Labels
<1>2. ThreadInv'
  BY DEF ThreadInv, TypeOK, LockInv, OnCPU, LocksSelf, LocksParent
<1>3. LockInv'
  BY DEF LockInv, TypeOK, LocksSelf, LocksParent
<1>4. TreeInv'
  BY DEF TreeInv, TypeOK, ThreadInv, ExitPcs, LocksParent, Scanning, OnCPU,
         LocksSelf
<1>5. IdxInv'
  BY Zenon DEF IdxInv, TypeOK, Scanning
<1>6. ParentStable'
  BY DEF ParentStable, TypeOK
<1>7. NoOrphans'
  BY Zenon DEF NoOrphans, TypeOK
<1>8. ScanInv'
  BY DEF ScanInv
<1>9. NoLostExit'
  BY DEF NoLostExit
<1> QED BY <1>1, <1>2, <1>3, <1>4, <1>5, <1>6, <1>7, <1>8, <1>9, Zenon DEF IInv

(* wait() returns -1 and leaves the zombie where it is.                    *)
LEMMA WaitCopyFailsKeeps ==
  ASSUME IInv, NEW c \in CPUs, NEW p \in Procs, WaitCopyFails(c, p)
  PROVE  IInv'
<1> USE Constants, Parts DEF WaitCopyFails, At, Goto, Unlocked, ScanReset,
         fields, locals
<1>1. TypeOK'
  BY Zenon DEF TypeOK, States, Labels
<1>2. ThreadInv'
  BY DEF ThreadInv, TypeOK, OnCPU, LocksSelf, LocksParent
<1>3. LockInv'
  BY DEF LockInv, TypeOK, LocksSelf, LocksParent
<1>4. IdxInv'
  BY Zenon DEF IdxInv, TypeOK, Scanning
<1>5. ParentStable'
  BY Zenon DEF ParentStable, TypeOK
<1>6. TreeInv'
  BY DEF TreeInv, ExitPcs, LocksParent, Scanning
<1>7. ScanInv'
  BY DEF ScanInv
<1>8. NoOrphans' /\ NoLostExit'
  BY Zenon DEF NoOrphans, NoLostExit
<1> QED BY <1>1, <1>2, <1>3, <1>4, <1>5, <1>6, <1>7, <1>8, Zenon DEF IInv

(* wait() returns -1 after a scan.                                         *)
LEMMA WaitFailKeeps ==
  ASSUME IInv, NEW c \in CPUs, NEW p \in Procs, NEW flags \in {0, 1},
         WaitFail(c, p, flags)
  PROVE  IInv'
<1> USE Constants, Parts DEF WaitFail, At, Goto, ScanReset, fields, locals
<1>1. TypeOK'
  BY Zenon DEF TypeOK, States, Labels
<1>2. LockInv'
  BY DEF LockInv, TypeOK, LocksSelf, LocksParent
<1>3. IdxInv'
  BY Zenon DEF IdxInv, TypeOK, Scanning
<1>4. ThreadInv'
  BY DEF ThreadInv, OnCPU, LocksSelf, LocksParent
<1>5. TreeInv'
  BY DEF TreeInv, ExitPcs, LocksParent, Scanning
<1>6. ScanInv'
  BY DEF ScanInv
<1>7. ParentStable' /\ NoOrphans' /\ NoLostExit'
  BY DEF ParentStable, NoOrphans, NoLostExit
<1> QED BY <1>1, <1>2, <1>3, <1>4, <1>5, <1>6, <1>7, Zenon DEF IInv

(* wait() sleeps: by ScanInv no slot behind the scan is a child's zombie.  *)
LEMMA WaitSleepKeeps ==
  ASSUME IInv, NEW c \in CPUs, NEW p \in Procs, NEW flags \in {0, 1},
         WaitSleep(c, p, flags)
  PROVE  IInv'
<1>a. \A q \in Procs : q < idx[p]
  BY ProcConstants, Parts DEF At, TypeOK, Procs, WaitSleep
<1> USE Constants, Parts DEF WaitSleep, At, Goto, ScanReset, fields, locals
<1>1. TypeOK'
  BY Zenon DEF TypeOK, States, Labels
<1>2. ThreadInv'
  BY DEF ThreadInv, TypeOK, OnCPU, LocksSelf, LocksParent
<1>3. LockInv'
  BY DEF LockInv, TypeOK, LocksSelf, LocksParent
<1>4. IdxInv'
  BY DEF IdxInv, TypeOK, Scanning
<1>5. NoOrphans'
  BY DEF NoOrphans, TypeOK, ThreadInv, OnCPU, LocksSelf, LocksParent
<1>6. NoLostExit'
  BY <1>a DEF NoLostExit, TypeOK, ScanInv
<1>7. TreeInv'
  BY DEF TreeInv, ExitPcs, LocksParent, Scanning
<1>8. ScanInv'
  BY DEF ScanInv
<1>9. ParentStable'
  BY DEF ParentStable
<1> QED BY <1>1, <1>2, <1>3, <1>4, <1>5, <1>6, <1>7, <1>8, <1>9, Zenon DEF IInv

-----------------------------------------------------------------------------
(* exit() is entered, never by init.                                       *)
LEMMA ExitKeeps ==
  ASSUME IInv, NEW c \in CPUs, NEW p \in Procs, Exit(c, p)
  PROVE  IInv'
<1> USE Constants, Parts DEF Exit, At, Goto, fields, locals
<1>1. TypeOK'
  BY Zenon DEF TypeOK, States, Labels
<1>2. ThreadInv'
  BY DEF ThreadInv, OnCPU, LocksSelf, LocksParent
<1>3. LockInv'
  BY DEF LockInv, LocksSelf, LocksParent
<1>4. TreeInv'
  BY DEF TreeInv, ExitPcs, LocksParent, Scanning
<1>5. ScanInv'
  BY DEF ScanInv
<1>6. IdxInv'
  BY DEF IdxInv, Scanning
<1>7. ParentStable' /\ NoOrphans' /\ NoLostExit'
  BY DEF ParentStable, NoOrphans, NoLostExit
<1> QED BY <1>1, <1>2, <1>3, <1>4, <1>5, <1>6, <1>7, Zenon DEF IInv

(* exit() wakes init.                                                      *)
LEMMA ExitWakeInitKeeps ==
  ASSUME IInv, NEW c \in CPUs, NEW p \in Procs, ExitWakeInit(c, p)
  PROVE  IInv'
<1> USE Constants, Parts DEF ExitWakeInit, At, Goto, Unlocked, wakeup1,
         fields, locals
<1>1. TypeOK'
  BY Zenon DEF TypeOK, States, Labels
<1>2. LockInv'
  BY DEF LockInv, TypeOK, LocksSelf, LocksParent
<1>3. ThreadInv'
  BY DEF ThreadInv, OnCPU, LocksSelf, LocksParent
<1>4. TreeInv'
  BY DEF TreeInv, ExitPcs, LocksParent, Scanning
<1>5. ScanInv'
  BY DEF ScanInv
<1>6. IdxInv'
  BY DEF IdxInv, Scanning
<1>7. ParentStable' /\ NoOrphans' /\ NoLostExit'
  BY DEF ParentStable, NoOrphans, NoLostExit
<1> QED BY <1>1, <1>2, <1>3, <1>4, <1>5, <1>6, <1>7, Zenon DEF IInv

(* exit() copies its parent, under its own lock.                           *)
LEMMA ExitParentKeeps ==
  ASSUME IInv, NEW c \in CPUs, NEW p \in Procs, ExitParent(c, p)
  PROVE  IInv'
<1> USE Constants, Parts DEF ExitParent, At, Goto, Unlocked, fields, locals
<1>1. TypeOK'
  BY Zenon DEF TypeOK, States, Labels
<1>2. ThreadInv'
  BY DEF ThreadInv, TypeOK, OnCPU, LocksSelf, LocksParent
<1>3. LockInv'
  BY DEF LockInv, TypeOK, LocksSelf, LocksParent
<1>4. TreeInv'
  BY DEF TreeInv, TypeOK, ThreadInv, NoOrphans, ExitPcs, LocksParent,
         Scanning, OnCPU, LocksSelf
<1>5. ScanInv'
  BY DEF ScanInv
<1>6. IdxInv'
  BY DEF IdxInv, Scanning
<1>7. ParentStable' /\ NoOrphans' /\ NoLostExit'
  BY DEF ParentStable, NoOrphans, NoLostExit
<1> QED BY <1>1, <1>2, <1>3, <1>4, <1>5, <1>6, <1>7, Zenon DEF IInv

(* exit() locks the parent it remembers.                                   *)
LEMMA ExitLockParentKeeps ==
  ASSUME IInv, NEW c \in CPUs, NEW p \in Procs, ExitLockParent(c, p)
  PROVE  IInv'
<1> USE Constants, Parts DEF ExitLockParent, At, Goto, Unlocked, fields,
         locals
<1>1. TypeOK'
  BY Zenon DEF TypeOK, TreeInv, ExitPcs, LocksParent, Scanning, States, Labels
<1>2. LockInv'
  BY DEF LockInv, TypeOK, ThreadInv, TreeInv, LocksSelf, LocksParent, OnCPU,
         ExitPcs, Scanning
<1>3. ThreadInv'
  BY DEF ThreadInv, OnCPU, LocksSelf, LocksParent
<1>4. TreeInv'
  BY DEF TreeInv, ExitPcs, LocksParent, Scanning
<1>5. ScanInv'
  BY DEF ScanInv
<1>6. IdxInv'
  BY DEF IdxInv, Scanning
<1>7. ParentStable' /\ NoOrphans' /\ NoLostExit'
  BY DEF ParentStable, NoOrphans, NoLostExit
<1> QED BY <1>1, <1>2, <1>3, <1>4, <1>5, <1>6, <1>7, Zenon DEF IInv

(* exit() locks itself, after its parent.                                  *)
LEMMA ExitLockSelfKeeps ==
  ASSUME IInv, NEW c \in CPUs, NEW p \in Procs, ExitLockSelf(c, p)
  PROVE  IInv'
<1> USE Constants, Parts DEF ExitLockSelf, At, Goto, Unlocked, fields,
         locals
<1>1. TypeOK'
  BY Zenon DEF TypeOK, States, Labels
<1>2. LockInv'
  BY DEF LockInv, TypeOK, LocksSelf, LocksParent
<1>3. TreeInv'
  BY DEF TreeInv, TypeOK, IdxInv, ExitPcs, LocksParent, Scanning
<1>4. ThreadInv'
  BY DEF ThreadInv, OnCPU, LocksSelf, LocksParent
<1>5. ScanInv'
  BY DEF ScanInv
<1>6. IdxInv'
  BY DEF IdxInv, Scanning
<1>7. ParentStable' /\ NoOrphans' /\ NoLostExit'
  BY DEF ParentStable, NoOrphans, NoLostExit
<1> QED BY <1>1, <1>2, <1>3, <1>4, <1>5, <1>6, <1>7, Zenon DEF IInv

(* reparent() finds a child without holding its lock.                      *)
LEMMA ExitFoundKeeps ==
  ASSUME IInv, NEW c \in CPUs, NEW p \in Procs, ExitFound(c, p)
  PROVE  IInv'
<1>a. idx[p] \in Procs
  BY ProcConstants, Parts DEF At, TypeOK, Procs, ExitFound
<1> USE Constants, Parts DEF ExitFound, At, Goto, fields, locals
<1>1. TypeOK'
  BY Zenon DEF TypeOK, States, Labels
<1>2. ThreadInv'
  BY DEF ThreadInv, TypeOK, OnCPU, LocksSelf, LocksParent
<1>3. LockInv'
  BY DEF LockInv, TypeOK, LocksSelf, LocksParent
<1>4. IdxInv'
  BY <1>a DEF IdxInv, Scanning
<1>5. ParentStable'
  BY <1>a DEF ParentStable, TypeOK, ThreadInv, OnCPU, LocksSelf, LocksParent
<1>6. TreeInv'
  BY DEF TreeInv, ExitPcs, LocksParent, Scanning
<1>7. ScanInv'
  BY DEF ScanInv
<1>8. NoOrphans' /\ NoLostExit'
  BY Zenon DEF NoOrphans, NoLostExit
<1> QED BY <1>1, <1>2, <1>3, <1>4, <1>5, <1>6, <1>7, <1>8, Zenon DEF IInv

(* reparent() passes over a slot that is no child.                         *)
LEMMA ExitSkipKeeps ==
  ASSUME IInv, NEW c \in CPUs, NEW p \in Procs, ExitSkip(c, p)
  PROVE  IInv'
<1>a. idx[p] \in Procs /\ idx'[p] = idx[p] + 1
  BY ProcConstants, Parts DEF At, TypeOK, Procs, ExitSkip
<1>b. \A q \in Procs : q < idx'[p] => q < idx[p] \/ q = idx[p]
  BY <1>a, ProcConstants, Parts DEF At, TypeOK, Procs
<1> USE Constants, Parts DEF ExitSkip, At, fields, locals
<1>1. TypeOK'
  BY <1>a, <1>b, Zenon DEF TypeOK, States, Labels
<1>2. TreeInv'
  BY <1>a, <1>b DEF TreeInv, ExitPcs, LocksParent, Scanning
<1>3. ThreadInv'
  BY DEF ThreadInv, OnCPU, LocksSelf, LocksParent
<1>4. LockInv'
  BY Zenon DEF LockInv, LocksSelf, LocksParent
<1>5. ScanInv'
  BY DEF ScanInv
<1>6. IdxInv'
  BY DEF IdxInv, Scanning
<1>7. ParentStable' /\ NoOrphans' /\ NoLostExit'
  BY DEF ParentStable, NoOrphans, NoLostExit
<1> QED BY <1>1, <1>2, <1>3, <1>4, <1>5, <1>6, <1>7, Zenon DEF IInv

(* reparent() has passed every slot: nobody has the exiting parent.        *)
LEMMA ExitScannedKeeps ==
  ASSUME IInv, NEW c \in CPUs, NEW p \in Procs, ExitScanned(c, p)
  PROVE  IInv'
<1>a. \A q \in Procs : q < idx[p]
  BY ProcConstants, Parts DEF At, TypeOK, Procs, ExitScanned
<1>b. \A q \in Procs : parent[q] # p
  BY <1>a, Parts, Zenon DEF TreeInv, Scanning, ExitScanned, At
<1> USE Constants, Parts DEF ExitScanned, At, Goto, fields, locals
<1>1. TypeOK'
  BY Zenon DEF TypeOK, States, Labels
<1>2. TreeInv'
  BY <1>a, <1>b DEF TreeInv, ExitPcs, LocksParent, Scanning
<1>3. ThreadInv'
  BY DEF ThreadInv, OnCPU, LocksSelf, LocksParent
<1>4. LockInv'
  BY DEF LockInv, LocksSelf, LocksParent
<1>5. ScanInv'
  BY DEF ScanInv
<1>6. IdxInv'
  BY DEF IdxInv, Scanning
<1>7. ParentStable' /\ NoOrphans' /\ NoLostExit'
  BY DEF ParentStable, NoOrphans, NoLostExit
<1> QED BY <1>1, <1>2, <1>3, <1>4, <1>5, <1>6, <1>7, Zenon DEF IInv

(* reparent() gives a child to init.                                       *)
LEMMA ExitGiveKeeps ==
  ASSUME IInv, NEW c \in CPUs, NEW p \in Procs, ExitGive(c, p)
  PROVE  IInv'
<1>a. idx[p] \in Procs /\ idx'[p] = idx[p] + 1
  BY ProcConstants, Parts, Zenon DEF At, TypeOK, Procs, IdxInv, ExitGive
<1>b. parent[idx[p]] = p /\ idx[p] \notin {p, initproc}
  BY Constants, <1>a, Parts DEF TreeInv, ParentStable, ExitGive, At
<1>c. \A q \in Procs : q < idx'[p] => q < idx[p] \/ q = idx[p]
  BY <1>a, ProcConstants, Parts DEF At, TypeOK, Procs
<1> USE Constants, Parts DEF ExitGive, At, Goto, Unlocked, fields, locals
<1>1. TypeOK'
  BY <1>a, <1>b, <1>c, Zenon DEF TypeOK, States, Labels
<1>2. ThreadInv'
  BY <1>a, <1>b, <1>c DEF ThreadInv, OnCPU, LocksSelf, LocksParent
<1>3. LockInv'
  BY DEF LockInv, TypeOK, LocksSelf, LocksParent
<1>4. TreeInv'
  <2> USE <1>a, <1>b DEF TypeOK, TreeInv
  <2>1. (state[initproc] \notin {"UNUSED", "ZOMBIE"} /\ parent[initproc] = NoProc)'
    OBVIOUS
  <2>2. ASSUME NEW r \in Procs
        PROVE (/\ parent[r] # r
               /\ pc[r] \in ExitPcs => r # initproc
               /\ pc[r] \in {"exit_lockparent"} \cup LocksParent =>
                    /\ oparent[r] \in Procs \ {r}
                    /\ parent[r] \in {oparent[r], initproc})'
    BY DEF ExitPcs, LocksParent
  <2>3. ASSUME NEW r \in Procs, NEW q \in Procs,
               (pc[r] \in {"exit_zombie", "exit_sched"} \/ (pc[r] \in Scanning /\ q < idx[r]))'
        PROVE  (parent[q] # r)'
    <3>1. CASE r = p
      BY <3>1, <2>3, <1>c DEF Scanning, ExitPcs, LocksParent
    <3>2. CASE r # p
      BY <3>2, <2>3 DEF Scanning, ExitPcs, LocksParent
    <3> QED BY <3>1, <3>2, Zenon
  <2> QED BY <2>1, <2>2, <2>3, Zenon
<1>5. IdxInv'
  BY Zenon DEF IdxInv, TypeOK, Scanning
<1>6. ParentStable'
  BY DEF ParentStable, TypeOK
<1>7. NoOrphans'
  BY DEF NoOrphans, TypeOK, TreeInv, ExitPcs, LocksParent, Scanning
<1>8. ScanInv'
  BY DEF ScanInv
<1>9. NoLostExit'
  BY DEF NoLostExit
<1> QED BY <1>1, <1>2, <1>3, <1>4, <1>5, <1>6, <1>7, <1>8, <1>9, Zenon DEF IInv

(* exit() wakes the parent and becomes a zombie, under both locks.         *)
LEMMA ExitZombieKeeps ==
  ASSUME IInv, NEW c \in CPUs, NEW p \in Procs, ExitZombie(c, p)
  PROVE  IInv'
<1>a. lock[p] = c /\ lock[oparent[p]] = c
  BY Parts, Zenon DEF ExitZombie, At, LockInv, LocksSelf, LocksParent
<1>b. state[p] = "RUNNING"
  BY Parts, Zenon DEF ExitZombie, At, ThreadInv, OnCPU
<1>c. /\ p # initproc /\ oparent[p] \in Procs \ {p}
       /\ parent[p] \in {oparent[p], initproc}
       /\ \A q \in Procs : parent[q] # p
  BY Parts, Zenon DEF ExitZombie, At, TreeInv, LocksParent, ExitPcs
<1> USE Constants, Parts DEF ExitZombie, At, Goto, wakeup1, ScanReset,
         fields, locals
<1>1. TypeOK'
  BY <1>a, <1>b, <1>c, Zenon DEF TypeOK, States, Labels
<1>2. ThreadInv'
  BY DEF ThreadInv, TypeOK, OnCPU, LocksSelf, LocksParent
<1>3. LockInv'
  BY <1>a, <1>b, <1>c DEF LockInv, TypeOK, LocksSelf, LocksParent
<1>4. TreeInv'
  BY DEF TreeInv, TypeOK, ExitPcs, LocksParent, Scanning
<1>5. ScanInv'
  BY <1>a, <1>b, <1>c DEF ScanInv, TypeOK, ThreadInv, LockInv, OnCPU,
         LocksSelf, LocksParent
<1>6. IdxInv'
  BY Zenon DEF IdxInv, TypeOK, Scanning
<1>7. ParentStable'
  BY DEF ParentStable, TypeOK, IdxInv, Scanning
<1>8. NoOrphans'
  BY <1>a, <1>b, <1>c, Zenon DEF NoOrphans, TypeOK
<1>9. NoLostExit'
  BY <1>a, <1>b, <1>c DEF NoLostExit, TypeOK
<1> QED BY <1>1, <1>2, <1>3, <1>4, <1>5, <1>6, <1>7, <1>8, <1>9, Zenon DEF IInv

(* exit() leaves its CPU for good.                                         *)
LEMMA ExitSchedKeeps ==
  ASSUME IInv, NEW c \in CPUs, NEW p \in Procs, ExitSched(c, p)
  PROVE  IInv'
<1>a. state[p] = "ZOMBIE"
  BY Parts, Zenon DEF ExitSched, At, ThreadInv, OnCPU
<1>b. p # initproc
  BY Parts, Zenon DEF ExitSched, At, TreeInv, ExitPcs
<1> USE Constants, Parts DEF ExitSched, At, Goto, fields, locals
<1>1. TypeOK'
  BY Zenon DEF TypeOK, States, Labels
<1>2. ThreadInv'
  BY DEF ThreadInv, TypeOK, OnCPU, LocksSelf, LocksParent
<1>3. LockInv'
  BY DEF LockInv, TypeOK, LocksSelf, LocksParent
<1>4. TreeInv'
  BY DEF TreeInv, ExitPcs, LocksParent, Scanning
<1>5. ScanInv'
  BY DEF ScanInv
<1>6. IdxInv'
  BY DEF IdxInv, Scanning
<1>7. ParentStable' /\ NoOrphans' /\ NoLostExit'
  BY DEF ParentStable, NoOrphans, NoLostExit
<1> QED BY <1>1, <1>2, <1>3, <1>4, <1>5, <1>6, <1>7, Zenon DEF IInv

(* Every step of the system keeps the invariant.                           *)
LEMMA NextIInv ==
  ASSUME IInv, [Next]_vars
  PROVE  IInv'
<1>1. CASE UNCHANGED vars
  <2> USE <1>1, Parts DEF vars, fields, locals
  <2>1. TypeOK'
    BY Zenon DEF TypeOK
  <2>2. ThreadInv' /\ LockInv'
    BY DEF ThreadInv, LockInv, OnCPU
  <2>3. TreeInv' /\ ScanInv' /\ IdxInv'
    BY DEF TreeInv, ScanInv, IdxInv
  <2>4. ParentStable' /\ NoOrphans' /\ NoLostExit'
    BY Zenon DEF ParentStable, NoOrphans, NoLostExit
  <2> QED
    BY <2>1, <2>2, <2>3, <2>4, Zenon DEF IInv
<1>2. ASSUME NEW c \in CPUs, NEW p \in Procs, Syscall(c, p)
      PROVE  IInv'
  BY <1>2, ForkKeeps, ForkNoTrapframeKeeps, ForkNoPagetableKeeps, KillKeeps,
     DevSleepKeeps, WaitKeeps, ExitKeeps, Zenon DEF Syscall
<1>3. ASSUME NEW c \in CPUs, NEW p \in Procs, InWait(c, p)
      PROVE  IInv'
  BY <1>3, WaitScanKeeps, WaitSkipKeeps, WaitChildKeeps, WaitReapKeeps,
     WaitCopyFailsKeeps, WaitFailKeeps, WaitSleepKeeps, Zenon DEF InWait, Flags
<1>4. ASSUME NEW c \in CPUs, NEW p \in Procs, InExit(c, p)
      PROVE  IInv'
  BY <1>4, ExitWakeInitKeeps, ExitParentKeeps, ExitLockParentKeeps,
     ExitLockSelfKeeps, ExitFoundKeeps, ExitSkipKeeps, ExitGiveKeeps,
     ExitScannedKeeps, ExitZombieKeeps, ExitSchedKeeps, Zenon DEF InExit
<1>5. ASSUME NEW c \in CPUs, NEW p \in Procs, scheduler(c, p) \/ Yield(c, p)
      PROVE  IInv'
  BY <1>5, DispatchKeeps, DispatchDevKeeps, DispatchWaitKeeps, YieldKeeps, Zenon
     DEF scheduler
<1>6. ASSUME NEW q \in Procs, DevWakeup(q)
      PROVE  IInv'
  BY <1>6, DevWakeupKeeps, Zenon
<1> QED
  BY <1>1, <1>2, <1>3, <1>4, <1>5, <1>6, Zenon DEF Next

(* The invariant holds in every reachable state of the process table.      *)
THEOREM Invariance == Spec => []IInv
<1>1. Init => IInv
  BY InitIInv, Zenon
<1>2. IInv /\ [Next]_vars => IInv'
  BY NextIInv, Zenon
<1> QED
  BY <1>1, <1>2, PTL DEF Spec

(* Type correctness: in particular the loop indices of wait() and          *)
(* reparent() stay within the table.                                       *)
THEOREM TypeCorrect == Spec => []TypeOK
<1>1. IInv => TypeOK
  BY Zenon DEF IInv
<1> QED
  BY <1>1, Invariance, PTL

(* A process is on at most one CPU, and its slot cannot be freed or reused *)
(* under its running kernel thread.                                        *)
THEOREM StackIsOwned == Spec => []KernelStackOwned
<1>1. ASSUME IInv
      PROVE  KernelStackOwned
  <2> SUFFICES ASSUME NEW c \in CPUs, cpu[c] # NoProc
               PROVE  /\ \A d \in CPUs : cpu[d] = cpu[c] => d = c
                      /\ \/ state[cpu[c]] = "RUNNING"
                         \/ state[cpu[c]] = "ZOMBIE" /\ lock[cpu[c]] = c
    BY Zenon DEF KernelStackOwned
  <2>1. cpu[c] \in Procs /\ OnCPU(cpu[c])
    BY <1>1, Parts, Zenon DEF TypeOK, OnCPU
  <2>2. \A d \in CPUs : cpu[d] = cpu[c] => d = c
    BY <1>1, Parts, Zenon DEF ThreadInv
  <2>3. state[cpu[c]] = "RUNNING" \/ (state[cpu[c]] = "ZOMBIE" /\ pc[cpu[c]] = "exit_sched")
    BY <1>1, <2>1, Parts, Zenon DEF ThreadInv
  <2>4. pc[cpu[c]] = "exit_sched" => lock[cpu[c]] = c
    BY <1>1, <2>1, Parts, Zenon DEF LockInv, LocksSelf
  <2> QED
    BY <2>2, <2>3, <2>4, Zenon
<1> QED
  BY <1>1, Invariance, PTL

(* The unlocked reads of p->parent in wait() and reparent() are sound.     *)
THEOREM ParentIsStable == Spec => []ParentStable
<1>1. IInv => ParentStable
  BY Zenon DEF IInv
<1> QED
  BY <1>1, Invariance, PTL

(* Every process but init always has a parent that has not exited.         *)
THEOREM NobodyIsOrphaned == Spec => []NoOrphans
<1>1. IInv => NoOrphans
  BY Zenon DEF IInv
<1> QED
  BY <1>1, Invariance, PTL

(* The wakeup of exit() is never lost on a parent that sleeps in wait().   *)
THEOREM ExitIsNotLost == Spec => []NoLostExit
<1>1. IInv => NoLostExit
  BY Zenon DEF IInv
<1> QED
  BY <1>1, Invariance, PTL
=============================================================================
