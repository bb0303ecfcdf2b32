# A verification of the kernel and its user library

The repository is a teaching operating system, xv6 for RISC-V, with changes to
`wait` (a `flags` argument that makes it return at once), `exit` (it prints its
parent and children) and a few added system calls. This directory holds TLA+
modules translated from its sources, TLC configurations that check them on small
instances, and TLAPS proofs that hold for every instance.

## The system and its parts

| part | sources | modules |
|---|---|---|
| processes: fork, exit, wait, kill, sleep, wakeup, scheduler | `kernel/proc.c`, `kernel/sysproc.c` | `Proc`, `MCProc`, `ProcProofs` |
| sleep locks | `kernel/sleeplock.c`, `sleep` and `wakeup` of `kernel/proc.c` | `Mutex` (abstract), `SleepLock`, `LockProofs` |
| redo log | `kernel/log.c` | `AtomicDisk` (abstract), `Log`, `MCLog`, `LogProofs` |
| buffer cache | `kernel/bio.c` | `Bcache`, `MCBcache`, `BcacheProofs` |
| pipes | `kernel/pipe.c` | `Pipe`, `MCPipe`, `PipeProofs` |
| blocks, inodes on disk, contents, directories | `kernel/fs.c` | `Disk` |
| inode cache, paths, file table, descriptors, file calls | `kernel/fs.c`, `kernel/file.c`, `kernel/sysfile.c` | `Fs`, `MCFs` |
| the disk image; programs that test files | `mkfs/mkfs.c`, `user/usertests.c` | `Mkfs`, `Usertests` |
| disk driver | `kernel/virtio_disk.c` | `Virtio`, `MCDevices`, `VirtioProofs` |
| console and serial line | `kernel/console.c`, `kernel/uart.c` | `Console`, `MCDevices`, `ConsoleProofs` |
| spinlocks, traps, interrupts, clock | `kernel/spinlock.c`, `kernel/trap.c`, `kernel/sysproc.c`, `kernel/proc.c` | `Cpu`, `MCDevices`, `LockProofs` |
| pages, page tables, user memory, exec | `kernel/kalloc.c`, `kernel/vm.c`, `kernel/exec.c` | `Memory`, `MCUser` |
| user allocator | `user/umalloc.c` | `Malloc`, `MCUser` |
| strings, numbers, paths, grep | `kernel/string.c`, `kernel/printf.c`, `user/ulib.c`, `user/printf.c`, `user/grep.c`, `kernel/fs.c` | `Text`, `MCUser` |
| shell and init | `user/sh.c`, `user/init.c` | `Shell`, `MCUser` |
| facts about numbers and remainders, for the proofs | | `Numbers` |

System calls run in the kernel thread of a process. Threads exclude each other
with spinlocks, and sleep and wake each other through `sleep` and `wakeup`. The
file calls use the inodes, which use the log, which calls the buffer cache, which
calls the disk driver; buffers and inodes carry sleep locks, which are built on
`sleep` and `wakeup`. Each layer is modelled against what the one below it
promises:

* `Fs` takes a transaction as what `AtomicDisk` says, a block as what `Bcache`
  says (`ReadsLatest`), and an inode's sleep lock as `Mutex` says;
* `Log` takes a buffer as memory that keeps its contents while it is pinned, and
  `Bcache` takes a transfer as one step, which is what `Virtio` shows of
  `virtio_disk_rw` (`DataMoved`);
* the drivers and `Pipe` take `sleep` and `wakeup` as they are in `Proc` and
  `SleepLock`: a thread that called `sleep` under the lock of its condition
  misses no `wakeup` under that lock.

`PROJECT.json` lists all parts, with the reason for those left out, and for
every definition the lines it stands for.

## What the modules model

**Proc.** One process table shared by several CPUs. The variables `state`,
`parent`, `chan`, `killed` and `pid` are fields of `struct proc`; `lock[q]` is
the CPU that holds `proc[q].lock`; `cpu[c]` is `c->proc`; `pc` is the place of
each kernel thread, and `idx`, `havekids` and `oparent` are locals of `wait`,
`reparent` and `exit`. A step is what a CPU does between two points where
another CPU can interfere: acquiring a `p->lock`, or reading `p->parent` without
one. `fork` is one step per outcome, because it holds the new slot's lock
throughout; `wait` (`Wait...`) and `exit` (`Exit...`) are many, because they hold
two locks and read parents without one. `swtch` hands `p->lock` from thread to
scheduler and back: `Dispatch`, `DispatchDev` and `DispatchWait` include what the
thread does with the lock when it comes back. `Yield` is a timer interrupt, or
`sys_yield`, at a place where interrupts are on. Device drivers are seen only as
something to sleep on (`DevSleep`, `DevWakeup`).

**SleepLock.** One sleep lock down to each `acquire` and `release` of `lk->lk`
and of the `p->lock`s in `sleep` and `wakeup`; `kill` may wake any sleeper.
`Mutex` says what a lock promises; `holder` and `wants` are computed from
`locked`, `pid` and `pc`.

**Log.** Critical sections under `log.lock` and single block transfers are
steps; `Crash` may come between any two, during recovery too. The cache is seen
through what the log relies on: a block whose count is zero may be read from the
disk again (`Recycle`). `AtomicDisk` says what the log promises: `mem` is what
the system reads, `dur` what a crash would leave, and `dur` only changes to `mem`
when no operation is open. The mapping reads `dur` off the disk and the header
(`Recovered`).

**Bcache.** The part of `bget` under `bcache.lock`, the wait for the sleep lock,
the disk read and the two parts of `brelse` are separate steps. A process holds
up to two buffers, as `write_log`, `install_trans`, `bmap` and `itrunc` do; a
reference is a process and which of its two buffers it is, and `Nested` says
which block may be asked for with which other one locked. When every buffer is
referenced `bget` panics, and the caller stays there. `bpin` and
`bunpin` come with what the log does around them; the `bunpin` that recovery
makes without a pin is in `Log`. `latest` is a history variable.

**Pipe.** Each byte is a step under `pi->lock`; `kill` is not under that lock. A
byte is its place in the stream, so order, loss and duplication can be seen;
`sent` and `taken` are history variables. The counters wrap at `UINT`.

**Disk, Fs, Mkfs, Usertests.** `Disk` has the functions of `fs.c` that change
blocks (`balloc`, `bmap`, `itrunc`, `readi`, `writei`, `ialloc`, `dirlookup`,
`dirlink`) as operators from a disk to a disk: a block is a few units, each a
datum, an address or a directory entry. The panics of the three files are
values of the disk's field for them, set where the code tests for them, so that
`CallsSafe` can say which are reached. `Fs` has the system calls on files as
steps between two `ilock`s, or under `icache.lock` or `ftable.lock`; `loc[p]`
holds the locals of the call of `p`. `iput` is three steps, as the code releases
`icache.lock` while it frees an inode. A process runs a program, a sequence of
calls with the results it accepts, and `fork` starts a child with the rest of
its own. `Mkfs` computes the disk that they start from. `Usertests` holds tests
of `usertests.c` as such programs. `written`, `strays`, `raced` and `unmet` are
history variables.

**Virtio.** The descriptors, the two rings and `info[]`, a device that fetches
requests in order and completes or fails them in any, the handler between its
look at the ring and its acknowledgement, and callers that are woken also by
`kill`. `failed` are the chains whose status byte the device has set; the
handler panics when it meets one, with its lock held.

**Console.** Readers and writers, `consoleintr` with its editing keys and
`uartintr`, the line buffer with its three wrapping indices, the transmit ring
with its two, and a UART that receives, sends and interrupts. The UART may have
sent a character before the loop of `uartstart` comes around, so one call sends
one character or more. `text`, `line`, `put` and `out` are history
variables.

**Cpu.** `noff`, `intena` and the SIE bit of each hart, `push_off`, `pop_off`,
`acquire`, `release` and `sched`, user and kernel traps at any point where
interrupts are on, the clock, and threads that move between harts while they
sleep or yield. The scheduler of a hart looks at the process table entry by
entry: it turns interrupts on once per pass, and the `acquire` of the next
entry finds the enable bit that the last process to leave the hart left.
`sys_sleep` counts ticks modulo `TICKS`.

**Memory.** The free list, three-level page tables, and the calls that allocate:
`fork`, `sbrk`, `exec` with its arguments, `wait` and `exit`, page by page, so
that another process can take the last page in between; every path back from a
failure is there. `view[p]` is the image that the program should see, a history
variable.

**Malloc, Text, Shell.** `Malloc` keeps its list in the headers of the heap, as
the code does; `nunits` is a `uint`, what `morecore` passes to `sbrk` an `int`.
`Text` puts each string algorithm beside a definition of what it should compute;
only `grep` takes steps, one per `read`. `Shell` has the parser, beside the
grammar of a line, and the processes that `runcmd` makes of it with the ends of
pipes that each holds.

Definitions whose comment begins with "Variant" change one definition the way a
plausible mistake would. No specification uses them; `PROJECT.json` pairs each
with the property that notices the change.

## The runs

| run | checks | result |
|---|---|---|
| `ProcSafety` | `IInv`, `KernelStackOwned`, `ParentStable`, `NoLostExit` | hold |
| `ProcLive` | `KilledExits`, `WaitReturns` | hold |
| `ProcLockCycle` | `NoLockCycle` | violated: a stale parent's lock closes a circle |
| `SleepLock` | `IInv`, `IsMutex`, `SomebodyGetsIt` | hold |
| `LogCrash` | `IdleIsDurable`, `IsAtomicDisk` | hold |
| `LogCache` | `NoPanic`, `IsAtomicDisk`, `SleeperWakes` | hold |
| `Bcache` | `ReadsLatest`, `RefcntExact`, `PanicsOnlyFull` | hold |
| `Pipe` | `Fifo`, `FreedUnused`, `AllDelivered`, `CallsReturn` | hold |
| `Fs` | `CallsSafe`, `FilesExact`, `CountsExact`, `TreeExact`, `NoCircularWait`, `TestsPass` | hold |
| `Devices` | `RequestsExact`, `ConsoleExact`, `LocksExact`, `SleepsExact`, `DataMoved`, `EofAlone` | hold |
| `DiskLost` | `RequestsFinish` | violated: an acknowledgement hides a completion |
| `User` | `MemoryExact`, `ImageExact`, `HeapExact`, `TextExact`, `ParseExact`, `PipesEnd`, `WaitsExact` | hold |

What they show, beyond their names:

* `ProcSafety`: a process runs on one CPU and its slot is not reused meanwhile;
  the parents that `wait` and `reparent` read without a lock stay true; nobody
  but init sleeps in `wait` beside a zombie. `ProcLive`: a killed process exits,
  wherever the kill finds it; `wait` returns.
* `LogCrash`: operations survive a crash, at any step of a commit or of a
  recovery, whole or not at all. `LogCache`: the same with a cache that recycles
  whatever is not pinned; reservations suffice; sleepers in `begin_op` wake.
* `Bcache`: whoever has locked a block sees its latest contents; counts are
  exact; and `bget` panics only when there are as many references and pins as
  buffers. With two processes that nest and a pin the three buffers do run out.
* `Fs`. `FilesExact`: a file holds what was written to it, in blocks of its own,
  the bitmap marks exactly the blocks in use, and unlocked inodes in memory are
  those on disk. `CountsExact`: references to inodes, files and ends of pipes are
  counted exactly, so nothing leaks when all have exited. `TreeExact`: link
  counts agree with the entries of reachable directories, entries name inodes in
  use, names are unique in a directory. `CallsSafe`: no panic of `file.c`, `fs.c`
  or `sysfile.c` other than for want of blocks, inodes or slots (and the two
  cases described below), every change in a transaction, and fewer than
  `MAXOPBLOCKS` blocks in each, which is what `NoPanic` of `Log` needs of it to
  exclude the panics of `log.c`. `NoCircularWait`, with TLC's
  deadlock check: every call returns. `TestsPass`: no interleaving makes one of
  the tests of `usertests.c` report a failure.
* `Devices`. `RequestsExact`: free descriptors and chains partition the table,
  each request is in exactly one place, and no caller sleeps for what nobody will
  do (a completion that an acknowledgement hides excepted, see `DiskLost`).
  `DataMoved`: `virtio_disk_rw` returns when the data has moved, and not at all
  when the device failed. `ConsoleExact`:
  the rings are the plain sequences of what was typed and written, a read returns
  at most a line, no reader sleeps beside one, a full buffer can be read, and
  output that waits has an interrupt to come. `EofAlone`: a ^D is read alone.
  `LocksExact`: `noff` and the interrupt bit follow the locks, on whichever hart a
  thread resumes, and no handler wants a lock its hart holds; a new process in
  `forkret` is the exception, it may have interrupts off until it is in user
  space. `SleepsExact`:
  `sys_sleep` waits its ticks also when the clock wraps, and who sleeps on the
  clock still has ticks to wait for.
* `User`. `MemoryExact`: every page is free once or used once, on every path,
  also when a call runs out of memory half-way. `ImageExact`: a process sees
  exactly what its program, its parent and itself wrote; a failed call leaves
  the image it found; `copyin` and `copyinstr` stop where they should.
  `HeapExact`: blocks tile the heap, the free list is sorted and coalesced.
  `TextExact`: the string algorithms compute what their definitions say.
  `ParseExact`: the parser accepts exactly the grammar and finds the one tree.
  `PipesEnd`, `WaitsExact`: no process keeps an end of a pipe it does not use,
  nobody waits in a circle, the prompt comes back after all of the foreground
  and leaves no child behind.

`ProcBorn.cfg`, `ProcInit.cfg`, `LogUnpin.cfg` and `LogFull.cfg` are not among
the runs; each asks one further question whose answer is no, see below.

### Bounds

* `Proc`: three slots make init, a parent and a child; pids up to `MaxPid` bound
  the number of forks, and leave one reuse of a slot. Two CPUs suffice for every
  pair of concurrent calls; `ProcLive` has one, on which threads interleave at
  every yield and sleep, since the races of two are settled by the invariants,
  which are proved for any number. The circle of `NoLockCycle` needs a fourth
  slot and a reuse: with three slots TLC finds none. Its run follows chains of
  forks only (`Chains`).
* `SleepLock`: three processes, a holder and two sleepers, on either side of it
  in the order of the table.
* `Log`: two processes make group commits. `LogCrash` has two crashes, so that
  the second can fall into the recovery from the first. In `LogCache` every
  buffer that may be recycled can be at any time; a process waits when the other
  has written a block and not ended. Its operations stay one block below their
  reservation, those of `LogFull` use all of it. The real log has three
  reservations of ten blocks.
* `Bcache`: two processes with up to two buffers each, one pin, three buffers
  and four blocks: every lookup may recycle, and the buffers can run out. Two
  nestings are allowed, a log block with an indirect one and an indirect block
  with a bitmap.
* `Pipe`: a ring of two bytes, calls of one and three bytes, counters modulo
  four: calls that block half way, and counters that wrap.
* `Fs`: blocks of two units and two direct addresses, so that files of a few
  units have indirect blocks and directories span blocks; seven inodes, six
  slots, four files and three descriptors, so that each table can run out;
  `MAXOPBLOCKS` is seven, so that a chunk of a write is one block. Two
  processes run every interesting pair of eight short scripts; families of up
  to three share descriptors by `fork`. A circle of more than two processes,
  which `NoCircularWait` does not look for, would be a deadlock.
* `Devices`: four callers for eight descriptors, two chains of three, so that
  two wait for descriptors, and one request that fails (in `DiskLost` none does);
  a console buffer of four keys and a transmit ring of
  four; two harts, two threads and a clock of three ticks, which wraps. The
  parts share no state but interrupts, and a behaviour exercises one of them.
* `User`: page tables of fan-out two with pages of four units; six amounts
  of physical memory, so that calls run out of it at different places; three
  calls in all by two processes. A heap of eleven headers, and requests whose size
  in bytes fits the `int` of `sbrk` (`MallocAssumption`). All patterns of up to three
  characters, files of five, lines of four tokens (five without redirection).
* `CHECK_DEADLOCK FALSE` in `Proc`, `Pipe`, `Devices` and `User`: all processes
  may be asleep for a device, a key or a child, or be done.

### Fairness

`Proc`: a thread with a CPU continues its `wait` or `exit`; schedulers loop over
the whole table and timer interrupts take the CPU from a thread without locks,
so every runnable thread gets a CPU; a spinlock that is free again and again is
acquired in the end, which is why the conditions are strong; devices interrupt.
Programs other than init owe nothing. `SleepLock`: threads run, holders release
the lock, and `lk->lk` is acquired in the end by a `releasesleep` although
sleepers that are killed keep using it. `Log`: threads run, operations end, the
disk answers. `Pipe`: calls run, readers read again, writers close; this is
about the programs, and is what delivery depends on. `Virtio` (`DiskFair`):
woken callers run, a pending interrupt is served, the device fetches and
completes; `RequestsFinish` fails in spite of all of it. `Fs`, `Devices` and
`User` check safety only: who waits is shown to have something to wait for.

## What is proved

For every number of slots, CPUs, processes, blocks and buffers:

* `ProcProofs`: `Invariance` (`IInv`), and from it `TypeCorrect`,
  `StackIsOwned`, `ParentIsStable`, `NobodyIsOrphaned` and `ExitIsNotLost`. The
  properties are not inductive alone. `NoLostExit` needs `ScanInv`, what a scan
  has established for the slots behind it, and this holds because the scanner
  keeps its own lock (`LockInv`), which its children need in order to exit.
  `ParentStable` needs `TreeInv`: only the parent, or an exiting parent's scan,
  changes the field. `NoOrphans` needs the part of `TreeInv` that says that a
  scan of `reparent` leaves no child behind it, although others fork meanwhile.
  `KernelStackOwned` follows from `ThreadInv` and `LockInv`.
* `LockProofs`, of `SleepLock`: `Invariance` (`IInv`), `TypeCorrect`,
  `ExclusionHolds`, `NoWakeupIsLost`, and `ImplementsMutex`, the refinement. The
  invariant adds which place holds which lock, and that a process which has
  released `lk->lk` but is not `SLEEPING` yet is also ahead of the waker.
* `LogProofs`: `Invariance` (`IInv`). The invariant says how far a commit or a
  recovery has come: which log blocks are copied, which home blocks are
  installed, what the header on disk is (`Phases`, `Recovery`), that the counters
  count the operations (`Counted`), that no block is logged twice, and which
  blocks are pinned (`Pins`). From it, `ImplementsAtomicDisk`, the refinement:
  `write_head` is the one step at which `dur` becomes `mem`, since until then
  recovery would find the old header, and afterwards it would find copies of all
  that the cache holds; installing does not change what recovery would make of
  the disk. Like the invariant, it assumes that a cache that recycles buffers has
  not been through a crash (`Recycles => MaxCrashes = 0`), see `LogUnpin` below.
  `IdleIsOnDisk`; `SleeperIsServed`; `LoggedStayPinned`, before a crash
  (`MaxCrashes = 0`); and `NeverPanics`, for operations that write fewer than
  `MAXOPBLOCKS` blocks (`OpBlocks < MAXOPBLOCKS < LOGSIZE <= NLOG`). It rests on
  one more invariant, `Space`: the log has room for all that the operations under
  way may still write, counted as a set of pairs (`Unspent`) so that the
  library's cardinality theorems apply.
* `PipeProofs`: `Invariance` (`IInv`), `BytesInOrder`, `FullIsExact`,
  `NoWakeupIsLost`, `FreedIsUnused`, for any pipe size that divides the number of
  values of the counters. `Ring` says that the wrapping counters are the numbers
  of bytes modulo `UINT` and where each byte lies, which takes a few lemmas about
  remainders; `Sleepers` says that whoever has the lock and has made a sleeper's
  condition true is still ahead of its `wakeup`.
* `BcacheProofs`: `Invariance` (`IInv`), `LatestIsRead`, `CountsAreExact`, and
  `BufferIsFound` (`PanicsOnlyFull`), for any number of buffers. The
  invariant adds that a valid buffer holds the latest contents of its block, that
  an unpinned block has them on disk, and a pinned one in some buffer
  (`Contents`); that the counts do not wrap follows from there being fewer
  references than `UINT - 1`. `BufferIsFound` counts: when no buffer is unused,
  choosing for each a reference or the pin that accounts for its count gives
  `NBUF` of them.
* `LockProofs`, of `Cpu`, for any numbers of harts and threads, whatever system
  calls they make, and any width of the clock: `CpuInvariance` (`CpuInv`),
  `LocksNest` (`LocksExact`) and `SleepLasts` (`SleepsExact`). `LocksExact` says
  what `noff` and the interrupt bit are, not why a thread that moves to another
  hart finds them right. `CpuInv` adds that: the locks of a hart are those of
  the context it runs, `intena` is on exactly if they were taken outside of a
  trap (`Nests`), whatever it was when the scheduler took `p->lock`, and a
  thread that was switched out holds no lock and carries the `intena` it left
  with (`SwitchedOut`). For the clock, `Sleeps` ties the ticks counted modulo
  `TICKS` to the number of ticks since the sleep began.
* `VirtioProofs`, for any numbers of callers, buffers and descriptors and any
  width of the indices that the ring size divides: `DiskInvariance` (`DiskInv`),
  `RequestsAgree` (`RequestsExact`) and `DataArrives` (`DataMoved`). `DiskInv`
  adds the shape of every chain and that chains are disjoint (`ChainsInv`), that
  no request is twice in a ring or in two places (`RingsInv`), that `b->disk` is
  set exactly while the request is in flight (`OwnersInv`), and what the buffer
  and the disk hold before and after the device has served it (`DataInv`). That
  the rings cannot overrun is counted: there are fewer requests than descriptors.
* `ConsoleProofs`, for any numbers of readers and writers, any keys, any sizes of
  the two rings, and indices of any width that is a multiple of at least two of
  the buffer: `ConsInvariance` (`ConsInv`), `ConsoleAgrees` (`ConsoleExact`) and
  `EofReadAlone` (`EofAlone`). `ConsInv` adds that a read that goes on has met no
  newline (`ReadsOn`), and that a full buffer has been handed over (`Handed`).
  The work is in the rings: the lemmas `RingPlaces` to `PictureTake` relate the
  wrapping indices to concatenations of sequences. With indices as wide as the
  buffer a full ring would look empty, which is why twice the size is assumed.

The proofs assume the named assumptions on the constants (`ProcConstants`,
`SleepLockConstants`, `LogConstants`, `PipeConstants`, `BcacheConstants`,
`CpuAssumption`, `RingAssumption`, `NoBufAssumption`, `BufAssumption`,
`CharAssumption`), which TLC evaluates in the runs. The rings of the code
satisfy them: 8 divides 2^16, and 512 (pipe) and 128 (console) divide 2^32. In
`ProcConstants`, that nobody kills init is an assumption about the programs:
with it, `exit` never meets its panic. All the inductive invariants were
model-checked on the instances of the runs before they were proved.

The lemmas about numbers and remainders that several of these proofs share are
in `Numbers`.

Only model-checked: all liveness properties, since fairness is outside the
prover's reach, and everything about `Fs` and `User`. In these two, what the code
computes is mostly recursive or iterates over data (paths, lists of blocks, page
tables, strings, parse trees), and induction over data is outside the prover's
reach too.

## Known disagreements

Places where the code does not do what a comment, a message or its own checks
say. The first two are runs, the next four the extra configurations; the others
came up while modelling and are kept out of the properties as described.

* `exit` locks a copy of `p->parent` that may name another process by then
  (`kernel/proc.c:349`), and two CPUs can spin for each other's locks; the comment
  above calls the result harmless. Run `ProcLockCycle`.
* `virtio_disk_intr` acknowledges after its last look at the ring
  (`kernel/virtio_disk.c:244`): a completion in between goes unnoticed until the
  next. Run `DiskLost`.
* `kill` may find its pid on a slot that is not in use (`kernel/proc.c:590`), and
  the slot's next process is born killed. `ProcBorn.cfg`, `BornAlive`.
* `exit` wakes init before it gives it its children (`kernel/proc.c:332`), so init
  may sleep beside an inherited zombie until its next child exits. `ProcInit.cfg`,
  `InitReaps`.
* `install_trans` unpins in recovery what recovery never pinned
  (`kernel/log.c:73`), and the count wraps: a block that is logged afterwards may
  be counted as unused. `LogUnpin.cfg`, `LoggedArePinned`.
* Operations that write all of their `MAXOPBLOCKS` do not fit the log that
  `begin_op` reserves for them, as the header takes a block of it
  (`kernel/log.c:196`). `LogFull.cfg`, `NoPanic`.
* `iput` releases `icache.lock` between freeing an inode and dropping its
  reference (`kernel/fs.c:320`): an `ialloc` in between can be handed the inode,
  whose last `iput` then does not free it (`LastPutFrees`; the inodes in `raced`).
* A process may `link` or create in a directory that has been removed under it:
  `nlink` then counts an entry nobody can reach (`kernel/fs.h:36`, `NlinkExact`; the
  inodes in `strays`), and the `..` of such a directory may name a freed inode,
  which `ilock` answers with a panic (`kernel/fs.c:285`, `InodeHasType`;
  `GoneParent`).
* `consolewrite` holds `cons.lock` while `uartputc` may sleep
  (`kernel/console.c:65`, `kernel/uart.c:80`), and `sched` panics when a spinlock
  is held: `PutcBlocks` of `Console` fails. The model stops there.
* `writei` returns `n` also after a copy from user memory that failed half-way.
* `sys_sleep` with a negative argument compares it as unsigned, and sleeps for
  almost as long as the clock takes to wrap.
* `sys_yield` announces the first runnable slot of the table, which need not be
  the process that runs next.
* `NFILE` is larger than `NINODE`, so that opening enough files panics in `iget`
  ("iget: no inodes") before `filealloc` fails.
* `morecore` passes the size of what `malloc` wants, in bytes, to `sbrk`, which
  takes an `int` (`user/umalloc.c:48`): for 2^31 bytes or more the break would
  move by another amount. The requests of the model are smaller.
* `mkfs` rounds the size of the root directory up to the next block also when it
  is a multiple already (`mkfs/mkfs.c:163`): its last block is not allocated then.

## What is not modelled, and why

* `kernel/syscall.c`: dispatch by number and fetching of arguments, without state
  of its own; `copyin` and `copyinstr`, on which it rests, are in `Memory`.
* `kernel/plic.c`, `kernel/start.c`, `entry.S`, `swtch.S`, `trampoline.S`,
  `kernelvec.S`, `kvminit`: registers of the machine and the order of
  instructions; `Cpu` models what they do to interrupts, `Memory` where the
  trampoline is mapped. `kernel/ramdisk.c` is not used.
* Formatting of output (`printf`, `procdump`, what `exit`, `sys_yield` and
  `sys_rename` print or rename), `sys_getpid`, `sys_uptime`: no state that another
  part depends on. The conversions of numbers are in `Text`.
* The other programs under `user/`: straight-line uses of the calls above, or
  random ones (`grind`). Of `usertests.c`, the tests that are about files and
  scale down are modelled; the others are about memory sizes, invalid addresses
  and exhausting the machine, for which the instances of `Memory` and `Proc` stand.
* Time: retries and timeouts do not occur in this code, except `sys_sleep`.
