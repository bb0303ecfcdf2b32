--------------------------------- MODULE Log ---------------------------------
(***************************************************************************)
(* The redo log of kernel/log.c: begin_op, log_write, end_op with its      *)
(* group commit, and recovery after a crash.  A step is a critical section *)
(* under log.lock or the transfer of one block to the disk; a crash may    *)
(* fall between any two steps, those of recovery included.  A block        *)
(* transfer is atomic, and durable once virtio_disk_rw() has returned.     *)
(*                                                                         *)
(* The buffer cache is seen through what the log relies on: cache[b] is    *)
(* what a bread() of b returns, refcnt[b] the reference count of b's       *)
(* buffer when no process holds it, and a buffer whose count is zero may   *)
(* be recycled, after which b is read from the disk again.                 *)
(***************************************************************************)
EXTENDS Integers, Sequences, FiniteSets

CONSTANTS Procs,        \* processes that make file-system calls
          Blocks, Vals, \* home blocks and their possible contents
          MAXOPBLOCKS, LOGSIZE,   \* kernel/param.h
          NLOG,         \* log.size: blocks of the on-disk log, header included
          OpBlocks,     \* bound: distinct blocks an operation really writes
          UINT,         \* number of values of the counter refcnt
          Recycles,     \* whether the cache is small enough to recycle buffers
          MaxCrashes    \* bound: number of crashes

ASSUME LogConstants ==
  /\ MAXOPBLOCKS \in Nat \ {0} /\ LOGSIZE \in Nat \ {0} /\ NLOG \in Nat \ {0}
  /\ MAXOPBLOCKS <= LOGSIZE
  /\ OpBlocks \in Nat /\ OpBlocks <= MAXOPBLOCKS
  /\ UINT \in Nat \ {0, 1}
  /\ Recycles \in BOOLEAN /\ MaxCrashes \in Nat
  /\ Vals # {} /\ IsFiniteSet(Procs)

VARIABLES
  disk,          \* disk[b]: home location of block b
  dlog,          \* dlog[i]: block i of the on-disk log
  dhead,         \* block numbers in the on-disk header
  cache, refcnt, \* the buffer cache
  lh,            \* log.lh: block numbers, lh.n is its length
  outstanding, committing, \* log.outstanding, log.committing
  pc,
  wrote,         \* wrote[p]: blocks logged by p's operation
  tail,          \* loop variable of write_log() and install_trans()
  boot,          \* recovery: "read_head", "install", "clear_head", then "up"
  crashes        \* number of crashes so far

onDisk == <<disk, dlog, dhead>>
vars == <<onDisk, cache, refcnt, lh, outstanding, committing, pc, wrote, tail,
          boot, crashes>>

Commits == {"write_log", "write_head", "install", "clear_head", "committed"}

(* struct log, struct logheader: the log in memory and on disk, the counts *)
(* and the locals of the operations keep their types.                      *)
TypeOK ==
  /\ disk \in [Blocks -> Vals]
  /\ dlog \in [1 .. LOGSIZE -> Vals]
  /\ dhead \in Seq(Blocks) /\ Len(dhead) <= LOGSIZE
  /\ cache \in [Blocks -> Vals]
  /\ refcnt \in [Blocks -> 0 .. UINT - 1]
  /\ lh \in Seq(Blocks) /\ Len(lh) <= LOGSIZE
  /\ outstanding \in Nat
  /\ committing \in BOOLEAN
  /\ pc \in [Procs -> {"idle", "begin", "asleep", "op"} \cup Commits]
  /\ wrote \in [Procs -> SUBSET Blocks]
  /\ tail \in 0 .. LOGSIZE
  /\ boot \in {"read_head", "install", "clear_head", "up"}
  /\ crashes \in 0 .. MaxCrashes

(* A machine that was shut down cleanly, after fsinit().                   *)
Init ==
  /\ \E v \in Vals : disk = [b \in Blocks |-> v] /\ dlog = [i \in 1 .. LOGSIZE |-> v]
  /\ dhead = <<>>
  /\ cache = disk
  /\ refcnt = [b \in Blocks |-> 0]
  /\ lh = <<>>
  /\ outstanding = 0 /\ committing = FALSE
  /\ pc = [p \in Procs |-> "idle"]
  /\ wrote = [p \in Procs |-> {}]
  /\ tail = 0
  /\ boot = "up"
  /\ crashes = 0

-----------------------------------------------------------------------------
Up == boot = "up"
Goto(p, l) == pc' = [pc EXCEPT ![p] = l]
Logged == {lh[i] : i \in 1 .. Len(lh)}

(* wakeup(&log): every process that sleeps in begin_op() tests again.      *)
Woken(f) == [p \in Procs |-> IF f[p] = "asleep" THEN "begin" ELSE f[p]]

Call(p) ==
  /\ Up /\ pc[p] = "idle"
  /\ Goto(p, "begin")
  /\ UNCHANGED <<onDisk, cache, refcnt, lh, outstanding, committing, wrote, tail,
                 boot, crashes>>

(* Variant: the space reserved by the other operations is forgotten.       *)
MustWaitAlone == committing \/ Len(lh) + MAXOPBLOCKS > LOGSIZE

(* The conditions under which begin_op() waits.                            *)
MustWait == committing \/ Len(lh) + (outstanding + 1) * MAXOPBLOCKS > LOGSIZE

(* Variant: the operation is not counted.                                  *)
begin_op_uncounted(p) ==
  /\ Up /\ pc[p] = "begin"
  /\ Goto(p, IF MustWait THEN "asleep" ELSE "op")
  /\ UNCHANGED <<onDisk, cache, refcnt, lh, outstanding, committing, wrote, tail,
                 boot, crashes>>

begin_op(p) ==
  /\ Up /\ pc[p] = "begin"
  /\ \/ MustWait /\ Goto(p, "asleep") /\ UNCHANGED outstanding
     \/ ~MustWait /\ Goto(p, "op") /\ outstanding' = outstanding + 1
  /\ UNCHANGED <<onDisk, cache, refcnt, lh, committing, wrote, tail, boot,
                 crashes>>

(* The operation of p keeps to OpBlocks distinct blocks.                   *)
MayWrite(p, b) == b \in wrote[p] \/ Cardinality(wrote[p]) < OpBlocks

(* The test that log_write() panics on; it comes before the search for a   *)
(* block that is in the log already.                                       *)
HasSpace == Len(lh) < LOGSIZE /\ Len(lh) < NLOG - 1

(* Variant: the block is not pinned.                                       *)
log_write_unpinned(p, b, v) ==
  /\ Up /\ pc[p] = "op" /\ MayWrite(p, b) /\ HasSpace
  /\ cache' = [cache EXCEPT ![b] = v]
  /\ wrote' = [wrote EXCEPT ![p] = @ \cup {b}]
  /\ lh' = IF b \in Logged THEN lh ELSE Append(lh, b)
  /\ UNCHANGED <<onDisk, refcnt, outstanding, committing, pc, tail, boot, crashes>>

(* The caller changes block b in its locked buffer and calls log_write().  *)
log_write(p, b, v) ==
  /\ Up /\ pc[p] = "op" /\ MayWrite(p, b) /\ HasSpace
  /\ cache' = [cache EXCEPT ![b] = v]
  /\ wrote' = [wrote EXCEPT ![p] = @ \cup {b}]
  /\ lh' = IF b \in Logged THEN lh ELSE Append(lh, b)
  /\ refcnt' = [refcnt EXCEPT ![b] = IF b \in Logged THEN @ ELSE (@ + 1) % UINT]
  /\ UNCHANGED <<onDisk, outstanding, committing, pc, tail, boot, crashes>>

(* end_op(): the last operation out commits; any other wakes begin_op().   *)
end_op(p) ==
  /\ Up /\ pc[p] = "op"
  /\ outstanding' = outstanding - 1
  /\ wrote' = [wrote EXCEPT ![p] = {}]
  /\ \/ /\ outstanding = 1
        /\ committing' = TRUE
        /\ Goto(p, IF lh = <<>> THEN "committed" ELSE "write_log")
     \/ /\ outstanding # 1
        /\ pc' = Woken([pc EXCEPT ![p] = "idle"])
        /\ UNCHANGED committing
  /\ UNCHANGED <<onDisk, cache, refcnt, lh, tail, boot, crashes>>

-----------------------------------------------------------------------------
(* commit(), by the process p that set log.committing.                     *)

(* Variant: the last block is not copied.                                  *)
write_log_short(p) ==
  /\ Up /\ pc[p] = "write_log"
  /\ \/ /\ tail + 1 < Len(lh)
        /\ dlog' = [dlog EXCEPT ![tail + 1] = cache[lh[tail + 1]]]
        /\ tail' = tail + 1
        /\ UNCHANGED pc
     \/ /\ tail + 1 = Len(lh)
        /\ tail' = 0
        /\ Goto(p, "write_head")
        /\ UNCHANGED dlog
  /\ UNCHANGED <<disk, dhead, cache, refcnt, lh, outstanding, committing, wrote,
                 boot, crashes>>

write_log(p) ==
  /\ Up /\ pc[p] = "write_log"
  /\ \/ /\ tail < Len(lh)
        /\ dlog' = [dlog EXCEPT ![tail + 1] = cache[lh[tail + 1]]]
        /\ tail' = tail + 1
        /\ UNCHANGED pc
     \/ /\ tail = Len(lh)
        /\ tail' = 0
        /\ Goto(p, "write_head")
        /\ UNCHANGED dlog
  /\ UNCHANGED <<disk, dhead, cache, refcnt, lh, outstanding, committing, wrote,
                 boot, crashes>>

write_head(p) ==
  /\ Up /\ pc[p] = "write_head"
  /\ dhead' = lh
  /\ Goto(p, "install")
  /\ UNCHANGED <<disk, dlog, cache, refcnt, lh, outstanding, committing, wrote,
                 tail, boot, crashes>>

(* One iteration of install_trans(): log block to home block, through the  *)
(* cache, and bunpin() whether or not the block was pinned.                *)
install_block ==
  /\ tail < Len(lh)
  /\ disk' = [disk EXCEPT ![lh[tail + 1]] = dlog[tail + 1]]
  /\ cache' = [cache EXCEPT ![lh[tail + 1]] = dlog[tail + 1]]
  /\ refcnt' = [refcnt EXCEPT ![lh[tail + 1]] = (@ - 1) % UINT]
  /\ tail' = tail + 1

(* Variant: the log is erased before anything is installed.                *)
install_trans_skipped(p) ==
  /\ Up /\ pc[p] = "install"
  /\ Goto(p, "clear_head")
  /\ UNCHANGED <<onDisk, cache, refcnt, lh, outstanding, committing, wrote, tail,
                 boot, crashes>>

install_trans(p) ==
  /\ Up /\ pc[p] = "install"
  /\ \/ install_block /\ UNCHANGED pc
     \/ /\ tail = Len(lh)
        /\ tail' = 0
        /\ Goto(p, "clear_head")
        /\ UNCHANGED <<disk, cache, refcnt>>
  /\ UNCHANGED <<dlog, dhead, lh, outstanding, committing, wrote, boot, crashes>>

clear_head(p) ==
  /\ Up /\ pc[p] = "clear_head"
  /\ lh' = <<>>
  /\ dhead' = <<>>
  /\ Goto(p, "committed")
  /\ UNCHANGED <<disk, dlog, cache, refcnt, outstanding, committing, wrote, tail,
                 boot, crashes>>

(* Variant: end_op() does not wake the processes in begin_op().            *)
CommittedQuietly(p) ==
  /\ Up /\ pc[p] = "committed"
  /\ committing' = FALSE
  /\ Goto(p, "idle")
  /\ UNCHANGED <<onDisk, cache, refcnt, lh, outstanding, wrote, tail, boot,
                 crashes>>

(* The end of end_op().                                                    *)
Committed(p) ==
  /\ Up /\ pc[p] = "committed"
  /\ committing' = FALSE
  /\ pc' = Woken([pc EXCEPT ![p] = "idle"])
  /\ UNCHANGED <<onDisk, cache, refcnt, lh, outstanding, wrote, tail, boot,
                 crashes>>

-----------------------------------------------------------------------------
(* Variant: the cache recycles pinned buffers too.                         *)
RecyclePinned(b) ==
  /\ Up /\ Recycles
  /\ cache' = [cache EXCEPT ![b] = disk[b]]
  /\ UNCHANGED <<onDisk, refcnt, lh, outstanding, committing, pc, wrote, tail,
                 boot, crashes>>

(* The cache recycles the buffer of b; the next bread(b) reads the disk.   *)
Recycle(b) ==
  /\ Up /\ Recycles
  /\ refcnt[b] = 0
  /\ cache' = [cache EXCEPT ![b] = disk[b]]
  /\ UNCHANGED <<onDisk, refcnt, lh, outstanding, committing, pc, wrote, tail,
                 boot, crashes>>

(* A crash loses everything that is not on the disk.                       *)
Crash ==
  /\ crashes < MaxCrashes
  /\ crashes' = crashes + 1
  /\ cache' = disk
  /\ refcnt' = [b \in Blocks |-> 0]
  /\ lh' = <<>>
  /\ outstanding' = 0 /\ committing' = FALSE
  /\ pc' = [p \in Procs |-> "idle"]
  /\ wrote' = [p \in Procs |-> {}]
  /\ tail' = 0
  /\ boot' = "read_head"
  /\ UNCHANGED onDisk

(* initlog(), recover_from_log().                                          *)
read_head ==
  /\ boot = "read_head"
  /\ lh' = dhead
  /\ boot' = "install"
  /\ UNCHANGED <<onDisk, cache, refcnt, outstanding, committing, pc, wrote, tail,
                 crashes>>

recover_install ==
  /\ boot = "install"
  /\ \/ install_block /\ UNCHANGED boot
     \/ /\ tail = Len(lh)
        /\ tail' = 0
        /\ boot' = "clear_head"
        /\ UNCHANGED <<disk, cache, refcnt>>
  /\ UNCHANGED <<dlog, dhead, lh, outstanding, committing, pc, wrote, crashes>>

recover_clear ==
  /\ boot = "clear_head"
  /\ lh' = <<>>
  /\ dhead' = <<>>
  /\ boot' = "up"
  /\ UNCHANGED <<disk, dlog, cache, refcnt, outstanding, committing, pc, wrote,
                 tail, crashes>>

commit(p) == write_log(p) \/ write_head(p) \/ install_trans(p) \/ clear_head(p)

Next ==
  \/ \E p \in Procs :
       \/ Call(p) \/ begin_op(p) \/ end_op(p) \/ commit(p) \/ Committed(p)
       \/ \E b \in Blocks, v \in Vals : log_write(p, b, v)
  \/ \E b \in Blocks : Recycle(b)
  \/ Crash \/ read_head \/ recover_install \/ recover_clear

Spec == Init /\ [][Next]_vars

-----------------------------------------------------------------------------
(* Properties.                                                             *)

(* What recovery makes of header h, log l and home blocks d, and so what a *)
(* crash would leave.                                                      *)
Recovered(h, l, d) ==
  [b \in Blocks |-> IF \E j \in 1 .. Len(h) : h[j] = b
                    THEN l[CHOOSE j \in 1 .. Len(h) : h[j] = b] ELSE d[b]]
durBar == Recovered(dhead, dlog, disk)
memBar == IF boot = "up" THEN cache ELSE durBar

AD == INSTANCE AtomicDisk WITH mem <- memBar, dur <- durBar, open <- outstanding

(* begin_op(), log_write(), end_op(), commit(), recover_from_log():        *)
(* file-system calls are atomic with respect to crashes.                   *)
IsAtomicDisk == AD!Spec

(* commit(): once the log is idle, everything that was written is durable. *)
IdleIsDurable ==
  (boot = "up" /\ outstanding = 0 /\ ~committing) => durBar = cache

(* log_write(): "Record the block number and pin in the cache by           *)
(* increasing refcnt": a block stays pinned until it is installed.         *)
LoggedArePinned ==
  (boot = "up" /\ \A p \in Procs : pc[p] \notin {"install", "clear_head"}) =>
    \A b \in Logged : refcnt[b] # 0

(* begin_op(), log_write(), end_op(): no call meets the condition of one   *)
(* of its panics: "too big a transaction", since begin_op() reserves       *)
(* MAXOPBLOCKS for every operation, "log_write outside of trans" and       *)
(* "log.committing".                                                       *)
NoPanic ==
  Up => \A p \in Procs : pc[p] = "op" =>
          /\ (\E b \in Blocks : MayWrite(p, b)) => HasSpace
          /\ outstanding >= 1 /\ ~committing

(* begin_op(), end_op(): a process that sleeps for log space or for a      *)
(* commit has somebody left to wake it.                                    *)
SleeperHasWaker ==
  \A p \in Procs : pc[p] = "asleep" => outstanding > 0 \/ committing

-----------------------------------------------------------------------------
(* The inductive invariant.                                                *)

Ops == {p \in Procs : pc[p] = "op"}
Committers == {p \in Procs : pc[p] \in Commits}
At(l) == \E p \in Procs : pc[p] = l
Distinct(s) == \A j, k \in 1 .. Len(s) : s[j] = s[k] => j = k

(* Blocks 1 .. k of the log hold what the cache, or the disk, holds.       *)
CopiedUpTo(k) == \A j \in 1 .. k : dlog[j] = cache[lh[j]]
InstalledUpTo(k) == \A j \in 1 .. k : disk[lh[j]] = dlog[j]

(* log.outstanding and log.committing tell which operations there are, and *)
(* a commit has no operation beside it.                                    *)
Counted ==
  /\ outstanding = Cardinality(Ops)
  /\ committing <=> Committers # {}
  /\ \A p, q \in Committers : p = q
  /\ committing => outstanding = 0
  /\ Up /\ outstanding = 0 /\ ~committing => lh = <<>>

(* How far commit() has come: the log, its header, the home blocks.        *)
Phases ==
  /\ At("write_log") => tail <= Len(lh) /\ CopiedUpTo(tail)
  /\ At("write_head") \/ At("install") \/ At("clear_head") => CopiedUpTo(Len(lh))
  /\ At("install") => tail <= Len(lh) /\ InstalledUpTo(tail)
  /\ At("clear_head") => InstalledUpTo(Len(lh))
  /\ At("committed") => lh = <<>>
  /\ Up /\ ~At("write_log") /\ ~At("install") => tail = 0
  /\ Up => dhead = IF At("install") \/ At("clear_head") THEN lh ELSE <<>>
  /\ Up => \A b \in Blocks \ Logged : cache[b] = disk[b]

(* The same of recovery, which has no cache to copy from.                  *)
Recovery ==
  ~Up => /\ \A p \in Procs : pc[p] = "idle"
         /\ cache = disk
         /\ boot = "read_head" => tail = 0
         /\ boot # "read_head" => lh = dhead
         /\ boot = "install" => tail <= Len(lh) /\ InstalledUpTo(tail)
         /\ boot = "clear_head" => tail = 0 /\ InstalledUpTo(Len(lh))

(* Without a crash, the logged blocks that are not installed are pinned,   *)
(* once, and no others.                                                    *)
Unpinned(j) == At("clear_head") \/ (At("install") /\ j <= tail)
Pins ==
  MaxCrashes = 0 =>
    /\ Up
    /\ \A b \in Blocks \ Logged : refcnt[b] = 0
    /\ \A j \in 1 .. Len(lh) : refcnt[lh[j]] = IF Unpinned(j) THEN 0 ELSE 1

(* What the operations may still write, and the space that is left for it. *)
Unspent == {e \in Ops \X (1 .. MAXOPBLOCKS - 1) : e[2] > Cardinality(wrote[e[1]])}
Space ==
  /\ \A p \in Procs : /\ wrote[p] \subseteq Logged /\ IsFiniteSet(wrote[p])
                      /\ Cardinality(wrote[p]) <= OpBlocks
                      /\ pc[p] # "op" => wrote[p] = {}
  /\ outstanding > 0 => Len(lh) + Cardinality(Unspent) <= LOGSIZE - 2

(* begin_op(), log_write(), end_op(), commit() and recovery, in any order: *)
(* counters, log, header, home blocks and cache agree on how far the       *)
(* commit has come, and whoever sleeps in begin_op() has a waker.          *)
IInv == /\ TypeOK /\ Counted /\ Phases /\ Recovery /\ Pins
        /\ Distinct(lh) /\ Distinct(dhead) /\ SleeperHasWaker

(* Processes run, operations end, and the disk completes its transfers.    *)
Fairness == \A p \in Procs : /\ WF_vars(begin_op(p))
                             /\ WF_vars(end_op(p))
                             /\ WF_vars(commit(p) \/ Committed(p))

FairSpec == Spec /\ Fairness

(* begin_op(), end_op(): a process that sleeps in begin_op() is woken to   *)
(* test again.                                                             *)
SleeperWakes == \A p \in Procs : pc[p] = "asleep" ~> pc[p] # "asleep"
=============================================================================
