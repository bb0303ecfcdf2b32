------------------------------- MODULE Bcache -------------------------------
(***************************************************************************)
(* The buffer cache of kernel/bio.c: bget, bread, bwrite, brelse, bpin and *)
(* bunpin, called by several processes, with the buffers' sleep locks and  *)
(* the list in order of use.  A step is a critical section under           *)
(* bcache.lock, the acquisition of a buffer's sleep lock, or what a        *)
(* process does with a buffer it has locked.  A process has up to two      *)
(* buffers at a time: write_log() and install_trans() hold a block of the  *)
(* log with a block of the file system, bmap() and itrunc() an indirect    *)
(* block while balloc() and bfree() read the bitmap.                       *)
(***************************************************************************)
EXTENDS Naturals, FiniteSets

CONSTANTS NBUF,          \* number of buffers
          Procs, Blocks, Vals,
          Nested,        \* pairs of blocks: the second is read while the first is locked
          None,          \* no block, no process
          UINT,          \* number of values of the counter refcnt
          MaxPins        \* bound: blocks pinned by the log at a time

Bufs == 1 .. NBUF

(* The references of a process: to its first and its second buffer.        *)
Refs == Procs \X {1, 2}
Other(p) == <<p[1], 3 - p[2]>>

ASSUME BcacheConstants ==
  /\ NBUF \in Nat \ {0} /\ MaxPins \in Nat
  /\ Refs \cap Blocks = {} /\ None \notin Refs \cup Blocks
  /\ IsFiniteSet(Refs) /\ UINT \in Nat /\ Cardinality(Refs) + 1 < UINT

VARIABLES
  blockno, valid, refcnt, data,   \* fields of struct buf
  owner,     \* owner[i]: the reference that holds buf[i].lock
  list,      \* the buffers from head.next, most recently used first
  disk,
  pc, want,  \* of a reference: want[p] is the argument blockno of its bread()
  buf,       \* buf[p]: the buffer bget() chose for it
  pinned,    \* blocks the log has pinned
  latest     \* latest[b]: the contents last given to b, a history variable

vars == <<blockno, valid, refcnt, data, owner, list, disk, pc, want, buf, pinned,
          latest>>

(* struct buf: the buffers, the list in order of use and the locals of     *)
(* bread() keep their types.                                               *)
TypeOK ==
  /\ blockno \in [Bufs -> Blocks \cup {None}]
  /\ valid \in [Bufs -> BOOLEAN]
  /\ refcnt \in [Bufs -> 0 .. UINT - 1]
  /\ data \in [Bufs -> Vals]
  /\ owner \in [Bufs -> Refs \cup {None}]
  /\ list \in [Bufs -> Bufs] /\ \A i \in Bufs : \E k \in Bufs : list[k] = i
  /\ disk \in [Blocks -> Vals]
  /\ pc \in [Refs -> {"idle", "lock", "read", "use", "release", "panic"}]
  /\ want \in [Refs -> Blocks \cup {None}]
  /\ buf \in [Refs -> Bufs \cup {0}]
  /\ pinned \subseteq Blocks
  /\ latest \in [Blocks -> Vals]

(* binit(): every buffer is put at the head in turn.                       *)
Init ==
  /\ blockno = [i \in Bufs |-> None]
  /\ valid = [i \in Bufs |-> FALSE]
  /\ refcnt = [i \in Bufs |-> 0]
  /\ \E v \in Vals : /\ data = [i \in Bufs |-> v]
                     /\ disk = [b \in Blocks |-> v]
  /\ owner = [i \in Bufs |-> None]
  /\ list = [i \in Bufs |-> NBUF + 1 - i]
  /\ pc = [p \in Refs |-> "idle"]
  /\ want = [p \in Refs |-> None]
  /\ buf = [p \in Refs |-> 0]
  /\ pinned = {}
  /\ latest = disk

-----------------------------------------------------------------------------
Goto(p, l) == pc' = [pc EXCEPT ![p] = l]

(* A process goes on with one buffer while it is not inside bread() or     *)
(* brelse() of the other.                                                  *)
Turn(p) == pc[Other(p)] \in {"idle", "use"}

(* Its second bread() is made with the first buffer locked.                *)
MayGet(p, b) ==
  /\ pc[p] = "idle"
  /\ IF p[2] = 1 THEN pc[Other(p)] = "idle"
     ELSE pc[Other(p)] = "use" /\ <<want[Other(p)], b>> \in Nested

Cached(b) == {i \in Bufs : blockno[i] = b}
Unused == {i \in Bufs : refcnt[i] = 0}

(* The position in the list decides: the first copy from the front, the    *)
(* first unused buffer from the back.                                      *)
FirstOf(S) == list[CHOOSE k \in Bufs : list[k] \in S /\ \A j \in 1 .. k - 1 : list[j] \notin S]
LastOf(S) == list[CHOOSE k \in Bufs : list[k] \in S /\ \A j \in k + 1 .. NBUF : list[j] \notin S]

(* The buffers before i move back by one place.                            *)
MoveToFront(i) ==
  LET k == CHOOSE k \in Bufs : list[k] = i IN
    [m \in Bufs |-> IF m = 1 THEN i ELSE IF m <= k THEN list[m - 1] ELSE list[m]]

(* Variant: the count of a cached buffer is not raised.                    *)
bget_uncounted(p, b) ==
  /\ MayGet(p, b) /\ Cached(b) # {}
  /\ buf' = [buf EXCEPT ![p] = FirstOf(Cached(b))]
  /\ want' = [want EXCEPT ![p] = b]
  /\ Goto(p, "lock")
  /\ UNCHANGED <<blockno, valid, refcnt, data, owner, list, disk, pinned, latest>>

(* bget(), the part under bcache.lock, for a block in the cache ...        *)
bget_cached(p, b) ==
  /\ MayGet(p, b) /\ Cached(b) # {}
  /\ LET i == FirstOf(Cached(b)) IN
       /\ refcnt' = [refcnt EXCEPT ![i] = (@ + 1) % UINT]
       /\ buf' = [buf EXCEPT ![p] = i]
  /\ want' = [want EXCEPT ![p] = b]
  /\ Goto(p, "lock")
  /\ UNCHANGED <<blockno, valid, data, owner, list, disk, pinned, latest>>

(* Variants: without a search for the block; without clearing valid.       *)
bget_unsearched(p, b) ==
  /\ MayGet(p, b) /\ Unused # {}
  /\ LET i == LastOf(Unused) IN
       /\ blockno' = [blockno EXCEPT ![i] = b]
       /\ valid' = [valid EXCEPT ![i] = FALSE]
       /\ refcnt' = [refcnt EXCEPT ![i] = 1]
       /\ buf' = [buf EXCEPT ![p] = i]
  /\ want' = [want EXCEPT ![p] = b]
  /\ Goto(p, "lock")
  /\ UNCHANGED <<data, owner, list, disk, pinned, latest>>

bget_valid(p, b) ==
  /\ MayGet(p, b) /\ Cached(b) = {} /\ Unused # {}
  /\ LET i == LastOf(Unused) IN
       /\ blockno' = [blockno EXCEPT ![i] = b]
       /\ refcnt' = [refcnt EXCEPT ![i] = 1]
       /\ buf' = [buf EXCEPT ![p] = i]
  /\ want' = [want EXCEPT ![p] = b]
  /\ Goto(p, "lock")
  /\ UNCHANGED <<valid, data, owner, list, disk, pinned, latest>>

(* ... and for one that is not: recycle the least recently used buffer.    *)
bget_recycle(p, b) ==
  /\ MayGet(p, b) /\ Cached(b) = {} /\ Unused # {}
  /\ LET i == LastOf(Unused) IN
       /\ blockno' = [blockno EXCEPT ![i] = b]
       /\ valid' = [valid EXCEPT ![i] = FALSE]
       /\ refcnt' = [refcnt EXCEPT ![i] = 1]
       /\ buf' = [buf EXCEPT ![p] = i]
  /\ want' = [want EXCEPT ![p] = b]
  /\ Goto(p, "lock")
  /\ UNCHANGED <<data, owner, list, disk, pinned, latest>>

(* With every buffer referenced: panic("bget: no buffers"), which goes on  *)
(* forever on its CPU.                                                     *)
bget_panic(p, b) ==
  /\ MayGet(p, b) /\ Cached(b) = {} /\ Unused = {}
  /\ Goto(p, "panic")
  /\ UNCHANGED <<blockno, valid, refcnt, data, owner, list, disk, want, buf, pinned, latest>>

panicked(p) == pc[p] = "panic" /\ UNCHANGED vars

(* acquiresleep(&b->lock), and the test of b->valid in bread().            *)
Lock(p) ==
  /\ pc[p] = "lock" /\ owner[buf[p]] = None
  /\ owner' = [owner EXCEPT ![buf[p]] = p]
  /\ Goto(p, IF valid[buf[p]] THEN "use" ELSE "read")
  /\ UNCHANGED <<blockno, valid, refcnt, data, list, disk, want, buf, pinned, latest>>

(* virtio_disk_rw(b, 0): the disk is read at b->blockno.                   *)
Read(p) ==
  /\ pc[p] = "read"
  /\ data' = [data EXCEPT ![buf[p]] = disk[blockno[buf[p]]]]
  /\ valid' = [valid EXCEPT ![buf[p]] = TRUE]
  /\ Goto(p, "use")
  /\ UNCHANGED <<blockno, refcnt, owner, list, disk, want, buf, pinned, latest>>

(* The holder changes the contents and writes them through: bwrite().  The *)
(* log does so with its own blocks only, which it never pins.              *)
bwrite(p, v) ==
  /\ pc[p] = "use" /\ want[p] \notin pinned
  /\ data' = [data EXCEPT ![buf[p]] = v]
  /\ disk' = [disk EXCEPT ![blockno[buf[p]]] = v]
  /\ latest' = [latest EXCEPT ![want[p]] = v]
  /\ UNCHANGED <<blockno, valid, refcnt, owner, list, pc, want, buf, pinned>>

(* Variant: a block that is in the log already is pinned again.            *)
bpin_twice(p, v) ==
  /\ pc[p] = "use"
  /\ want[p] \in pinned \/ Cardinality(pinned) < MaxPins
  /\ data' = [data EXCEPT ![buf[p]] = v]
  /\ latest' = [latest EXCEPT ![want[p]] = v]
  /\ pinned' = pinned \cup {want[p]}
  /\ refcnt' = [refcnt EXCEPT ![buf[p]] = (@ + 1) % UINT]
  /\ UNCHANGED <<blockno, valid, owner, list, disk, pc, want, buf>>

(* The holder changes the contents and logs them: log_write() pins a block *)
(* that is not in the log yet.                                             *)
bpin(p, v) ==
  /\ pc[p] = "use"
  /\ want[p] \in pinned \/ Cardinality(pinned) < MaxPins
  /\ data' = [data EXCEPT ![buf[p]] = v]
  /\ latest' = [latest EXCEPT ![want[p]] = v]
  /\ pinned' = pinned \cup {want[p]}
  /\ refcnt' = [refcnt EXCEPT ![buf[p]] = IF want[p] \in pinned THEN @ ELSE (@ + 1) % UINT]
  /\ UNCHANGED <<blockno, valid, owner, list, disk, pc, want, buf>>

(* Variant: the pin is never taken back.                                   *)
bunpin_leaks(p) ==
  /\ pc[p] = "use" /\ want[p] \in pinned
  /\ disk' = [disk EXCEPT ![blockno[buf[p]]] = data[buf[p]]]
  /\ pinned' = pinned \ {want[p]}
  /\ UNCHANGED <<blockno, valid, refcnt, data, owner, list, pc, want, buf, latest>>

(* install_trans() of a commit: bwrite() and bunpin().                     *)
bunpin(p) ==
  /\ pc[p] = "use" /\ want[p] \in pinned
  /\ disk' = [disk EXCEPT ![blockno[buf[p]]] = data[buf[p]]]
  /\ pinned' = pinned \ {want[p]}
  /\ refcnt' = [refcnt EXCEPT ![buf[p]] = (@ + UINT - 1) % UINT]
  /\ UNCHANGED <<blockno, valid, data, owner, list, pc, want, buf, latest>>

(* brelse(): first releasesleep() ...                                      *)
brelse_unlock(p) ==
  /\ pc[p] = "use"
  /\ owner' = [owner EXCEPT ![buf[p]] = None]
  /\ Goto(p, "release")
  /\ UNCHANGED <<blockno, valid, refcnt, data, list, disk, want, buf, pinned, latest>>

(* ... then, under bcache.lock, the count and the place in the list.       *)
brelse(p) ==
  /\ pc[p] = "release"
  /\ refcnt' = [refcnt EXCEPT ![buf[p]] = (@ + UINT - 1) % UINT]
  /\ list' = IF refcnt[buf[p]] = 1 THEN MoveToFront(buf[p]) ELSE list
  /\ buf' = [buf EXCEPT ![p] = 0]
  /\ want' = [want EXCEPT ![p] = None]
  /\ Goto(p, "idle")
  /\ UNCHANGED <<blockno, valid, data, owner, disk, pinned, latest>>

-----------------------------------------------------------------------------
Next ==
  \E p \in Refs :
    /\ Turn(p)
    /\ \/ \E b \in Blocks : bget_cached(p, b) \/ bget_recycle(p, b) \/ bget_panic(p, b)
       \/ Lock(p) \/ Read(p)
       \/ \E v \in Vals : bwrite(p, v) \/ bpin(p, v)
       \/ bunpin(p) \/ brelse_unlock(p) \/ brelse(p) \/ panicked(p)

Spec == Init /\ [][Next]_vars

-----------------------------------------------------------------------------
(* Properties.                                                             *)

Uses(i) == {p \in Refs : buf[p] = i}

(* bget(): a block has at most one buffer, the point where the processes   *)
(* that use the block synchronize.                                         *)
OneBufferPerBlock == \A i, j \in Bufs : blockno[i] = blockno[j] => i = j \/ blockno[i] = None

(* bget(), brelse(): a buffer on its way to a process, or in its hands, is *)
(* not given to another block.                                             *)
BufferKeepsBlock ==
  \A p \in Refs : buf[p] # 0 => want[p] \in Blocks /\ blockno[buf[p]] = want[p]

(* bread(), bwrite(), log_write(): a process that has locked a block sees  *)
(* what was last written to it, by whichever process.                      *)
ReadsLatest == \A p \in Refs : pc[p] = "use" => data[buf[p]] = latest[want[p]]

(* refcnt counts the processes between bget() and brelse(), and the pin.   *)
RefcntExact ==
  \A i \in Bufs :
    refcnt[i] = Cardinality(Uses(i)) + (IF blockno[i] \in pinned THEN 1 ELSE 0)

(* bget() says "no buffers" only when NBUF references and pins exist: a    *)
(* reference or pin that was given back never costs a later caller its     *)
(* buffer, whatever the order of brelse(), bunpin() and the searches.      *)
Busy == {p \in Refs : buf[p] # 0}
PanicIsFull ==
  \A p \in Refs :
    pc'[p] = "panic" /\ pc[p] # "panic" => NBUF <= Cardinality(Busy) + Cardinality(pinned)
PanicsOnlyFull == [][PanicIsFull]_vars

-----------------------------------------------------------------------------
(* The inductive invariant.                                                *)

(* A process has a buffer from bget() to brelse(), its sleep lock while it *)
(* reads or uses it; who is about to read finds a buffer not yet valid.    *)
Hands ==
  \A p \in Refs :
    /\ pc[p] \in {"idle", "panic"} <=> buf[p] = 0
    /\ pc[p] \in {"read", "use"} => owner[buf[p]] = p
    /\ pc[p] = "read" => ~valid[buf[p]]
    /\ pc[p] = "use" => valid[buf[p]]

(* The contents of a block are in its valid buffer; they are on the disk   *)
(* too, unless the block is pinned, and then there is such a buffer.       *)
Contents ==
  /\ \A i \in Bufs : valid[i] => blockno[i] \in Blocks /\ data[i] = latest[blockno[i]]
  /\ \A b \in pinned : \E i \in Bufs : blockno[i] = b /\ valid[i]
  /\ \A b \in Blocks \ pinned : disk[b] = latest[b]

PinsBounded == IsFiniteSet(pinned) /\ Cardinality(pinned) <= MaxPins

(* bget(), bread(), brelse(), bpin(): one buffer per block, which stays    *)
(* with it while it is referenced; exact reference counts; and contents    *)
(* that are the latest.                                                    *)
IInv ==
  /\ TypeOK /\ OneBufferPerBlock /\ BufferKeepsBlock /\ Hands /\ Contents
  /\ RefcntExact /\ PinsBounded
=============================================================================
