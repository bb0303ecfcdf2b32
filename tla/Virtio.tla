------------------------------- MODULE Virtio -------------------------------
(***************************************************************************)
(* The disk driver, kernel/virtio_disk.c.  Callers of virtio_disk_rw()     *)
(* and the interrupt handler share the descriptors, the two rings and      *)
(* info[] under disk.vdisk_lock; the device works beside them, takes       *)
(* requests in order, and completes or fails them in any order.  The       *)
(* caller holds the sleep-lock of its buffer (module Bcache), so there is  *)
(* one request for a buffer at a time.  kill() may wake a caller that      *)
(* sleeps.                                                                 *)
(***************************************************************************)
EXTENDS Integers, Sequences, FiniteSets

CONSTANTS Callers, Bufs, Values,
          NUM, UINT16,        \* size of the rings; number of values of a uint16
          NoBuf, Nobody,
          MaxFaults           \* bound: requests that the device has failed at a time

ASSUME RingAssumption == NUM \in Nat \ {0} /\ UINT16 \in Nat /\ \E k \in 1 .. UINT16 : UINT16 = k * NUM
ASSUME NoBufAssumption == NoBuf \notin Bufs

Descs == 0 .. NUM - 1

VARIABLES
  free, desc, info,       \* disk.free, disk.desc, disk.info[i].b
  avail, availIdx,        \* disk.avail[2..], disk.avail[1]
  used, usedId, used_idx, \* disk.used->elems, disk.used->id, disk.used_idx
  failed,                 \* the chains whose disk.info[i].status is not 0
  fetched, fetchIdx,      \* the device: requests it works on, how far it looked
  isr, vlock,             \* the interrupt line; the holder of vdisk_lock
  buf, disk,              \* buf[b]: [data, disk]; disk[b]: the block on the disk
  rq, jobs,               \* rq[c]: [pc, b, write, data, head]; the calls yet to be made
  missed                  \* an acknowledgement hid a completion, a history variable

diskVars == <<free, desc, info, avail, availIdx, used, usedId, used_idx, failed, fetched, fetchIdx,
              isr, vlock, buf, disk, rq, jobs, missed>>

(* Variant: every request reads.                                           *)
DescToRead(j, b, write) == [next |-> j, more |-> TRUE, b |-> b, write |-> FALSE]

(* A descriptor of a request: the next one, VRING_DESC_F_NEXT, and what it *)
(* points at, the block and the direction.                                 *)
Desc(j, b, write) == [next |-> j, more |-> TRUE, b |-> b, write |-> write]
Unchained(b, write) == [next |-> 0, more |-> FALSE, b |-> b, write |-> write]

NoRq == [pc |-> "idle", b |-> NoBuf, write |-> FALSE, data |-> NoBuf, head |-> 0]

DiskInit(js) ==
  /\ free = Descs
  /\ desc = [i \in Descs |-> Unchained(NoBuf, FALSE)]
  /\ info = [i \in Descs |-> NoBuf]
  /\ avail = [i \in Descs |-> 0] /\ availIdx = 0
  /\ used = [i \in Descs |-> 0] /\ usedId = 0 /\ used_idx = 0
  /\ failed = {} /\ fetched = {} /\ fetchIdx = 0
  /\ isr = FALSE /\ vlock = Nobody /\ missed = FALSE
  /\ \E v \in Values : /\ disk = [b \in Bufs |-> v]
                       /\ buf = [b \in Bufs |-> [data |-> v, disk |-> FALSE]]
  /\ rq = [c \in Callers |-> NoRq]
  /\ jobs = js

-----------------------------------------------------------------------------
(* Variant: free_desc() wakes nobody.                                      *)
WakeNone(r) == r

(* wakeup(&disk.free[0]) and wakeup(b).                                    *)
WakeDescs(r) == [c \in Callers |-> IF r[c].pc = "nodesc" THEN [r[c] EXCEPT !.pc = "retry"] ELSE r[c]]
WakeBuf(r, b) ==
  [c \in Callers |-> IF r[c].pc = "wait" /\ r[c].b = b THEN [r[c] EXCEPT !.pc = "woken"] ELSE r[c]]

(* alloc3_desc() takes the three smallest free descriptors.                *)
Alloc3 == {t \in free \X free \X free :
             t[1] < t[2] /\ t[2] < t[3] /\ \A i \in free : i < t[3] => i \in {t[1], t[2]}}

(* virtio_disk_rw() from the allocation to the first sleep: the chain is   *)
(* formatted, recorded and made available ...                              *)
Submit(c, b, write, data, t) ==
  /\ free' = free \ {t[1], t[2], t[3]}
  /\ desc' = [desc EXCEPT ![t[1]] = Desc(t[2], b, write),
                          ![t[2]] = Desc(t[3], b, write),
                          ![t[3]] = Unchained(b, write)]
  /\ info' = [info EXCEPT ![t[1]] = b] /\ failed' = failed \ {t[1]}
  /\ buf' = [buf EXCEPT ![b] = [data |-> data, disk |-> TRUE]]
  /\ avail' = [avail EXCEPT ![availIdx % NUM] = t[1]]
  /\ availIdx' = (availIdx + 1) % UINT16
  /\ rq' = [rq EXCEPT ![c] = [pc |-> "wait", b |-> b, write |-> write, data |-> data, head |-> t[1]]]

(* ... or, if there are too few, those taken are freed again, which wakes  *)
(* the others that wait for descriptors, and the caller sleeps.            *)
Starve(c, b, write, data) ==
  /\ rq' = [(IF free = {} THEN rq ELSE WakeDescs(rq)) EXCEPT
              ![c] = [pc |-> "nodesc", b |-> b, write |-> write, data |-> data, head |-> 0]]
  /\ buf' = [buf EXCEPT ![b].data = data]
  /\ UNCHANGED <<free, desc, info, failed, avail, availIdx>>

Request(c, b, write, data) ==
  /\ vlock = Nobody
  /\ \/ \E t \in Alloc3 : Submit(c, b, write, data, t)
     \/ Alloc3 = {} /\ Starve(c, b, write, data)
  /\ UNCHANGED <<used, usedId, used_idx, fetched, fetchIdx, isr, vlock, disk, missed>>

(* What the caller left in b->data: the data to write, or what a recycled  *)
(* buffer held before.                                                     *)
virtio_disk_rw(c) ==
  /\ rq[c].pc = "idle" /\ jobs[c] # <<>>
  /\ LET job == Head(jobs[c])
     IN  /\ \A o \in Callers : rq[o].b # job.b
         /\ Request(c, job.b, job.write, job.data)
  /\ jobs' = [jobs EXCEPT ![c] = Tail(@)]

retry(c) == rq[c].pc = "retry" /\ Request(c, rq[c].b, rq[c].write, rq[c].data) /\ UNCHANGED jobs

(* Variant: the chain without its last descriptor.                         *)
ChainOfTwo(i) == {i, desc[i].next}

(* free_chain(): the descriptors reached from i.                           *)
Chain(i) ==
  {i} \cup (IF ~desc[i].more THEN {}
            ELSE LET j == desc[i].next IN {j} \cup (IF desc[j].more THEN {desc[j].next} ELSE {}))

(* Variant: the caller does not look again after it was woken.             *)
FinishedOnce(b) == TRUE

Finished(b) == ~buf[b].disk

(* The caller sleeps again, or frees its chain and returns.                *)
rw_return(c) ==
  /\ rq[c].pc = "woken" /\ vlock = Nobody
  /\ IF Finished(rq[c].b)
     THEN /\ info' = [info EXCEPT ![rq[c].head] = NoBuf]
          /\ free' = free \cup Chain(rq[c].head)
          /\ rq' = [WakeDescs(rq) EXCEPT ![c] = NoRq]
     ELSE rq' = [rq EXCEPT ![c].pc = "wait"] /\ UNCHANGED <<info, free>>
  /\ UNCHANGED <<desc, avail, availIdx, used, usedId, used_idx, failed, fetched, fetchIdx, isr, vlock,
                 buf, disk, jobs, missed>>

(* kill() of a process that sleeps here.                                   *)
disk_kill(c) ==
  /\ rq[c].pc \in {"wait", "nodesc"}
  /\ rq' = [rq EXCEPT ![c].pc = IF @ = "wait" THEN "woken" ELSE "retry"]
  /\ UNCHANGED <<free, desc, info, avail, availIdx, used, usedId, used_idx, failed, fetched, fetchIdx,
                 isr, vlock, buf, disk, jobs, missed>>

-----------------------------------------------------------------------------
(* virtio_disk_intr(): the interrupt is claimed and the lock taken, ...    *)
intr_begin ==
  /\ isr /\ vlock = Nobody
  /\ vlock' = "loop"
  /\ UNCHANGED <<free, desc, info, avail, availIdx, used, usedId, used_idx, failed, fetched, fetchIdx,
                 isr, buf, disk, rq, jobs, missed>>

(* ... one element of the used ring, ...                                   *)
More == used_idx % NUM # usedId % NUM

intr_elem ==
  /\ vlock = "loop" /\ More /\ used[used_idx] \notin failed
  /\ LET b == info[used[used_idx]]
     IN  /\ buf' = [buf EXCEPT ![b].disk = FALSE]
         /\ rq' = WakeBuf(rq, b)
  /\ used_idx' = (used_idx + 1) % NUM
  /\ UNCHANGED <<free, desc, info, avail, availIdx, used, usedId, failed, fetched, fetchIdx, isr, vlock,
                 disk, jobs, missed>>

(* ... or panic("virtio_disk_intr status"), with the lock held, ...        *)
intr_panic ==
  /\ vlock = "loop" /\ More /\ used[used_idx] \in failed
  /\ vlock' = "panic"
  /\ UNCHANGED <<free, desc, info, avail, availIdx, used, usedId, used_idx, failed, fetched, fetchIdx,
                 isr, buf, disk, rq, jobs, missed>>

intr_last ==
  /\ vlock = "loop" /\ ~More
  /\ vlock' = "ack"
  /\ UNCHANGED <<free, desc, info, avail, availIdx, used, usedId, used_idx, failed, fetched, fetchIdx,
                 isr, buf, disk, rq, jobs, missed>>

(* ... and the acknowledgement, after the last look at the ring.           *)
intr_ack ==
  /\ vlock = "ack"
  /\ isr' = FALSE /\ vlock' = Nobody
  /\ missed' = (missed \/ More)
  /\ UNCHANGED <<free, desc, info, avail, availIdx, used, usedId, used_idx, failed, fetched, fetchIdx,
                 buf, disk, rq, jobs>>

virtio_disk_intr == intr_begin \/ intr_elem \/ intr_panic \/ intr_last \/ intr_ack

(* The device (external) takes the next available request, ...             *)
dev_fetch ==
  /\ fetchIdx # availIdx
  /\ fetched' = fetched \cup {avail[fetchIdx % NUM]}
  /\ fetchIdx' = (fetchIdx + 1) % UINT16
  /\ UNCHANGED <<free, desc, info, avail, availIdx, used, usedId, used_idx, failed, isr, vlock, buf, disk,
                 rq, jobs, missed>>

(* ... and reports on one, in the used ring and on the interrupt line: ... *)
Reports(i) ==
  /\ i \in fetched /\ fetched' = fetched \ {i}
  /\ used' = [used EXCEPT ![usedId % NUM] = i]
  /\ usedId' = (usedId + 1) % UINT16
  /\ isr' = TRUE
  /\ UNCHANGED <<free, desc, info, avail, availIdx, used_idx, fetchIdx, vlock, rq, jobs, missed>>

(* ... the data has moved, ...                                             *)
dev_complete(i) ==
  /\ Reports(i)
  /\ LET b == desc[i].b
     IN  IF desc[i].write THEN disk' = [disk EXCEPT ![b] = buf[b].data] /\ UNCHANGED buf
         ELSE buf' = [buf EXCEPT ![b].data = disk[b]] /\ UNCHANGED disk
  /\ UNCHANGED failed

(* ... or it has not, and the status says so.                              *)
dev_fail(i) ==
  /\ Reports(i) /\ Cardinality(failed) < MaxFaults
  /\ failed' = failed \cup {i}
  /\ UNCHANGED <<buf, disk>>

DiskNext ==
  \/ \E c \in Callers : virtio_disk_rw(c) \/ retry(c) \/ rw_return(c) \/ disk_kill(c)
  \/ virtio_disk_intr
  \/ dev_fetch
  \/ \E i \in Descs : dev_complete(i) \/ dev_fail(i)

(* Processes that can run are scheduled, an interrupt is taken and served  *)
(* (the lock is never held by a sleeper), the device makes progress.       *)
DiskFair ==
  /\ \A c \in Callers : WF_diskVars(retry(c)) /\ WF_diskVars(rw_return(c))
  /\ WF_diskVars(virtio_disk_intr)
  /\ WF_diskVars(dev_fetch)
  /\ \A i \in Descs : WF_diskVars(dev_complete(i))

-----------------------------------------------------------------------------
Submitted == {c \in Callers : rq[c].pc \in {"wait", "woken"}}
Unfetched == {avail[(fetchIdx + k) % NUM] : k \in 0 .. ((availIdx - fetchIdx) % UINT16) - 1}
Unseen == {used[(used_idx + k) % NUM] : k \in 0 .. ((usedId - used_idx) % NUM) - 1}

(* No descriptor is in two chains, in a chain and free, or lost: the free  *)
(* ones and the chains of three of the submitted requests partition        *)
(* disk.desc (alloc3_desc(), free_chain(); free_desc() panics otherwise).  *)
DescExact ==
  /\ \A c \in Submitted : Cardinality(Chain(rq[c].head)) = 3 /\ Chain(rq[c].head) \cap free = {}
  /\ \A c, o \in Submitted : c # o => Chain(rq[c].head) \cap Chain(rq[o].head) = {}
  /\ free \cup UNION {Chain(rq[c].head) : c \in Submitted} = Descs

(* The rings hold each request once: a request whose buffer belongs to the *)
(* disk is waiting to be taken, or taken, or in the used ring and not yet  *)
(* seen by virtio_disk_intr(), and what is there is such a request, with   *)
(* its buffer in info[] (the handler follows info[id].b).                  *)
RingsExact ==
  LET owned == {c \in Submitted : buf[rq[c].b].disk}
  IN  /\ Unfetched \cup fetched \cup Unseen = {rq[c].head : c \in owned}
      /\ Cardinality(owned) = ((availIdx - fetchIdx) % UINT16) + Cardinality(fetched)
                                 + ((usedId - used_idx) % NUM)
      /\ \A c \in Submitted : info[rq[c].head] = rq[c].b

(* When virtio_disk_rw() returns, the data has moved: buffer and block are *)
(* the same, and after a write they are what the caller had in b->data.    *)
(* The while loop around sleep(b) outlasts every wakeup but the device's,  *)
(* and a request that the device failed does not return.                   *)
DataMoved ==
  [][\A c \in Callers : rq[c].pc = "woken" /\ rq'[c].pc = "idle"
       => /\ buf[rq[c].b].data = disk[rq[c].b]
          /\ rq[c].write => disk[rq[c].b] = rq[c].data]_diskVars

(* No caller waits for what nobody will do: a completion the handler has  *)
(* not seen comes with an interrupt or with the handler still looking,     *)
(* unless an acknowledgement has hidden one; and a caller sleeps for       *)
(* descriptors only while fewer than three are free (free_desc() wakes).   *)
WaitersServed ==
  /\ More => isr \/ missed
  /\ \A c \in Callers : rq[c].pc = "nodesc" => Cardinality(free) < 3
  /\ \A c \in Callers : rq[c].pc = "wait" => buf[rq[c].b].disk

(* "Wait for virtio_disk_intr() to say request has finished"               *)
(* (virtio_disk.c:220): it always does.                                    *)
RequestsFinish == \A c \in Callers : rq[c].pc # "idle" ~> rq[c].pc = "idle"

(* virtio_disk_rw(), virtio_disk_intr(): descriptors and rings agree on    *)
(* the requests in flight, and whoever sleeps waits for one of them.       *)
RequestsExact == DescExact /\ RingsExact /\ WaitersServed

-----------------------------------------------------------------------------
(* The inductive invariant.                                                *)

Jobs == [b : Bufs, write : BOOLEAN, data : Values]
DescRecs == [next : Descs, more : BOOLEAN, b : Bufs \cup {NoBuf}, write : BOOLEAN]
BufRecs == [data : Values, disk : BOOLEAN]
RqRecs == [pc : {"idle", "nodesc", "retry", "wait", "woken"}, b : Bufs \cup {NoBuf}, write : BOOLEAN,
           data : Values \cup {NoBuf}, head : Descs]

(* disk and the locals of virtio_disk_rw() keep their types.               *)
DiskTypeOK ==
  /\ free \subseteq Descs /\ fetched \subseteq Descs /\ failed \subseteq Descs
  /\ desc \in [Descs -> DescRecs] /\ info \in [Descs -> Bufs \cup {NoBuf}]
  /\ avail \in [Descs -> Descs] /\ used \in [Descs -> Descs]
  /\ availIdx \in 0 .. UINT16 - 1 /\ fetchIdx \in 0 .. UINT16 - 1
  /\ usedId \in 0 .. UINT16 - 1 /\ used_idx \in 0 .. NUM - 1
  /\ buf \in [Bufs -> BufRecs] /\ disk \in [Bufs -> Values]
  /\ rq \in [Callers -> RqRecs] /\ jobs \in [Callers -> Seq(Jobs)]

(* The places from f on in a ring, and that they hold different requests.  *)
Slots(a, f, n) == {a[(f + k) % NUM] : k \in 0 .. n - 1}
NoRepeats(a, f, n) ==
  \A k, l \in 0 .. n - 1 : a[(f + k) % NUM] = a[(f + l) % NUM] => k = l

Live(r) == r.pc \in {"wait", "woken"}

(* The chain of a request, as alloc3_desc() and virtio_disk_rw() made it.  *)
Links(d, i) == {i, d[i].next, d[d[i].next].next}
Formed(d, r) ==
  LET i == r.head
      j == d[i].next
      k == d[j].next
  IN  /\ i # j /\ j # k /\ i # k
      /\ d[i].more /\ d[j].more /\ ~d[k].more
      /\ d[i].b = r.b /\ d[i].write = r.write

(* The buffer of a request that the device has yet to serve, and of one    *)
(* that it has served.                                                     *)
Pending(r, v) == r.write => v = r.data
Served(r, v, d) == v = d /\ (r.write => d = r.data)

(* The chains and the free descriptors, and one request for a buffer.      *)
ChainsInv ==
  /\ \A c \in Callers : (rq[c].pc = "idle" <=> rq[c].b = NoBuf)
  /\ \A c \in Callers : rq[c].pc # "idle" => rq[c].data \in Values
  /\ \A c, o \in Callers : rq[c].b = rq[o].b /\ rq[c].b # NoBuf => c = o
  /\ \A c \in Submitted : Formed(desc, rq[c]) /\ Links(desc, rq[c].head) \cap free = {}
  /\ \A c, o \in Submitted : c # o => Links(desc, rq[c].head) \cap Links(desc, rq[o].head) = {}
  /\ \A i \in Descs \ free : \E c \in Submitted : i \in Links(desc, rq[c].head)
  /\ \A c \in Submitted : info[rq[c].head] = rq[c].b

(* The rings and the device: no request is in two places or twice in one.  *)
Waiting == Unfetched \cup fetched
InFlight == Waiting \cup Unseen
RingsInv ==
  /\ NoRepeats(avail, fetchIdx, (availIdx - fetchIdx) % UINT16)
  /\ NoRepeats(used, used_idx, (usedId - used_idx) % NUM)
  /\ Unfetched \cap fetched = {} /\ Waiting \cap Unseen = {}
  /\ failed \subseteq Unseen

(* The disk has the buffers of the requests in flight, and those only.     *)
OwnersInv ==
  /\ \A c \in Submitted : buf[rq[c].b].disk <=> rq[c].head \in InFlight
  /\ \A i \in InFlight : \E c \in Submitted : rq[c].head = i

(* What the device has not done, or not done well.                         *)
Undone == Waiting \cup failed
DataInv ==
  \A c \in Submitted :
    IF rq[c].head \in Undone THEN Pending(rq[c], buf[rq[c].b].data)
    ELSE Served(rq[c], buf[rq[c].b].data, disk[rq[c].b])

(* virtio_disk_rw(), virtio_disk_intr() and the device agree on every      *)
(* descriptor, ring and buffer.                                            *)
DiskInv == DiskTypeOK /\ ChainsInv /\ RingsInv /\ OwnersInv /\ DataInv /\ WaitersServed
=============================================================================
