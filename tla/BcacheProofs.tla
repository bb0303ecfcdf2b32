---------------------------- MODULE BcacheProofs ----------------------------
(***************************************************************************)
(* The buffer cache gives every process that locks a block its latest      *)
(* contents, for any number of processes, blocks and buffers.              *)
(***************************************************************************)
EXTENDS Bcache, FiniteSetTheorems, TLAPS

(* A set of naturals has a smallest element.                               *)
LEMMA Smallest ==
  ASSUME NEW S \in SUBSET Nat, S # {}
  PROVE  \E m \in S : \A k \in S : m <= k
<1> DEFINE R == OpToRel(<, Nat)
<1>1. IsWellFoundedOn(R, Nat)
  BY NatLessThanWellFounded, Zenon
<1>2. \A x, y \in Nat : <<x, y>> \in R <=> x < y
  BY DEF OpToRel
<1> HIDE DEF R
<1>3. PICK m \in S : \A y \in S : ~ (<<y, m>> \in R)
  BY <1>1, WFMin, Zenon
<1>4. \A y \in S : ~ (y < m)
  BY <1>2, <1>3, Zenon
<1> QED
  BY <1>4

(* The search from the front of the list finds a buffer of the set, ...    *)
LEMMA FirstFound ==
  ASSUME TypeOK, NEW S \in SUBSET Bufs, S # {}
  PROVE  FirstOf(S) \in S
<1> DEFINE K == {k \in Bufs : list[k] \in S}
<1>1. K \in SUBSET Nat /\ K # {}
  <2>1. PICK k \in Bufs : list[k] \in S
    BY DEF TypeOK
  <2> QED
    BY <2>1 DEF Bufs
<1>2. PICK m \in K : \A k \in K : m <= k
  BY <1>1, Smallest, Zenon
<1>3. list[m] \in S /\ \A j \in 1 .. m - 1 : list[j] \notin S
  BY <1>2, BcacheConstants DEF Bufs
<1> QED
  BY <1>2, <1>3, Zenon DEF FirstOf

(* ... and so does the search from the back.                               *)
LEMMA LastFound ==
  ASSUME TypeOK, NEW S \in SUBSET Bufs, S # {}
  PROVE  LastOf(S) \in S
<1> DEFINE K == {n \in Nat : \E k \in Bufs : n = NBUF - k /\ list[k] \in S}
<1>1. K \in SUBSET Nat /\ K # {}
  <2>1. PICK k \in Bufs : list[k] \in S
    BY DEF TypeOK
  <2>2. NBUF - k \in K
    BY <2>1, BcacheConstants DEF Bufs
  <2> QED
    BY <2>2, Zenon
<1>2. PICK n \in K : \A x \in K : n <= x
  BY <1>1, Smallest, Zenon
<1>3. PICK k \in Bufs : n = NBUF - k /\ list[k] \in S
  BY <1>2, Zenon
<1>4. ASSUME NEW j \in k + 1 .. NBUF, list[j] \in S PROVE FALSE
  <2>1. j \in Bufs /\ NBUF - j \in Nat /\ NBUF - j < NBUF - k
    BY <1>4, BcacheConstants DEF Bufs
  <2>2. NBUF - j \in K
    BY <1>4, <2>1, Zenon
  <2> QED
    BY <1>2, <1>3, <2>1, <2>2, BcacheConstants DEF Bufs
<1> QED
  BY <1>3, <1>4, Zenon DEF LastOf

(* brelse() keeps every buffer in the list.                                *)
LEMMA ListKept ==
  ASSUME TypeOK, NEW i \in Bufs
  PROVE  /\ MoveToFront(i) \in [Bufs -> Bufs]
         /\ \A j \in Bufs : \E m \in Bufs : MoveToFront(i)[m] = j
<1>1. PICK k \in Bufs : k = (CHOOSE n \in Bufs : list[n] = i) /\ list[k] = i
  BY Zenon DEF TypeOK
<1> DEFINE f == [m \in Bufs |-> IF m = 1 THEN i ELSE IF m <= k THEN list[m - 1] ELSE list[m]]
<1>2. MoveToFront(i) = f
  BY <1>1, Zenon DEF MoveToFront
<1>3. \A m \in Bufs : m # 1 => m - 1 \in Bufs
  BY BcacheConstants DEF Bufs
<1>4. f \in [Bufs -> Bufs]
  BY <1>3, Zenon DEF TypeOK
<1>5. ASSUME NEW j \in Bufs PROVE \E m \in Bufs : f[m] = j
  <2>1. CASE j = i
    BY <2>1, BcacheConstants DEF Bufs
  <2>2. CASE j # i
    <3>1. PICK m \in Bufs : list[m] = j
      BY Zenon DEF TypeOK
    <3>2. CASE m < k
      <4>1. m + 1 \in Bufs /\ m + 1 # 1 /\ m + 1 <= k /\ (m + 1) - 1 = m
        BY <3>2, BcacheConstants DEF Bufs
      <4> QED
        BY <3>1, <4>1, Zenon
    <3>3. CASE ~(m < k)
      <4>1. m # 1 /\ ~(m <= k)
        BY <1>1, <2>2, <3>1, <3>3 DEF Bufs
      <4> QED
        BY <3>1, <4>1, Zenon
    <3> QED
      BY <3>2, <3>3, Zenon
  <2> QED
    BY <2>1, <2>2, Zenon
<1> QED
  BY <1>2, <1>4, <1>5, Zenon

-----------------------------------------------------------------------------
(* The counts are small enough not to wrap.                                *)
LEMMA UsesCount ==
  ASSUME NEW i
  PROVE  /\ IsFiniteSet(Uses(i)) /\ Cardinality(Uses(i)) \in Nat
         /\ Cardinality(Uses(i)) <= Cardinality(Refs) /\ Cardinality(Refs) \in Nat
         /\ Uses(i) = {} <=> Cardinality(Uses(i)) = 0
<1>1. Uses(i) \in SUBSET Refs
  BY Zenon DEF Uses
<1>2. IsFiniteSet(Refs)
  BY BcacheConstants, Zenon
<1>3. IsFiniteSet(Uses(i)) /\ Cardinality(Uses(i)) <= Cardinality(Refs)
  BY <1>1, <1>2, FS_Subset, Zenon
<1> QED
  BY <1>2, <1>3, FS_CardinalityType, FS_EmptySet, Zenon

(* The same after a step.                                                  *)
LEMMA UsesCountNext ==
  ASSUME NEW i
  PROVE  /\ IsFiniteSet(Uses(i)') /\ Cardinality(Uses(i)') \in Nat
         /\ Cardinality(Uses(i)') <= Cardinality(Refs) /\ Cardinality(Refs) \in Nat
<1>1. Uses(i)' \in SUBSET Refs
  BY Zenon DEF Uses
<1>2. IsFiniteSet(Refs)
  BY BcacheConstants, Zenon
<1>3. IsFiniteSet(Uses(i)') /\ Cardinality(Uses(i)') <= Cardinality(Refs)
  BY <1>1, <1>2, FS_Subset, Zenon
<1> QED
  BY <1>2, <1>3, FS_CardinalityType, Zenon

(* The conjuncts of the inductive invariant of the cache.                  *)
LEMMA Parts ==
  IInv => /\ TypeOK /\ OneBufferPerBlock /\ BufferKeepsBlock /\ Hands /\ Contents
          /\ RefcntExact /\ PinsBounded
BY Zenon DEF IInv

(* A buffer with refcnt 0 is in nobody's hands and not pinned.             *)
LEMMA UnusedIsFree ==
  ASSUME IInv, NEW i \in Unused
  PROVE  /\ i \in Bufs /\ blockno[i] \notin pinned
         /\ \A p \in Refs : buf[p] # i
<1>1. i \in Bufs /\ refcnt[i] = 0
  BY Zenon DEF Unused
<1>2. refcnt[i] = Cardinality(Uses(i)) + (IF blockno[i] \in pinned THEN 1 ELSE 0)
  BY <1>1, Parts, Zenon DEF RefcntExact
<1>3. Cardinality(Uses(i)) = 0 /\ blockno[i] \notin pinned
  BY <1>1, <1>2, UsesCount
<1> QED
  BY <1>1, <1>3, UsesCount, Zenon DEF Uses

(* What bget() chooses.                                                    *)
LEMMA Chosen ==
  ASSUME IInv, NEW b
  PROVE  /\ Cached(b) # {} => FirstOf(Cached(b)) \in Bufs /\ blockno[FirstOf(Cached(b))] = b
         /\ Unused # {} => LastOf(Unused) \in Unused
<1>1. Cached(b) \in SUBSET Bufs /\ Unused \in SUBSET Bufs
  BY Zenon DEF Cached, Unused
<1>2. Cached(b) # {} => FirstOf(Cached(b)) \in Cached(b)
  BY <1>1, FirstFound, Zenon DEF IInv
<1>3. Unused # {} => LastOf(Unused) \in Unused
  BY <1>1, LastFound, Zenon DEF IInv
<1> QED
  BY <1>2, <1>3, Zenon DEF Cached

(* The steps of bget() with the buffer they choose named.                  *)
LEMMA BgetCached ==
  ASSUME IInv, NEW p \in Refs, NEW b \in Blocks, bget_cached(p, b)
  PROVE  \E i \in Bufs :
           /\ blockno[i] = b /\ pc[p] = "idle"
           /\ refcnt' = [refcnt EXCEPT ![i] = (@ + 1) % UINT]
           /\ buf' = [buf EXCEPT ![p] = i] /\ want' = [want EXCEPT ![p] = b]
           /\ pc' = [pc EXCEPT ![p] = "lock"]
           /\ UNCHANGED <<blockno, valid, data, owner, list, disk, pinned, latest>>
<1>1. FirstOf(Cached(b)) \in Bufs /\ blockno[FirstOf(Cached(b))] = b
  BY Chosen, Zenon DEF bget_cached
<1> QED
  BY <1>1, Zenon DEF bget_cached, Goto, MayGet

(* The block was in no buffer, and the buffer in no hands.                 *)
LEMMA BgetRecycle ==
  ASSUME IInv, NEW p \in Refs, NEW b \in Blocks, bget_recycle(p, b)
  PROVE  \E i \in Bufs :
           /\ refcnt[i] = 0 /\ blockno[i] \notin pinned /\ \A q \in Refs : buf[q] # i
           /\ pc[p] = "idle" /\ \A j \in Bufs : blockno[j] # b
           /\ blockno' = [blockno EXCEPT ![i] = b]
           /\ valid' = [valid EXCEPT ![i] = FALSE]
           /\ refcnt' = [refcnt EXCEPT ![i] = 1]
           /\ buf' = [buf EXCEPT ![p] = i] /\ want' = [want EXCEPT ![p] = b]
           /\ pc' = [pc EXCEPT ![p] = "lock"]
           /\ UNCHANGED <<data, owner, list, disk, pinned, latest>>
<1> DEFINE i == LastOf(Unused)
<1>1. i \in Unused
  BY Chosen, Zenon DEF bget_recycle
<1>2. i \in Bufs /\ blockno[i] \notin pinned /\ \A q \in Refs : buf[q] # i
  BY <1>1, UnusedIsFree, Zenon
<1>3. refcnt[i] = 0
  BY <1>1, Zenon DEF Unused
<1>4. \A j \in Bufs : blockno[j] # b
  BY Zenon DEF bget_recycle, Cached
<1>5. /\ pc[p] = "idle"
      /\ blockno' = [blockno EXCEPT ![i] = b]
      /\ valid' = [valid EXCEPT ![i] = FALSE]
      /\ refcnt' = [refcnt EXCEPT ![i] = 1]
      /\ buf' = [buf EXCEPT ![p] = i] /\ want' = [want EXCEPT ![p] = b]
      /\ pc' = [pc EXCEPT ![p] = "lock"]
      /\ UNCHANGED <<data, owner, list, disk, pinned, latest>>
  BY Zenon DEF bget_recycle, Goto, MayGet
<1> HIDE DEF i
<1> QED
  BY <1>2, <1>3, <1>4, <1>5, Zenon

(* A process that is not idle has a buffer, which holds its block.         *)
LEMMA InHand ==
  ASSUME IInv, NEW p \in Refs, pc[p] \notin {"idle", "panic"}
  PROVE  /\ buf[p] \in Bufs /\ want[p] \in Blocks /\ blockno[buf[p]] = want[p]
         /\ p \in Uses(buf[p])
  BY Parts DEF TypeOK, Hands, BufferKeepsBlock, Uses

(* Two processes that read or use a buffer are one.                        *)
LEMMA Exclusive ==
  ASSUME IInv, NEW p \in Refs, NEW q \in Refs, buf[p] = buf[q],
         pc[p] \in {"read", "use"}, pc[q] \in {"read", "use"}
  PROVE  p = q
  BY Parts, Zenon DEF Hands

-----------------------------------------------------------------------------
(* A reference count that goes up or down does not wrap.                   *)
LEMMA CountUp ==
  ASSUME NEW r \in Nat, r + 1 < UINT
  PROVE  (r + 1) % UINT = r + 1
  BY BcacheConstants

(* The subtraction of 1 modulo UINT.                                       *)
LEMMA CountDown ==
  ASSUME NEW r \in Nat, r > 0, r < UINT
  PROVE  (r + UINT - 1) % UINT = r - 1
<1>1. UINT \in Nat /\ UINT > 0
  BY BcacheConstants
<1>2. PICK a \in Nat : a = r + UINT - 1
  BY <1>1
<1>3. a = UINT * 1 + (r - 1) /\ r - 1 \in 0 .. UINT - 1
  BY <1>1, <1>2
<1>4. a % UINT = r - 1
  BY <1>1, <1>3
<1> QED
  BY <1>2, <1>4, Zenon

(* A process takes a buffer ...                                            *)
LEMMA UsesAdd ==
  ASSUME IInv, NEW p \in Refs, NEW i \in Bufs, pc[p] = "idle", buf' = [buf EXCEPT ![p] = i]
  PROVE  /\ Cardinality(Uses(i)') = Cardinality(Uses(i)) + 1
         /\ \A j \in Bufs : j # i => Uses(j)' = Uses(j)
<1>1. buf[p] = 0 /\ buf \in [Refs -> Bufs \cup {0}] /\ 0 \notin Bufs
  BY Parts DEF TypeOK, Hands, Bufs
<1>2. Uses(i)' = Uses(i) \cup {p} /\ p \notin Uses(i)
  BY <1>1, Zenon DEF Uses
<1>3. Cardinality(Uses(i)') = Cardinality(Uses(i)) + 1
  BY <1>2, UsesCount, FS_AddElement, Zenon
<1>4. \A j \in Bufs : j # i => Uses(j)' = Uses(j)
  BY <1>1, Zenon DEF Uses
<1> QED
  BY <1>3, <1>4, Zenon

(* ... and gives it back.                                                  *)
LEMMA UsesRemove ==
  ASSUME IInv, NEW p \in Refs, NEW i \in Bufs, buf[p] = i, buf' = [buf EXCEPT ![p] = 0]
  PROVE  /\ Cardinality(Uses(i)') = Cardinality(Uses(i)) - 1
         /\ \A j \in Bufs : j # i => Uses(j)' = Uses(j)
<1>1. buf \in [Refs -> Bufs \cup {0}] /\ 0 \notin Bufs
  BY Parts DEF TypeOK, Bufs
<1>2. Uses(i)' = Uses(i) \ {p} /\ p \in Uses(i)
  BY <1>1, Zenon DEF Uses
<1>3. Cardinality(Uses(i)') = Cardinality(Uses(i)) - 1
  BY <1>2, UsesCount, FS_RemoveElement
<1>4. \A j \in Bufs : j # i => Uses(j)' = Uses(j)
  BY <1>1, Zenon DEF Uses
<1> QED
  BY <1>3, <1>4, Zenon

-----------------------------------------------------------------------------
(* refcnt stays exact, and within its range.                               *)
LEMMA RefcntStep ==
  ASSUME IInv, Next
  PROVE  RefcntExact' /\ refcnt' \in [Bufs -> 0 .. UINT - 1]
<1> DEFINE Pin(i) == IF blockno[i] \in pinned THEN 1 ELSE 0
           Exact == /\ \A i \in Bufs : refcnt'[i] = Cardinality(Uses(i)') + Pin(i)'
                    /\ refcnt' = [j \in Bufs |-> refcnt'[j]]
<1>1. /\ refcnt \in [Bufs -> 0 .. UINT - 1]
      /\ \A i \in Bufs : refcnt[i] = Cardinality(Uses(i)) + Pin(i)
  BY Parts, Zenon DEF TypeOK, RefcntExact
<1>2. UINT \in Nat /\ Cardinality(Refs) + 1 < UINT
  BY BcacheConstants, Zenon
<1>3. SUFFICES Exact
  <2>1. \A i \in Bufs : Pin(i)' \in {0, 1}
    BY Zenon
  <2>2. ASSUME NEW i \in Bufs PROVE Cardinality(Uses(i)') + Pin(i)' \in 0 .. UINT - 1
    BY <1>2, <2>1, UsesCountNext
  <2>3. refcnt' \in [Bufs -> 0 .. UINT - 1]
    BY <1>3, <2>2, Zenon
  <2> QED
    BY <1>3, <2>3, Zenon DEF RefcntExact
<1>4. PICK p \in Refs :
        \/ \E b \in Blocks : bget_cached(p, b) \/ bget_recycle(p, b) \/ bget_panic(p, b)
        \/ Lock(p) \/ Read(p)
        \/ \E v \in Vals : bwrite(p, v) \/ bpin(p, v)
        \/ bunpin(p) \/ brelse_unlock(p) \/ brelse(p) \/ panicked(p)
  BY Zenon DEF Next
<1> HIDE DEF Pin
<1>one. ASSUME NEW i \in Bufs, NEW r, refcnt' = [refcnt EXCEPT ![i] = r],
              r = Cardinality(Uses(i)') + Pin(i)',
              \A j \in Bufs : j # i => Uses(j)' = Uses(j) /\ Pin(j)' = Pin(j)
       PROVE  Exact
  <2>1. refcnt' = [j \in Bufs |-> refcnt'[j]]
    BY <1>1, <1>one, Zenon
  <2>2. ASSUME NEW k \in Bufs PROVE refcnt'[k] = Cardinality(Uses(k)') + Pin(k)'
    <3>1. CASE k = i
      BY <1>1, <1>one, <3>1, Zenon
    <3>2. CASE k # i
      <4>1. refcnt'[k] = refcnt[k]
        BY <1>1, <1>one, <3>2, Zenon
      <4>2. Uses(k)' = Uses(k) /\ Pin(k)' = Pin(k)
        BY <1>one, <3>2, Zenon
      <4> QED
        BY <1>1, <4>1, <4>2, Zenon
    <3> QED
      BY <3>1, <3>2, Zenon
  <2> QED
    BY <2>1, <2>2, Zenon
<1>5. ASSUME NEW b \in Blocks, bget_cached(p, b) PROVE Exact
  <2>1. PICK i \in Bufs : /\ pc[p] = "idle" /\ refcnt' = [refcnt EXCEPT ![i] = (@ + 1) % UINT]
                          /\ buf' = [buf EXCEPT ![p] = i] /\ UNCHANGED <<blockno, pinned>>
    BY <1>5, BgetCached
  <2>2. \A j \in Bufs : Pin(j)' = Pin(j) /\ Pin(j) \in {0, 1}
    BY <2>1, Zenon DEF Pin
  <2>3. /\ Cardinality(Uses(i)') = Cardinality(Uses(i)) + 1
        /\ \A j \in Bufs : j # i => Uses(j)' = Uses(j)
    BY <2>1, UsesAdd, Zenon
  <2>4. refcnt[i] \in Nat /\ refcnt[i] + 1 < UINT
    BY <1>1, <1>2, <2>2, <2>3, UsesCount, UsesCountNext
  <2>5. (refcnt[i] + 1) % UINT = refcnt[i] + 1
    BY <2>4, CountUp, Zenon
  <2>6. refcnt' = [refcnt EXCEPT ![i] = refcnt[i] + 1]
    BY <2>1, <2>5, Zenon
  <2> QED
    <3>1. refcnt[i] + 1 = Cardinality(Uses(i)') + Pin(i)'
      BY <1>1, <2>2, <2>3, UsesCount
    <3> QED
      BY <1>one, <2>2, <2>3, <2>6, <3>1, Zenon
<1>6. ASSUME NEW b \in Blocks, bget_recycle(p, b) PROVE Exact
  <2>1. PICK i \in Bufs : /\ refcnt[i] = 0 /\ blockno[i] \notin pinned
                          /\ pc[p] = "idle" /\ \A j \in Bufs : blockno[j] # b
                          /\ blockno' = [blockno EXCEPT ![i] = b]
                          /\ refcnt' = [refcnt EXCEPT ![i] = 1]
                          /\ buf' = [buf EXCEPT ![p] = i] /\ pinned' = pinned
    BY <1>6, BgetRecycle
  <2>2. b \notin pinned /\ blockno \in [Bufs -> Blocks \cup {None}]
    BY <2>1, Parts, Zenon DEF Contents, TypeOK
  <2>3. (\A j \in Bufs : Pin(j)' = Pin(j)) /\ Pin(i) = 0
    BY <2>1, <2>2, Zenon DEF Pin
  <2>4. /\ Cardinality(Uses(i)') = Cardinality(Uses(i)) + 1
        /\ \A j \in Bufs : j # i => Uses(j)' = Uses(j)
    BY <2>1, UsesAdd, Zenon
  <2>5. Cardinality(Uses(i)) = 0
    BY <1>1, <2>1, <2>3, UsesCount
  <2> QED
    <3>1. 1 = Cardinality(Uses(i)') + Pin(i)'
      BY <2>3, <2>4, <2>5
    <3> QED
      BY <1>one, <2>1, <2>3, <2>4, <3>1, Zenon
<1>7. CASE \/ Lock(p) \/ Read(p) \/ (\E v \in Vals : bwrite(p, v)) \/ brelse_unlock(p)
           \/ (\E b \in Blocks : bget_panic(p, b)) \/ panicked(p)
  <2>1. UNCHANGED <<refcnt, buf, blockno, pinned>>
    BY <1>7, Zenon DEF Lock, Read, bwrite, brelse_unlock, bget_panic, panicked, vars
  <2>2. \A i \in Bufs : Uses(i)' = Uses(i) /\ Pin(i)' = Pin(i)
    BY <2>1, Zenon DEF Uses, Pin
  <2> QED
    BY <1>1, <2>1, <2>2, Zenon
<1>8. ASSUME NEW v \in Vals, bpin(p, v) PROVE Exact
  <2>1. PICK i \in Bufs : i = buf[p] /\ blockno[i] = want[p]
    BY <1>8, InHand, Zenon DEF bpin
  <2>2. /\ UNCHANGED <<buf, blockno>> /\ pinned' = pinned \cup {want[p]}
        /\ refcnt' = [refcnt EXCEPT ![i] = IF want[p] \in pinned THEN @ ELSE (@ + 1) % UINT]
    BY <1>8, <2>1, Zenon DEF bpin
  <2>3. \A j \in Bufs : Uses(j)' = Uses(j) /\ (j # i => Pin(j)' = Pin(j))
    <3>1. \A j \in Bufs : j # i => blockno[j] # want[p]
      BY <1>8, <2>1, InHand, BcacheConstants, Parts DEF bpin,
             OneBufferPerBlock
    <3> QED
      BY <2>2, <3>1, Zenon DEF Uses, Pin
  <2>4. CASE want[p] \in pinned
    <3>1. Pin(i)' = Pin(i) /\ refcnt' = refcnt
      BY <1>1, <2>1, <2>2, <2>4, Zenon DEF Pin
    <3> QED
      BY <1>1, <2>3, <3>1, Zenon
  <2>5. CASE want[p] \notin pinned
    <3>1. Pin(i)' = 1 /\ Pin(i) = 0
      BY <2>1, <2>2, <2>5, Zenon DEF Pin
    <3>2. refcnt[i] \in Nat /\ refcnt[i] + 1 < UINT
      BY <1>1, <1>2, <3>1, UsesCount
    <3>3. refcnt' = [refcnt EXCEPT ![i] = refcnt[i] + 1]
      BY <2>2, <2>5, <3>2, CountUp, Zenon
    <3>4. refcnt[i] + 1 = Cardinality(Uses(i)') + Pin(i)'
      BY <1>1, <2>3, <3>1, UsesCount
    <3> QED
      BY <1>one, <2>3, <3>3, <3>4, Zenon
  <2> QED
    BY <2>4, <2>5, Zenon
<1>9. ASSUME bunpin(p) PROVE Exact
  <2>1. PICK i \in Bufs : i = buf[p] /\ blockno[i] = want[p]
    BY <1>9, InHand, Zenon DEF bunpin
  <2>2. /\ UNCHANGED <<buf, blockno>> /\ pinned' = pinned \ {want[p]} /\ want[p] \in pinned
        /\ refcnt' = [refcnt EXCEPT ![i] = (@ + UINT - 1) % UINT]
    BY <1>9, <2>1, Zenon DEF bunpin
  <2>3. \A j \in Bufs : Uses(j)' = Uses(j) /\ (j # i => Pin(j)' = Pin(j))
    <3>1. \A j \in Bufs : j # i => blockno[j] # want[p]
      BY <1>9, <2>1, InHand, BcacheConstants, Parts DEF bunpin,
             OneBufferPerBlock
    <3> QED
      BY <2>2, <3>1, Zenon DEF Uses, Pin
  <2>4. Pin(i)' = 0 /\ Pin(i) = 1
    BY <2>1, <2>2, Zenon DEF Pin
  <2>5. refcnt[i] \in Nat /\ refcnt[i] > 0 /\ refcnt[i] < UINT
    BY <1>1, <1>2, <2>4, UsesCount
  <2>6. refcnt' = [refcnt EXCEPT ![i] = refcnt[i] - 1]
    BY <2>2, <2>5, CountDown, Zenon
  <2> QED
    <3>1. refcnt[i] - 1 = Cardinality(Uses(i)') + Pin(i)'
      BY <1>1, <2>3, <2>4, UsesCount
    <3> QED
      BY <1>one, <2>3, <2>6, <3>1, Zenon
<1>10. ASSUME brelse(p) PROVE Exact
  <2>1. PICK i \in Bufs : i = buf[p] /\ p \in Uses(i)
    BY <1>10, InHand, Zenon DEF brelse
  <2>2. /\ UNCHANGED <<blockno, pinned>> /\ buf' = [buf EXCEPT ![p] = 0]
        /\ refcnt' = [refcnt EXCEPT ![i] = (@ + UINT - 1) % UINT]
    BY <1>10, <2>1, Zenon DEF brelse
  <2>3. \A j \in Bufs : Pin(j)' = Pin(j) /\ Pin(j) \in {0, 1}
    BY <2>2, Zenon DEF Pin
  <2>4. /\ Cardinality(Uses(i)') = Cardinality(Uses(i)) - 1
        /\ \A j \in Bufs : j # i => Uses(j)' = Uses(j)
    BY <2>1, <2>2, UsesRemove, Zenon
  <2>5. Cardinality(Uses(i)) \in Nat \ {0}
    BY <2>1, UsesCount, Zenon
  <2>6. refcnt[i] \in Nat /\ refcnt[i] > 0 /\ refcnt[i] < UINT
    BY <1>1, <1>2, <2>3, <2>5
  <2>7. refcnt' = [refcnt EXCEPT ![i] = refcnt[i] - 1]
    BY <2>2, <2>6, CountDown, Zenon
  <2> QED
    <3>1. refcnt[i] - 1 = Cardinality(Uses(i)') + Pin(i)'
      BY <1>1, <2>3, <2>4, <2>5
    <3> QED
      BY <1>one, <2>3, <2>4, <2>7, <3>1, Zenon
<1> QED
  BY <1>4, <1>5, <1>6, <1>7, <1>8, <1>9, <1>10, Zenon

(* Every variable keeps its type.                                          *)
LEMMA TypeStep ==
  ASSUME IInv, Next
  PROVE  TypeOK'
<1>1. PICK p \in Refs :
        \/ \E b \in Blocks : bget_cached(p, b) \/ bget_recycle(p, b) \/ bget_panic(p, b)
        \/ Lock(p) \/ Read(p)
        \/ \E v \in Vals : bwrite(p, v) \/ bpin(p, v)
        \/ bunpin(p) \/ brelse_unlock(p) \/ brelse(p) \/ panicked(p)
  BY Zenon DEF Next
<1>2. TypeOK /\ refcnt' \in [Bufs -> 0 .. UINT - 1]
  BY RefcntStep, Zenon DEF IInv
<1>3. ASSUME NEW b \in Blocks, bget_cached(p, b) PROVE TypeOK'
  <2>1. PICK i \in Bufs :
          /\ buf' = [buf EXCEPT ![p] = i] /\ want' = [want EXCEPT ![p] = b]
          /\ pc' = [pc EXCEPT ![p] = "lock"]
          /\ UNCHANGED <<blockno, valid, data, owner, list, disk, pinned, latest>>
    BY <1>3, BgetCached
  <2> QED
    BY <1>2, <2>1, Zenon DEF TypeOK
<1>4. ASSUME NEW b \in Blocks, bget_recycle(p, b) PROVE TypeOK'
  <2>1. PICK i \in Bufs :
          /\ blockno' = [blockno EXCEPT ![i] = b]
          /\ valid' = [valid EXCEPT ![i] = FALSE]
          /\ buf' = [buf EXCEPT ![p] = i] /\ want' = [want EXCEPT ![p] = b]
          /\ pc' = [pc EXCEPT ![p] = "lock"]
          /\ UNCHANGED <<data, owner, list, disk, pinned, latest>>
    BY <1>4, BgetRecycle
  <2> QED
    BY <1>2, <2>1, Zenon DEF TypeOK
<1>5. CASE Lock(p) \/ brelse_unlock(p)
  <2>1. /\ owner' = [owner EXCEPT ![buf[p]] = p] \/ owner' = [owner EXCEPT ![buf[p]] = None]
        /\ \E l \in {"use", "read", "release"} : pc' = [pc EXCEPT ![p] = l]
        /\ UNCHANGED <<blockno, valid, data, list, disk, want, buf, pinned, latest>>
    BY <1>5, Zenon DEF Lock, brelse_unlock, Goto
  <2>2. owner' \in [Bufs -> Refs \cup {None}]
    BY <1>2, <2>1, Zenon DEF TypeOK
  <2>3. pc' \in [Refs -> {"idle", "lock", "read", "use", "release", "panic"}]
    BY <1>2, <2>1 DEF TypeOK
  <2> QED
    BY <1>2, <2>1, <2>2, <2>3, Zenon DEF TypeOK
<1>10. CASE (\E b \in Blocks : bget_panic(p, b)) \/ panicked(p)
  BY <1>2, <1>10, Zenon DEF bget_panic, panicked, vars, Goto, TypeOK
<1>6. CASE Read(p)
  <2>1. blockno[buf[p]] \in Blocks
    BY <1>6, InHand, Zenon DEF Read
  <2>2. disk[blockno[buf[p]]] \in Vals
    BY <1>2, <2>1, Zenon DEF TypeOK
  <2> QED
    BY <1>2, <1>6, <2>2, Zenon DEF Read, Goto, TypeOK
<1>7. ASSUME NEW v \in Vals, bwrite(p, v) \/ bpin(p, v) PROVE TypeOK'
  <2>1. want[p] \in Blocks
    BY <1>7, InHand, Zenon DEF bwrite, bpin
  <2> QED
    <3>1. /\ data' = [data EXCEPT ![buf[p]] = v] /\ latest' = [latest EXCEPT ![want[p]] = v]
          /\ pinned' \in {pinned, pinned \cup {want[p]}}
          /\ disk' = disk \/ disk' = [disk EXCEPT ![blockno[buf[p]]] = v]
          /\ UNCHANGED <<blockno, valid, owner, list, pc, want, buf>>
      BY <1>7, Zenon DEF bwrite, bpin
    <3>2. disk' \in [Blocks -> Vals]
      <4>1. disk \in [Blocks -> Vals]
        BY <1>2, Zenon DEF TypeOK
      <4> QED
        BY <3>1, <4>1, Zenon
    <3>4. pinned' \in SUBSET Blocks
      <4>1. pinned \in SUBSET Blocks
        BY <1>2, Zenon DEF TypeOK
      <4> QED
        BY <2>1, <3>1, <4>1, Zenon
    <3>3. data' \in [Bufs -> Vals] /\ latest' \in [Blocks -> Vals]
      BY <1>2, <3>1, Zenon DEF TypeOK
    <3> QED
      BY <1>2, <3>1, <3>2, <3>3, <3>4, Zenon DEF TypeOK
<1>8. CASE bunpin(p)
  <2>1. data[buf[p]] \in Vals
    BY <1>2, <1>8, InHand DEF bunpin, TypeOK
  <2> QED
    BY <1>2, <1>8, <2>1, Zenon DEF bunpin, TypeOK
<1>9. CASE brelse(p)
  <2>1. /\ list' \in [Bufs -> Bufs]
        /\ \A i \in Bufs : \E k \in Bufs : list'[k] = i
    <3>1. buf[p] \in Bufs
      BY <1>9, InHand, Zenon DEF brelse
    <3>2. list' = MoveToFront(buf[p]) \/ list' = list
      BY <1>9, Zenon DEF brelse
    <3>3. CASE list' = MoveToFront(buf[p])
      <4>1. /\ MoveToFront(buf[p]) \in [Bufs -> Bufs]
            /\ \A i \in Bufs : \E k \in Bufs : MoveToFront(buf[p])[k] = i
        BY <1>2, <3>1, ListKept, Zenon
      <4> QED
        BY <3>3, <4>1, Zenon
    <3>4. CASE list' = list
      BY <1>2, <3>4, Zenon DEF TypeOK
    <3> QED
      BY <3>2, <3>3, <3>4, Zenon
  <2> QED
    BY <1>2, <1>9, <2>1, Zenon DEF brelse, Goto, TypeOK
<1> QED
  BY <1>1, <1>3, <1>4, <1>5, <1>6, <1>7, <1>8, <1>9, <1>10, Zenon

(* Blocks and buffers stay together.                                       *)
LEMMA BlockStep ==
  ASSUME IInv, Next
  PROVE  OneBufferPerBlock' /\ BufferKeepsBlock'
<1>1. PICK p \in Refs :
        \/ \E b \in Blocks : bget_cached(p, b) \/ bget_recycle(p, b) \/ bget_panic(p, b)
        \/ Lock(p) \/ Read(p)
        \/ \E v \in Vals : bwrite(p, v) \/ bpin(p, v)
        \/ bunpin(p) \/ brelse_unlock(p) \/ brelse(p) \/ panicked(p)
  BY Zenon DEF Next
<1>2. OneBufferPerBlock /\ BufferKeepsBlock /\ TypeOK
  BY Zenon DEF IInv
<1>3. ASSUME NEW b \in Blocks, bget_cached(p, b) PROVE OneBufferPerBlock' /\ BufferKeepsBlock'
  <2>1. PICK i \in Bufs : /\ blockno[i] = b /\ UNCHANGED blockno
                          /\ buf' = [buf EXCEPT ![p] = i] /\ want' = [want EXCEPT ![p] = b]
    BY <1>3, BgetCached
  <2> QED
    BY <1>2, <2>1 DEF OneBufferPerBlock, BufferKeepsBlock, TypeOK
<1>4. ASSUME NEW b \in Blocks, bget_recycle(p, b) PROVE OneBufferPerBlock' /\ BufferKeepsBlock'
  <2>1. PICK i \in Bufs :
          /\ \A q \in Refs : buf[q] # i
          /\ \A j \in Bufs : blockno[j] # b
          /\ blockno' = [blockno EXCEPT ![i] = b]
          /\ buf' = [buf EXCEPT ![p] = i] /\ want' = [want EXCEPT ![p] = b]
    BY <1>4, BgetRecycle
  <2>2. OneBufferPerBlock'
    BY <1>2, <2>1, Zenon DEF OneBufferPerBlock, TypeOK
  <2>3. BufferKeepsBlock'
    BY <1>2, <2>1 DEF BufferKeepsBlock, TypeOK
  <2> QED
    BY <2>2, <2>3, Zenon
<1>5. CASE brelse(p)
  BY <1>2, <1>5 DEF brelse, OneBufferPerBlock, BufferKeepsBlock, TypeOK
<1>6. CASE \/ Lock(p) \/ Read(p) \/ bunpin(p) \/ brelse_unlock(p) \/ panicked(p)
           \/ (\E v \in Vals : bwrite(p, v) \/ bpin(p, v)) \/ (\E b \in Blocks : bget_panic(p, b))
  <2>1. UNCHANGED <<blockno, buf, want>>
    BY <1>6, Zenon DEF Lock, Read, bunpin, brelse_unlock, bwrite, bpin, bget_panic, panicked, vars
  <2> QED
    BY <1>2, <2>1, Zenon DEF OneBufferPerBlock, BufferKeepsBlock
<1> QED
  BY <1>1, <1>3, <1>4, <1>5, <1>6, Zenon

(* Sleep locks and the test of valid.                                      *)
LEMMA HandsStep ==
  ASSUME IInv, Next
  PROVE  Hands'
<1>1. PICK p \in Refs :
        \/ \E b \in Blocks : bget_cached(p, b) \/ bget_recycle(p, b) \/ bget_panic(p, b)
        \/ Lock(p) \/ Read(p)
        \/ \E v \in Vals : bwrite(p, v) \/ bpin(p, v)
        \/ bunpin(p) \/ brelse_unlock(p) \/ brelse(p) \/ panicked(p)
  BY Zenon DEF Next
<1>2. Hands /\ TypeOK /\ 0 \notin Bufs /\ None \notin Refs
  BY BcacheConstants, Parts DEF Bufs
<1>3. ASSUME NEW b \in Blocks, bget_cached(p, b) PROVE Hands'
  <2>1. PICK i \in Bufs : /\ buf' = [buf EXCEPT ![p] = i] /\ pc' = [pc EXCEPT ![p] = "lock"]
                          /\ UNCHANGED <<valid, owner>>
    BY <1>3, BgetCached
  <2> QED
    BY <1>2, <2>1 DEF Hands, TypeOK
<1>4. ASSUME NEW b \in Blocks, bget_recycle(p, b) PROVE Hands'
  <2>1. PICK i \in Bufs :
          /\ \A q \in Refs : buf[q] # i
          /\ valid' = [valid EXCEPT ![i] = FALSE]
          /\ buf' = [buf EXCEPT ![p] = i] /\ pc' = [pc EXCEPT ![p] = "lock"]
          /\ UNCHANGED owner
    BY <1>4, BgetRecycle
  <2> QED
    BY <1>2, <2>1 DEF Hands, TypeOK
<1>5. CASE Lock(p)
  BY <1>2, <1>5 DEF Lock, Goto, Hands, TypeOK
<1>6. CASE Read(p)
  <2>1. \A q \in Refs : q # p /\ buf[q] = buf[p] => pc[q] \notin {"read", "use"}
    BY <1>6, Exclusive, Zenon DEF Read
  <2> QED
    BY <1>2, <1>6, <2>1 DEF Read, Goto, Hands, TypeOK
<1>7. CASE bunpin(p) \/ \E v \in Vals : bwrite(p, v) \/ bpin(p, v)
  <2>1. UNCHANGED <<pc, buf, owner, valid>>
    BY <1>7, Zenon DEF bunpin, bwrite, bpin
  <2> QED
    BY <1>2, <2>1, Zenon DEF Hands
<1>8. CASE brelse_unlock(p)
  <2>1. \A q \in Refs : q # p /\ buf[q] = buf[p] => pc[q] \notin {"read", "use"}
    BY <1>8, Exclusive, Zenon DEF brelse_unlock
  <2> QED
    BY <1>2, <1>8, <2>1 DEF brelse_unlock, Goto, Hands, TypeOK
<1>9. CASE brelse(p)
  BY <1>2, <1>9, Zenon DEF brelse, Goto, Hands, TypeOK
<1>10. CASE panicked(p)
  BY <1>2, <1>10, Zenon DEF panicked, vars, Hands
<1>11. ASSUME NEW b \in Blocks, bget_panic(p, b) PROVE Hands'
  <2>1. pc[p] = "idle" /\ pc' = [pc EXCEPT ![p] = "panic"] /\ UNCHANGED <<buf, owner, valid>>
    BY <1>11, Zenon DEF bget_panic, MayGet, Goto
  <2> QED
    BY <1>2, <2>1, Zenon DEF Hands, TypeOK
<1> QED
  BY <1>1, <1>3, <1>4, <1>5, <1>6, <1>7, <1>8, <1>9, <1>10, <1>11, Zenon

(* Valid buffers and unpinned disk blocks stay the latest.                 *)
LEMMA ContentsStep ==
  ASSUME IInv, Next
  PROVE  Contents'
<1>1. PICK p \in Refs :
        \/ \E b \in Blocks : bget_cached(p, b) \/ bget_recycle(p, b) \/ bget_panic(p, b)
        \/ Lock(p) \/ Read(p)
        \/ \E v \in Vals : bwrite(p, v) \/ bpin(p, v)
        \/ bunpin(p) \/ brelse_unlock(p) \/ brelse(p) \/ panicked(p)
  BY Zenon DEF Next
<1>2. Contents /\ TypeOK /\ OneBufferPerBlock /\ Hands /\ None \notin Blocks
  BY BcacheConstants, Zenon DEF IInv
<1>3. CASE \/ Lock(p) \/ brelse_unlock(p) \/ brelse(p) \/ panicked(p)
           \/ \E b \in Blocks : bget_cached(p, b) \/ bget_panic(p, b)
  <2>1. UNCHANGED <<blockno, valid, data, disk, pinned, latest>>
    BY <1>3, Zenon DEF Lock, brelse_unlock, brelse, bget_cached, bget_panic, panicked, vars
  <2> QED
    BY <1>2, <2>1, Zenon DEF Contents
<1>4. ASSUME NEW b \in Blocks, bget_recycle(p, b) PROVE Contents'
  <2>1. PICK i \in Bufs :
          /\ blockno[i] \notin pinned
          /\ blockno' = [blockno EXCEPT ![i] = b]
          /\ valid' = [valid EXCEPT ![i] = FALSE]
          /\ UNCHANGED <<data, disk, pinned, latest>>
    BY <1>4, BgetRecycle
  <2> QED
    BY <1>2, <2>1 DEF Contents, TypeOK
<1>5. ASSUME pc[p] \notin {"idle", "panic"}
      PROVE  /\ buf[p] \in Bufs /\ want[p] \in Blocks /\ blockno[buf[p]] = want[p]
             /\ \A j \in Bufs : j # buf[p] => blockno[j] # want[p]
  <2>1. buf[p] \in Bufs /\ want[p] \in Blocks /\ blockno[buf[p]] = want[p]
    BY <1>5, InHand, Zenon
  <2> QED
    BY <1>2, <2>1, Zenon DEF OneBufferPerBlock
<1>6. CASE Read(p)
  <2>1. PICK i \in Bufs : i = buf[p] /\ blockno[i] = want[p] /\ ~valid[i]
    BY <1>2, <1>5, <1>6, Zenon DEF Read, Hands
  <2>2. want[p] \in Blocks \ pinned
    BY <1>2, <1>5, <1>6, <2>1 DEF Read, Contents
  <2>3. disk[blockno[i]] = latest[blockno[i]]
    BY <1>2, <2>1, <2>2, Zenon DEF Contents
  <2>4. /\ data' = [data EXCEPT ![i] = disk[blockno[i]]] /\ valid' = [valid EXCEPT ![i] = TRUE]
        /\ UNCHANGED <<blockno, disk, pinned, latest>>
    BY <1>6, <2>1, Zenon DEF Read
  <2> QED
    BY <1>2, <2>1, <2>2, <2>3, <2>4 DEF Contents, TypeOK
<1>7. ASSUME NEW v \in Vals, bwrite(p, v) \/ bpin(p, v) PROVE Contents'
  <2>1. PICK i \in Bufs, b \in Blocks :
          /\ i = buf[p] /\ b = want[p] /\ blockno[i] = b /\ valid[i]
          /\ \A j \in Bufs : j # i => blockno[j] # b
    BY <1>2, <1>5, <1>7 DEF bwrite, bpin, Hands
  <2>2. /\ data' = [data EXCEPT ![i] = v] /\ latest' = [latest EXCEPT ![b] = v]
        /\ UNCHANGED <<blockno, valid>>
        /\ \/ disk' = [disk EXCEPT ![b] = v] /\ pinned' = pinned
           \/ disk' = disk /\ pinned' = pinned \cup {b}
    BY <1>7, <2>1, Zenon DEF bwrite, bpin
  <2>3. \A j \in Bufs : valid'[j] => blockno'[j] \in Blocks /\ data'[j] = latest'[blockno'[j]]
    BY <1>2, <2>1, <2>2 DEF Contents, TypeOK
  <2>4. \A c \in pinned' : \E j \in Bufs : blockno'[j] = c /\ valid'[j]
    BY <1>2, <2>1, <2>2 DEF Contents
  <2>5. \A c \in Blocks \ pinned' : disk'[c] = latest'[c]
    BY <1>2, <2>1, <2>2 DEF Contents, TypeOK
  <2> QED
    BY <2>3, <2>4, <2>5 DEF Contents
<1>8. CASE bunpin(p)
  <2>1. PICK i \in Bufs, b \in Blocks : i = buf[p] /\ b = want[p] /\ blockno[i] = b /\ valid[i]
    BY <1>2, <1>5, <1>8, Zenon DEF bunpin, Hands
  <2>2. data[i] = latest[b]
    BY <1>2, <2>1 DEF Contents
  <2>3. /\ disk' = [disk EXCEPT ![b] = latest[b]] /\ pinned' = pinned \ {b}
        /\ UNCHANGED <<blockno, valid, data, latest>>
    BY <1>8, <2>1, <2>2, Zenon DEF bunpin
  <2> QED
    BY <1>2, <2>3 DEF Contents, TypeOK
<1> QED
  BY <1>1, <1>3, <1>4, <1>6, <1>7, <1>8, Zenon

(* The log pins at most MaxPins blocks.                                    *)
LEMMA PinsStep ==
  ASSUME IInv, Next
  PROVE  PinsBounded'
<1>1. PICK p \in Refs :
        \/ \E b \in Blocks : bget_cached(p, b) \/ bget_recycle(p, b) \/ bget_panic(p, b)
        \/ Lock(p) \/ Read(p)
        \/ \E v \in Vals : bwrite(p, v) \/ bpin(p, v)
        \/ bunpin(p) \/ brelse_unlock(p) \/ brelse(p) \/ panicked(p)
  BY Zenon DEF Next
<1>2. IsFiniteSet(pinned) /\ Cardinality(pinned) <= MaxPins /\ MaxPins \in Nat
  BY BcacheConstants, Parts, Zenon DEF PinsBounded
<1>3. Cardinality(pinned) \in Nat
  BY <1>2, FS_CardinalityType, Zenon
<1>4. ASSUME NEW v \in Vals, bpin(p, v) PROVE PinsBounded'
  <2>1. /\ pinned' = pinned \cup {want[p]}
        /\ want[p] \in pinned \/ Cardinality(pinned) < MaxPins
    BY <1>4, Zenon DEF bpin
  <2>2. /\ IsFiniteSet(pinned \cup {want[p]})
        /\ Cardinality(pinned \cup {want[p]})
             = IF want[p] \in pinned THEN Cardinality(pinned) ELSE Cardinality(pinned) + 1
    BY <1>2, FS_AddElement, Zenon
  <2> QED
    BY <1>2, <1>3, <2>1, <2>2 DEF PinsBounded
<1>5. CASE bunpin(p)
  <2>1. pinned' = pinned \ {want[p]}
    BY <1>5, Zenon DEF bunpin
  <2>2. /\ IsFiniteSet(pinned \ {want[p]})
        /\ Cardinality(pinned \ {want[p]})
             = IF want[p] \in pinned THEN Cardinality(pinned) - 1 ELSE Cardinality(pinned)
    BY <1>2, FS_RemoveElement, Zenon
  <2> QED
    BY <1>2, <1>3, <2>1, <2>2 DEF PinsBounded
<1>6. CASE UNCHANGED pinned
  BY <1>2, <1>6, Zenon DEF PinsBounded
<1>7. (\E v \in Vals : bpin(p, v)) \/ bunpin(p) \/ UNCHANGED pinned
  BY <1>1, Zenon DEF bget_cached, bget_recycle, bget_panic, Lock, Read, bwrite, brelse_unlock,
         brelse, panicked, vars
<1> QED
  BY <1>4, <1>5, <1>6, <1>7, Zenon

(* binit().                                                                *)
LEMMA InitIInv == Init => IInv
<1> SUFFICES ASSUME Init PROVE IInv
  BY Zenon
<1>1. /\ NBUF \in Nat \ {0} /\ MaxPins \in Nat /\ UINT \in Nat
      /\ Cardinality(Refs) \in Nat /\ Cardinality(Refs) + 1 < UINT
  BY BcacheConstants, FS_CardinalityType, Zenon
<1>2. TypeOK
  <2>1. PICK v \in Vals : data = [i \in Bufs |-> v] /\ disk = [b \in Blocks |-> v]
    BY Zenon DEF Init
  <2>2. /\ list \in [Bufs -> Bufs]
        /\ \A i \in Bufs : \E k \in Bufs : list[k] = i
    <3>1. \A i \in Bufs : NBUF + 1 - i \in Bufs /\ NBUF + 1 - (NBUF + 1 - i) = i
      BY <1>1 DEF Bufs
    <3> QED
      BY <3>1, Zenon DEF Init
  <2>3. 0 \in 0 .. UINT - 1
    BY <1>1
  <2> QED
    BY <2>1, <2>2, <2>3, Zenon DEF Init, TypeOK
<1>3. OneBufferPerBlock /\ BufferKeepsBlock /\ Hands /\ Contents
  BY Zenon DEF Init, OneBufferPerBlock, BufferKeepsBlock, Hands, Contents
<1>4. RefcntExact
  <2>1. ASSUME NEW i \in Bufs PROVE Cardinality(Uses(i)) = 0
    <3>1. Uses(i) = {}
      BY DEF Init, Uses, Bufs
    <3> QED
      BY <3>1, UsesCount, Zenon
  <2> QED
    BY <2>1 DEF Init, RefcntExact
<1>5. PinsBounded
  BY <1>1, FS_EmptySet DEF Init, PinsBounded
<1> QED
  BY <1>2, <1>3, <1>4, <1>5, Zenon DEF IInv

-----------------------------------------------------------------------------
(* bget(), bread(), brelse(), bpin(): the invariant holds in every         *)
(* reachable state.                                                        *)
THEOREM Invariance == Spec => []IInv
<1>1. IInv /\ [Next]_vars => IInv'
  <2> SUFFICES ASSUME IInv, [Next]_vars PROVE IInv'
    BY Zenon
  <2>1. CASE Next
    BY <2>1, TypeStep, BlockStep, HandsStep, ContentsStep, RefcntStep, PinsStep DEF IInv
  <2>2. CASE UNCHANGED vars
    <3>1. TypeOK' /\ OneBufferPerBlock' /\ BufferKeepsBlock'
      BY <2>2, Zenon DEF IInv, TypeOK, OneBufferPerBlock, BufferKeepsBlock, vars
    <3>2. Hands' /\ Contents'
      BY <2>2, Zenon DEF IInv, Hands, Contents, vars
    <3>3. RefcntExact' /\ PinsBounded'
      BY <2>2, Zenon DEF IInv, RefcntExact, PinsBounded, Uses, vars
    <3> QED
      BY <3>1, <3>2, <3>3, Zenon DEF IInv
  <2> QED
    BY <2>1, <2>2, Zenon
<1> QED
  BY <1>1, InitIInv, PTL DEF Spec

(* bread(): a process that has locked a block sees what was last written   *)
(* to it, however buffers were recycled in between.                        *)
THEOREM LatestIsRead == Spec => []ReadsLatest
<1>1. IInv => ReadsLatest
  <2> SUFFICES ASSUME IInv, NEW p \in Refs, pc[p] = "use" PROVE data[buf[p]] = latest[want[p]]
    BY Zenon DEF ReadsLatest
  <2>1. buf[p] \in Bufs /\ blockno[buf[p]] = want[p]
    BY InHand, Zenon
  <2> QED
    BY <2>1, Parts, Zenon DEF Hands, Contents
<1> QED
  BY <1>1, Invariance, PTL

(* bget(), brelse(), bpin(), bunpin(): refcnt is the number of holders and *)
(* pins in every reachable state, so only unused buffers are recycled.     *)
THEOREM CountsAreExact == Spec => []RefcntExact
<1>1. IInv => RefcntExact
  BY Zenon DEF IInv
<1> QED
  BY <1>1, Invariance, PTL

(* With no unused buffer there are NBUF references and pins.               *)
LEMMA FullCache ==
  ASSUME IInv, Unused = {}
  PROVE  NBUF <= Cardinality(Busy) + Cardinality(pinned)
<1> DEFINE Users == Busy \cup pinned
<1>1. ASSUME NEW i \in Bufs
      PROVE  (\E q \in Busy : buf[q] = i) \/ blockno[i] \in pinned
  <2> SUFFICES ASSUME blockno[i] \notin pinned PROVE \E q \in Busy : buf[q] = i
    BY Zenon
  <2>1. refcnt[i] # 0
    BY Zenon DEF Unused
  <2>2. refcnt[i] = Cardinality(Uses(i))
    <3>1. refcnt[i] = Cardinality(Uses(i)) + 0
      BY Parts, Zenon DEF RefcntExact
    <3> QED
      BY <3>1, UsesCount
  <2>3. PICK q \in Refs : buf[q] = i
    BY <2>1, <2>2, UsesCount, Zenon DEF Uses
  <2>4. i # 0
    BY DEF Bufs
  <2> QED
    BY <2>3, <2>4, Zenon DEF Busy
<1> DEFINE f == [i \in Bufs |-> IF blockno[i] \in pinned THEN blockno[i]
                                 ELSE CHOOSE q \in Busy : buf[q] = i]
<1>2. f \in [Bufs -> Users]
  BY <1>1, Zenon
<1>3. \A x, y \in Bufs : f[x] = f[y] => x = y
  <2>1. Busy \cap pinned = {} /\ None \notin pinned
    BY BcacheConstants, Parts, Zenon DEF TypeOK, Busy
  <2>2. \A i \in Bufs : \/ blockno[i] \in pinned /\ f[i] = blockno[i]
                        \/ f[i] \in Busy /\ buf[f[i]] = i
    <3>1. ASSUME NEW i \in Bufs, blockno[i] \in pinned PROVE f[i] = blockno[i]
      BY <3>1, Zenon
    <3>2. ASSUME NEW i \in Bufs, blockno[i] \notin pinned PROVE f[i] \in Busy /\ buf[f[i]] = i
      <4>1. f[i] = CHOOSE q \in Busy : buf[q] = i
        BY <3>2, Zenon
      <4>2. \E q \in Busy : buf[q] = i
        BY <1>1, <3>2, Zenon
      <4> QED
        BY <4>1, <4>2, Zenon
    <3> HIDE DEF f
    <3> QED
      BY <3>1, <3>2, Zenon
  <2> HIDE DEF f
  <2> QED
    BY <2>1, <2>2, Parts DEF OneBufferPerBlock
<1>4. IsFiniteSet(Bufs) /\ Cardinality(Bufs) = NBUF /\ NBUF \in Nat
  BY FS_Interval, BcacheConstants DEF Bufs
<1>5. /\ IsFiniteSet(Users) /\ Cardinality(Users) \in Nat
      /\ Cardinality(Users) <= Cardinality(Busy) + Cardinality(pinned)
      /\ Cardinality(Busy) \in Nat /\ Cardinality(pinned) \in Nat
  <2>1. IsFiniteSet(Busy) /\ Cardinality(Busy) \in Nat
    <3>1. Busy \in SUBSET Refs /\ IsFiniteSet(Refs)
      BY BcacheConstants, Zenon DEF Busy
    <3> QED
      BY <3>1, FS_Subset, FS_CardinalityType, Zenon
  <2>2. IsFiniteSet(pinned) /\ Cardinality(pinned) \in Nat
    BY FS_CardinalityType, Parts, Zenon DEF PinsBounded
  <2>3. IsFiniteSet(Busy \cap pinned) /\ Cardinality(Busy \cap pinned) \in Nat
    BY <2>1, FS_Intersection, FS_CardinalityType, Zenon
  <2>4. /\ IsFiniteSet(Users)
        /\ Cardinality(Users) = Cardinality(Busy) + Cardinality(pinned) - Cardinality(Busy \cap pinned)
    BY <2>1, <2>2, FS_Union, Zenon
  <2> HIDE DEF Users
  <2>5. ASSUME NEW u, NEW x \in Nat, NEW y \in Nat, NEW z \in Nat, u = x + y - z
        PROVE  u \in Int /\ u <= x + y
    BY <2>5
  <2>6. Cardinality(Users) <= Cardinality(Busy) + Cardinality(pinned)
    BY <2>1, <2>2, <2>3, <2>4, <2>5, Zenon
  <2> QED
    BY <2>1, <2>2, <2>4, <2>6, FS_CardinalityType, Zenon
<1> HIDE DEF f, Users
<1>6. ~(NBUF > Cardinality(Users))
  <2> SUFFICES ASSUME NBUF > Cardinality(Users) PROVE FALSE
    BY Zenon
  <2>1. PICK x, y \in Bufs : x # y /\ f[x] = f[y]
    BY <1>2, <1>4, <1>5, FS_PigeonHole
  <2> QED
    BY <1>3, <2>1, Zenon
<1> QED
  BY <1>4, <1>5, <1>6

(* bget(): for any numbers of processes, blocks and buffers, the panic "no *)
(* buffers" means that there are at least as many references and pins as   *)
(* there are buffers.                                                      *)
THEOREM BufferIsFound == Spec => PanicsOnlyFull
<1>1. IInv /\ [Next]_vars => [PanicIsFull]_vars
  <2> SUFFICES ASSUME IInv, Next, NEW p \in Refs, pc'[p] = "panic", pc[p] # "panic"
               PROVE  NBUF <= Cardinality(Busy) + Cardinality(pinned)
    BY Zenon DEF PanicIsFull
  <2>1. PICK q \in Refs :
          \/ \E b \in Blocks : bget_cached(q, b) \/ bget_recycle(q, b) \/ bget_panic(q, b)
          \/ Lock(q) \/ Read(q)
          \/ \E v \in Vals : bwrite(q, v) \/ bpin(q, v)
          \/ bunpin(q) \/ brelse_unlock(q) \/ brelse(q) \/ panicked(q)
    BY Zenon DEF Next
  <2>2. pc \in [Refs -> {"idle", "lock", "read", "use", "release", "panic"}]
    BY Parts, Zenon DEF TypeOK
  <2>3. \E b \in Blocks : bget_panic(q, b)
    <3> SUFFICES ASSUME ~\E b \in Blocks : bget_panic(q, b) PROVE FALSE
      BY Zenon
    <3>1. pc' = pc \/ \E l \in {"idle", "lock", "read", "use", "release"} : pc' = [pc EXCEPT ![q] = l]
      BY <2>1, Zenon DEF bget_cached, bget_recycle, Lock, Read, bwrite, bpin, bunpin, brelse_unlock,
             brelse, panicked, vars, Goto
    <3> QED
      BY <2>2, <3>1
  <2>4. Unused = {}
    BY <2>3, Zenon DEF bget_panic
  <2> QED
    BY <2>4, FullCache, Zenon
<1> QED
  BY <1>1, Invariance, PTL DEF Spec, PanicsOnlyFull
=============================================================================
