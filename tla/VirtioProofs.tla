---------------------------- MODULE VirtioProofs ----------------------------
(***************************************************************************)
(* The disk driver, for any numbers of callers, buffers and descriptors    *)
(* and any width of the ring indices.                                      *)
(***************************************************************************)
EXTENDS Virtio, Numbers, FiniteSetTheorems

(* A set of naturals has a smallest element.                               *)
LEMMA Smallest ==
  ASSUME NEW S \in SUBSET Nat, S # {}
  PROVE  \E m \in S : \A k \in S : m <= k
<1> DEFINE R == OpToRel(<, Nat)
<1>1. IsWellFoundedOn(R, Nat)
  BY NatLessThanWellFounded, Zenon
<1>2. \A x, y \in Nat : <<x, y>> \in R <=> x < y
  BY DEF OpToRel
<1> HIDE DEF R
<1>3. PICK m \in S : \A y \in S : ~ (<<y, m>> \in R)
  BY <1>1, WFMin, Zenon
<1>4. \A y \in S : ~ (y < m)
  BY <1>2, <1>3, Zenon
<1> QED
  BY <1>4

(* The 16-bit indices wrap at a multiple of the ring.                      *)
LEMMA RingConstants ==
  /\ NUM \in Nat \ {0} /\ UINT16 \in Nat \ {0} /\ UINT16 % NUM = 0 /\ NUM <= UINT16
<1>1. PICK k \in 1 .. UINT16 : UINT16 = k * NUM
  BY RingAssumption, Zenon
<1>2. k \in Int /\ k >= 1 /\ NUM \in Nat \ {0} /\ UINT16 \in Nat
  BY RingAssumption
<1>3. UINT16 >= NUM
  BY <1>1, <1>2
<1>4. UINT16 = NUM * k + 0 /\ 0 \in 0 .. NUM - 1
  BY <1>1, <1>2
<1>5. UINT16 % NUM = 0
  BY <1>2, <1>4, ModUnique
<1> QED
  BY <1>2, <1>3, <1>5

(* The places of a ring, less than NUM apart, are different.               *)
LEMMA Places ==
  ASSUME NEW f \in Int, NEW k \in Int
  PROVE  /\ (f + k) % NUM \in Descs
         /\ \A l \in Int : k < l /\ l < k + NUM => (f + k) % NUM # (f + l) % NUM
<1>1. NUM \in Nat \ {0} /\ f + k \in Int
  BY RingConstants
<1>2. ASSUME NEW l \in Int, k < l, l < k + NUM PROVE (f + k) % NUM # (f + l) % NUM
  <2>1. PICK x \in Int, y \in Int : x = f + k /\ y = f + l
    OBVIOUS
  <2>2. x < y /\ y < x + NUM
    BY <1>1, <1>2, <2>1
  <2>3. x % NUM # y % NUM
    BY <1>1, <2>2, ModDiffer, Zenon
  <2> QED
    BY <2>1, <2>3, Zenon
<1> QED
  BY <1>1, <1>2 DEF Descs

(* A request is put behind the last.                                       *)
LEMMA Pushed ==
  ASSUME NEW a \in [Descs -> Descs], NEW f \in Int, NEW n \in 0 .. NUM - 1, NEW x \in Descs,
         x \notin Slots(a, f, n), NoRepeats(a, f, n),
         NEW b \in [Descs -> Descs], NEW g \in Descs, g = (f + n) % NUM, b[g] = x,
         \A i \in Descs : i # g => b[i] = a[i]
  PROVE  /\ Slots(b, f, n + 1) = Slots(a, f, n) \cup {x}
         /\ NoRepeats(b, f, n + 1)
<1>1. NUM \in Nat \ {0} /\ n \in Nat /\ n < NUM /\ n \in Int
  BY RingConstants
<1>2. g \in Descs /\ b \in [Descs -> Descs] /\ b[(f + n) % NUM] = x
  BY <1>1, Places, Zenon
<1>3. ASSUME NEW k \in 0 .. n - 1 PROVE b[(f + k) % NUM] = a[(f + k) % NUM]
  <2>1. k \in Int /\ k < n /\ n < k + NUM
    BY <1>1
  <2>2. (f + k) % NUM # (f + n) % NUM /\ (f + k) % NUM \in Descs
    BY <1>1, <2>1, Places, Zenon
  <2> QED
    BY <2>2, Zenon
<1>4. 0 .. (n + 1) - 1 = (0 .. n - 1) \cup {n}
  BY <1>1
<1>5. Slots(b, f, n + 1) = Slots(a, f, n) \cup {x}
  <2>1. ASSUME NEW y \in Slots(b, f, n + 1) PROVE y \in Slots(a, f, n) \cup {x}
    <3>1. PICK k \in 0 .. (n + 1) - 1 : y = b[(f + k) % NUM]
      BY Zenon DEF Slots
    <3> QED
      BY <1>2, <1>3, <1>4, <3>1, Zenon DEF Slots
  <2>2. ASSUME NEW y \in Slots(a, f, n) PROVE y \in Slots(b, f, n + 1)
    <3>1. PICK k \in 0 .. n - 1 : y = a[(f + k) % NUM]
      BY Zenon DEF Slots
    <3>2. k \in 0 .. (n + 1) - 1 /\ y = b[(f + k) % NUM]
      BY <1>3, <1>4, <3>1, Zenon
    <3> QED
      BY <3>2, Zenon DEF Slots
  <2>3. x \in Slots(b, f, n + 1)
    <3>1. n \in 0 .. (n + 1) - 1
      BY <1>4, Zenon
    <3> QED
      BY <1>2, <3>1 DEF Slots
  <2> QED
    BY <2>1, <2>2, <2>3, Zenon
<1>6. ASSUME NEW k \in 0 .. n - 1 PROVE b[(f + k) % NUM] # x
  BY <1>3, Zenon DEF Slots
<1>7. NoRepeats(b, f, n + 1)
  <2> SUFFICES ASSUME NEW k \in 0 .. (n + 1) - 1, NEW l \in 0 .. (n + 1) - 1,
                      b[(f + k) % NUM] = b[(f + l) % NUM]
               PROVE  k = l
    BY Zenon DEF NoRepeats
  <2>1. CASE k = n \/ l = n
    BY <1>2, <1>4, <1>6, <2>1, Zenon
  <2>2. CASE k # n /\ l # n
    <3>1. k \in 0 .. n - 1 /\ l \in 0 .. n - 1
      BY <1>4, <2>2, Zenon
    <3>2. a[(f + k) % NUM] = a[(f + l) % NUM]
      BY <1>3, <3>1, Zenon
    <3> QED
      BY <3>1, <3>2, Zenon DEF NoRepeats
  <2> QED
    BY <2>1, <2>2, Zenon
<1> QED
  BY <1>2, <1>5, <1>7, Zenon

(* The first is taken.                                                     *)
LEMMA Popped ==
  ASSUME NEW a \in [Descs -> Descs], NEW f \in Int, NEW n \in Nat \ {0}, NoRepeats(a, f, n),
         NEW g \in Int, g % NUM = (f + 1) % NUM, NEW x, x = a[f % NUM]
  PROVE  /\ x \in Slots(a, f, n)
         /\ Slots(a, g, n - 1) = Slots(a, f, n) \ {x}
         /\ NoRepeats(a, g, n - 1)
<1>1. NUM \in Nat \ {0} /\ n \in Nat /\ n >= 1
  BY RingConstants
<1>2. ASSUME NEW k \in Int PROVE (g + k) % NUM = (f + (k + 1)) % NUM
  <2>1. PICK m \in Int : g = (f + 1) + NUM * m
    <3>1. f + 1 \in Int /\ (f + 1) % NUM = g % NUM
      OBVIOUS
    <3> QED
      BY <1>1, <3>1, ModSame, Zenon
  <2>2. PICK y \in Int, z \in Int : y = g + k /\ z = f + (k + 1)
    OBVIOUS
  <2>3. y = z + NUM * m
    <3>1. NUM * m \in Int
      BY <1>1
    <3> QED
      BY <2>1, <2>2, <3>1
  <2>4. y % NUM = z % NUM
    BY <1>1, <2>3, ModShift, Zenon
  <2> QED
    BY <2>2, <2>4, Zenon
<1>3. x = a[(f + 0) % NUM] /\ 0 \in 0 .. n - 1
  BY <1>1
<1>4. ASSUME NEW k \in 0 .. (n - 1) - 1
      PROVE  /\ k + 1 \in 0 .. n - 1 /\ k + 1 # 0
             /\ a[(g + k) % NUM] = a[(f + (k + 1)) % NUM]
  BY <1>1, <1>2
<1>5. ASSUME NEW k \in 0 .. n - 1, k # 0
      PROVE  k - 1 \in 0 .. (n - 1) - 1 /\ a[(g + (k - 1)) % NUM] = a[(f + k) % NUM]
  <2>1. k - 1 \in Int /\ (k - 1) + 1 = k
    BY <1>1
  <2>2. (g + (k - 1)) % NUM = (f + ((k - 1) + 1)) % NUM
    BY <1>2, <2>1, Zenon
  <2> QED
    BY <1>1, <1>5, <2>1, <2>2
<1>6. \A k \in 0 .. n - 1 : a[(f + k) % NUM] = x => k = 0
  BY <1>3 DEF NoRepeats
<1>7. Slots(a, g, n - 1) = Slots(a, f, n) \ {x}
  <2>1. ASSUME NEW y \in Slots(a, g, n - 1) PROVE y \in Slots(a, f, n) \ {x}
    <3>1. PICK k \in 0 .. (n - 1) - 1 : y = a[(g + k) % NUM]
      BY Zenon DEF Slots
    <3> QED
      BY <1>4, <1>6, <3>1 DEF Slots
  <2>2. ASSUME NEW y \in Slots(a, f, n), y # x PROVE y \in Slots(a, g, n - 1)
    <3>1. PICK k \in 0 .. n - 1 : y = a[(f + k) % NUM]
      BY Zenon DEF Slots
    <3>2. k # 0
      BY <1>3, <2>2, <3>1, Zenon
    <3> QED
      BY <1>5, <3>1, <3>2, Zenon DEF Slots
  <2> QED
    BY <2>1, <2>2, Zenon
<1>8. NoRepeats(a, g, n - 1)
  <2> SUFFICES ASSUME NEW k \in 0 .. (n - 1) - 1, NEW l \in 0 .. (n - 1) - 1,
                      a[(g + k) % NUM] = a[(g + l) % NUM]
               PROVE  k = l
    BY Zenon DEF NoRepeats
  <2>1. k + 1 = l + 1
    BY <1>4 DEF NoRepeats
  <2> QED
    BY <2>1
<1> QED
  BY <1>3, <1>7, <1>8, Zenon DEF Slots

(* A ring without repetitions has as many requests as places.              *)
LEMMA SlotsCount ==
  ASSUME NEW a \in [Descs -> Descs], NEW f \in Int, NEW n \in Nat, NoRepeats(a, f, n)
  PROVE  IsFiniteSet(Slots(a, f, n)) /\ Cardinality(Slots(a, f, n)) = n
<1> DEFINE h == [k \in 0 .. n - 1 |-> a[(f + k) % NUM]]
<1>1. IsFiniteSet(0 .. n - 1) /\ Cardinality(0 .. n - 1) = n
  <2>1. 0 \in Int /\ n - 1 \in Int
    OBVIOUS
  <2>2. IsFiniteSet(0 .. n - 1) /\ Cardinality(0 .. n - 1) = IF 0 > n - 1 THEN 0 ELSE n - 1 - 0 + 1
    BY <2>1, FS_Interval, Zenon
  <2> QED
    BY <2>2
<1>2. h \in Bijection(0 .. n - 1, Slots(a, f, n))
  <2>1. h \in [0 .. n - 1 -> Slots(a, f, n)]
    BY Zenon DEF Slots
  <2>2. \A k, l \in 0 .. n - 1 : h[k] = h[l] => k = l
    BY Zenon DEF NoRepeats
  <2>3. \A y \in Slots(a, f, n) : \E k \in 0 .. n - 1 : h[k] = y
    BY Zenon DEF Slots
  <2>4. DOMAIN h = 0 .. n - 1
    BY Zenon
  <2> HIDE DEF h
  <2> QED
    BY <2>1, <2>2, <2>3, <2>4 DEF Bijection, Injection, Surjection, IsInjective
<1>3. ExistsBijection(0 .. n - 1, Slots(a, f, n))
  BY <1>2, Zenon DEF ExistsBijection
<1> QED
  BY <1>1, <1>3, FS_Bijection

(* Two descriptors besides: the ring has room for two more.                *)
LEMMA TwoMore ==
  ASSUME NEW a \in [Descs -> Descs], NEW f \in Int, NEW n \in Nat, NoRepeats(a, f, n),
         NEW i \in Descs, NEW j \in Descs, i # j, i \notin Slots(a, f, n), j \notin Slots(a, f, n)
  PROVE  n + 2 <= NUM
<1> DEFINE S == Slots(a, f, n)
<1>1. IsFiniteSet(S) /\ Cardinality(S) = n
  BY SlotsCount, Zenon
<1>2. S \subseteq Descs
  <2> SUFFICES ASSUME NEW k \in 0 .. n - 1 PROVE a[(f + k) % NUM] \in Descs
    BY Zenon DEF Slots
  <2>1. (f + k) % NUM \in Descs
    BY Places
  <2> QED
    BY <2>1, Zenon
<1> HIDE DEF S
<1>3. IsFiniteSet(S \cup {i}) /\ Cardinality(S \cup {i}) = n + 1
  BY <1>1, FS_AddElement, Zenon DEF S
<1>4. IsFiniteSet((S \cup {i}) \cup {j}) /\ Cardinality((S \cup {i}) \cup {j}) = (n + 1) + 1
  BY <1>3, FS_AddElement, Zenon DEF S
<1>5. IsFiniteSet(Descs) /\ Cardinality(Descs) = NUM
  <2>1. 0 \in Int /\ NUM - 1 \in Int /\ NUM \in Nat \ {0}
    BY RingConstants
  <2>2. IsFiniteSet(0 .. NUM - 1) /\ Cardinality(0 .. NUM - 1) = IF 0 > NUM - 1 THEN 0 ELSE NUM - 1 - 0 + 1
    BY <2>1, FS_Interval, Zenon
  <2> QED
    BY <2>1, <2>2 DEF Descs
<1>6. (S \cup {i}) \cup {j} \in SUBSET Descs
  BY <1>2, Zenon
<1>7. Cardinality((S \cup {i}) \cup {j}) <= Cardinality(Descs)
  BY <1>5, <1>6, FS_Subset, Zenon
<1> QED
  BY <1>4, <1>5, <1>7

-----------------------------------------------------------------------------
(* What a step keeps of a request that it does not begin or end.           *)
Alike(r, s) ==
  /\ s.b = r.b /\ s.write = r.write /\ s.data = r.data /\ s.head = r.head
  /\ Live(s) <=> Live(r)
  /\ s.pc = "idle" <=> r.pc = "idle"

(* The submitted requests are the same, ...                                *)
LEMMA SubmittedAlike ==
  ASSUME \A c \in Callers : Alike(rq[c], rq'[c])
  PROVE  Submitted' = Submitted
  BY Zenon DEF Submitted, Alike, Live

(* ... and so are their chains, ...                                        *)
LEMMA ChainsAlike ==
  ASSUME ChainsInv, \A c \in Callers : Alike(rq[c], rq'[c]), UNCHANGED <<free, desc, info>>
  PROVE  ChainsInv'
<1>1. Submitted' = Submitted /\ Submitted \subseteq Callers
  BY SubmittedAlike, Zenon DEF Submitted
<1>2. \A c \in Submitted : Formed(desc, rq'[c]) <=> Formed(desc, rq[c])
  BY <1>1, Zenon DEF Formed, Alike
<1> QED
  BY <1>1, <1>2 DEF ChainsInv, Alike

(* ... their owners ...                                                    *)
LEMMA OwnersAlike ==
  ASSUME OwnersInv, \A c \in Callers : Alike(rq[c], rq'[c]), InFlight' = InFlight,
         \A b \in Bufs : buf'[b].disk <=> buf[b].disk,
         \A c \in Submitted : rq[c].b \in Bufs
  PROVE  OwnersInv'
<1>1. Submitted' = Submitted /\ Submitted \subseteq Callers
  BY SubmittedAlike, Zenon DEF Submitted
<1> QED
  BY <1>1 DEF OwnersInv, Alike

(* ... and their data.                                                     *)
LEMMA DataAlike ==
  ASSUME DataInv, \A c \in Callers : Alike(rq[c], rq'[c]), Undone' = Undone,
         \A b \in Bufs : buf'[b].data = buf[b].data, disk' = disk,
         \A c \in Submitted : rq[c].b \in Bufs
  PROVE  DataInv'
<1>1. Submitted' = Submitted /\ Submitted \subseteq Callers
  BY SubmittedAlike, Zenon DEF Submitted
<1> QED
  BY <1>1 DEF DataInv, Alike, Pending, Served

(* The conjuncts of the inductive invariant of the disk driver.            *)
LEMMA DiskParts ==
  DiskInv => DiskTypeOK /\ ChainsInv /\ RingsInv /\ OwnersInv /\ DataInv /\ WaitersServed
BY Zenon DEF DiskInv

(* What a submitted request has.                                           *)
LEMMA SubmittedTypes ==
  ASSUME DiskInv, NEW c \in Submitted
  PROVE  c \in Callers /\ rq[c] \in RqRecs /\ rq[c].b \in Bufs /\ rq[c].head \in Descs /\ Live(rq[c])
  BY DiskParts, Zenon DEF DiskTypeOK, ChainsInv, Submitted, RqRecs, Live

(* A step that only puts callers to sleep or wakes them.                   *)
LEMMA QuietStep ==
  ASSUME DiskInv, rq' \in [Callers -> RqRecs], \A c \in Callers : Alike(rq[c], rq'[c]),
         UNCHANGED <<free, desc, info, avail, availIdx, used, usedId, used_idx, failed, fetched,
                     fetchIdx, buf, disk, jobs>>,
         WaitersServed'
  PROVE  DiskInv'
<1>types. DiskTypeOK
  BY DiskParts, Zenon
<1>rings. RingsInv
  BY DiskParts, Zenon
<1>1. DiskTypeOK'
  BY <1>types, Zenon DEF DiskTypeOK
<1>2. Unfetched' = Unfetched /\ Unseen' = Unseen
  BY Zenon DEF Unfetched, Unseen
<1>3. Waiting' = Waiting /\ InFlight' = InFlight /\ Undone' = Undone
  BY <1>2 DEF Waiting, InFlight, Undone
<1>4. RingsInv'
  BY <1>2, <1>3, <1>rings DEF RingsInv, NoRepeats
<1>5. ChainsInv' /\ OwnersInv' /\ DataInv'
  BY <1>3, SubmittedTypes, ChainsAlike, OwnersAlike, DataAlike, Zenon DEF DiskInv
<1> QED
  BY <1>1, <1>4, <1>5, Zenon DEF DiskInv

(* kill() wakes a caller that sleeps in virtio_disk_rw().                  *)
LEMMA KillInv ==
  ASSUME DiskInv, NEW c \in Callers, disk_kill(c)
  PROVE  DiskInv'
<1>types. DiskTypeOK
  BY DiskParts, Zenon
<1>served. WaitersServed
  BY DiskParts, Zenon
<1>1. rq[c] \in RqRecs /\ rq \in [Callers -> RqRecs] /\ rq[c].pc \in {"wait", "nodesc"}
  BY <1>types, Zenon DEF DiskTypeOK, disk_kill
<1>2. PICK pc \in {"woken", "retry"} : pc = IF rq[c].pc = "wait" THEN "woken" ELSE "retry"
  BY Zenon
<1>3. PICK r : r = [rq[c] EXCEPT !.pc = pc]
  BY Zenon
<1>4. r \in RqRecs /\ r.pc = pc /\ Alike(rq[c], r)
  BY <1>1, <1>2, <1>3 DEF RqRecs, Alike, Live
<1>5. rq' = [rq EXCEPT ![c] = r]
  BY <1>1, <1>2, <1>3, Zenon DEF disk_kill
<1>6. rq' \in [Callers -> RqRecs] /\ \A o \in Callers : Alike(rq[o], rq'[o])
  BY <1>1, <1>4, <1>5, Zenon DEF Alike
<1>7. WaitersServed'
  <2>1. \A o \in Callers : rq'[o] = rq[o] \/ rq'[o].pc \in {"woken", "retry"}
    BY <1>1, <1>4, <1>5, Zenon
  <2>2. UNCHANGED <<free, buf, isr, missed, used_idx, usedId>>
    BY Zenon DEF disk_kill
  <2> QED
    BY <2>1, <2>2, <1>served DEF WaitersServed, More
<1> QED
  BY <1>6, <1>7, QuietStep, Zenon DEF disk_kill

(* virtio_disk_intr() outside the loop over the used ring.                 *)
LEMMA IntrInv ==
  ASSUME DiskInv, intr_begin \/ intr_panic \/ intr_last \/ intr_ack
  PROVE  DiskInv'
<1>types. DiskTypeOK
  BY DiskParts, Zenon
<1>served. WaitersServed
  BY DiskParts, Zenon
<1>1. UNCHANGED <<free, desc, info, avail, availIdx, used, usedId, used_idx, failed, fetched,
                  fetchIdx, buf, disk, rq, jobs>>
  BY Zenon DEF intr_begin, intr_panic, intr_last, intr_ack
<1>2. rq' \in [Callers -> RqRecs] /\ \A c \in Callers : Alike(rq[c], rq'[c])
  BY <1>1, <1>types, Zenon DEF Alike, DiskTypeOK
<1>3. More' <=> More
  BY <1>1, Zenon DEF More
<1>4. More' => isr' \/ missed'
  BY <1>3, Zenon DEF DiskInv, WaitersServed, intr_begin, intr_panic, intr_last, intr_ack
<1>5. WaitersServed'
  BY <1>1, <1>4, <1>served DEF WaitersServed
<1> QED
  BY <1>1, <1>2, <1>5, QuietStep, Zenon

(* The places of the rings, and where the indices point.                   *)
LEMMA Indices ==
  ASSUME DiskInv
  PROVE  /\ (availIdx - fetchIdx) % UINT16 \in 0 .. UINT16 - 1
         /\ (usedId - used_idx) % NUM \in 0 .. NUM - 1
         /\ (fetchIdx + ((availIdx - fetchIdx) % UINT16)) % NUM = availIdx % NUM
         /\ (used_idx + ((usedId - used_idx) % NUM)) % NUM = usedId % NUM
         /\ (availIdx - fetchIdx) % UINT16 = 0 <=> fetchIdx = availIdx
         /\ (usedId - used_idx) % NUM = 0 <=> ~More
         /\ Unfetched = Slots(avail, fetchIdx, (availIdx - fetchIdx) % UINT16)
         /\ Unseen = Slots(used, used_idx, (usedId - used_idx) % NUM)
         /\ Unfetched \subseteq Descs /\ Unseen \subseteq Descs
<1>1. /\ availIdx \in Int /\ fetchIdx \in Int /\ usedId \in Int /\ used_idx \in Int
      /\ NUM \in Nat \ {0} /\ UINT16 \in Nat \ {0} /\ UINT16 % NUM = 0
      /\ availIdx \in 0 .. UINT16 - 1 /\ fetchIdx \in 0 .. UINT16 - 1
      /\ avail \in [Descs -> Descs] /\ used \in [Descs -> Descs]
  BY RingConstants, DiskParts DEF DiskTypeOK
<1>2. PICK n \in Int : n = (availIdx - fetchIdx) % UINT16
  BY <1>1
<1>3. n \in 0 .. UINT16 - 1 /\ (fetchIdx + n) % UINT16 = availIdx /\ (n = 0 <=> availIdx = fetchIdx)
  <2>1. availIdx % UINT16 = availIdx /\ fetchIdx % UINT16 = fetchIdx
    BY <1>1, ModSmall
  <2>2. /\ (availIdx - fetchIdx) % UINT16 \in 0 .. UINT16 - 1
        /\ (fetchIdx + ((availIdx - fetchIdx) % UINT16)) % UINT16 = availIdx % UINT16
        /\ (availIdx - fetchIdx) % UINT16 = 0 <=> availIdx % UINT16 = fetchIdx % UINT16
    BY <1>1, Distance, Zenon
  <2> QED
    BY <1>2, <2>1, <2>2, Zenon
<1>4. (fetchIdx + n) % NUM = availIdx % NUM
  <2>1. PICK x \in Int : x = fetchIdx + n
    BY <1>1
  <2>2. (x % UINT16) % NUM = x % NUM
    BY <1>1, ModMod, Zenon
  <2> QED
    BY <1>3, <2>1, <2>2, Zenon
<1>5. /\ (usedId - used_idx) % NUM \in 0 .. NUM - 1
      /\ (used_idx + ((usedId - used_idx) % NUM)) % NUM = usedId % NUM
      /\ (usedId - used_idx) % NUM = 0 <=> ~More
  BY <1>1, Distance, Zenon DEF More
<1>6. Unfetched = Slots(avail, fetchIdx, n) /\ Unseen = Slots(used, used_idx, (usedId - used_idx) % NUM)
  BY <1>2, Zenon DEF Unfetched, Unseen, Slots
<1>7. \A f \in Int, k \in Int : (f + k) % NUM \in Descs
  BY Places, Zenon
<1>8. Unfetched \subseteq Descs /\ Unseen \subseteq Descs
  BY <1>1, <1>7 DEF Unfetched, Unseen
<1> QED
  BY <1>2, <1>3, <1>4, <1>5, <1>6, <1>8, Zenon

(* Each chain has one owner.                                               *)
LEMMA OneOwner ==
  ASSUME DiskInv, NEW c \in Submitted, NEW o \in Submitted,
         rq[o].head \in Links(desc, rq[c].head)
  PROVE  o = c
  BY DiskParts, Zenon DEF ChainsInv, Links

(* A caller with a request has its buffer and its data.                    *)
LEMMA Busy ==
  ASSUME DiskInv, NEW o \in Callers
  PROVE  /\ rq[o].pc = "idle" <=> rq[o].b = NoBuf
         /\ rq[o].pc # "idle" => rq[o].data \in Values
  BY DiskParts, Zenon DEF ChainsInv

(* No two callers have a request for the same buffer.                      *)
LEMMA OneBuffer ==
  ASSUME DiskInv, NEW o \in Callers, NEW p \in Callers, rq[o].b = rq[p].b, rq[o].b # NoBuf
  PROVE  o = p
  BY DiskParts, Zenon DEF ChainsInv

(* The chains of two requests share no descriptor.                         *)
LEMMA ChainsApart ==
  ASSUME DiskInv, NEW o \in Submitted, NEW p \in Submitted, o # p
  PROVE  Links(desc, rq[o].head) \cap Links(desc, rq[p].head) = {}
  BY DiskParts, Zenon DEF ChainsInv

(* The device takes a request.                                             *)
LEMMA FetchInv ==
  ASSUME DiskInv, dev_fetch
  PROVE  DiskInv'
<1>types. DiskTypeOK
  BY DiskParts, Zenon
<1>rings. RingsInv
  BY DiskParts, Zenon
<1>served. WaitersServed
  BY DiskParts, Zenon
<1> DEFINE n == (availIdx - fetchIdx) % UINT16
           x == avail[fetchIdx % NUM]
<1>1. /\ n \in Nat \ {0} /\ Unfetched = Slots(avail, fetchIdx, n) /\ NoRepeats(avail, fetchIdx, n)
      /\ Unseen \subseteq Descs /\ Unfetched \subseteq Descs
  BY Indices, <1>rings DEF dev_fetch, RingsInv
<1>2. /\ availIdx \in Int /\ fetchIdx \in Int /\ NUM \in Nat \ {0} /\ UINT16 \in Nat \ {0}
      /\ UINT16 % NUM = 0 /\ avail \in [Descs -> Descs]
      /\ fetchIdx' = (fetchIdx + 1) % UINT16
  BY RingConstants, <1>types DEF DiskTypeOK, dev_fetch
<1>3. PICK g \in 0 .. UINT16 - 1 : fetchIdx' = g
  BY <1>2
<1>4. g % UINT16 = (fetchIdx + 1) % UINT16 /\ g % NUM = (fetchIdx + 1) % NUM
  <2>1. PICK y \in Int : y = fetchIdx + 1
    BY <1>2
  <2>2. g = y % UINT16
    BY <1>2, <1>3, <2>1, Zenon
  <2>3. (y % UINT16) % NUM = y % NUM
    BY <1>2, ModMod, Zenon
  <2>4. g % UINT16 = g
    BY <1>2, ModSmall, Zenon
  <2> QED
    BY <2>1, <2>2, <2>3, <2>4, Zenon
<1>5. (availIdx - g) % UINT16 = n - 1
  <2>1. g \in Int /\ (availIdx - fetchIdx) % UINT16 # 0
    BY <1>1
  <2>2. (availIdx - g) % UINT16 = ((availIdx - fetchIdx) % UINT16) - 1
    <3>1. /\ UINT16 \in Nat \ {0} /\ availIdx \in Int /\ fetchIdx \in Int /\ g \in Int
          /\ g % UINT16 = (fetchIdx + 1) % UINT16 /\ (availIdx - fetchIdx) % UINT16 # 0
      BY <1>2, <1>4, <2>1, Zenon
    <3> QED
      BY <3>1, Nearer
  <2> QED
    BY <2>2, Zenon
<1>6. /\ x \in Slots(avail, fetchIdx, n)
      /\ Slots(avail, g, n - 1) = Slots(avail, fetchIdx, n) \ {x}
      /\ NoRepeats(avail, g, n - 1)
  <2> HIDE DEF n
  <2>1. g \in Int
    OBVIOUS
  <2> QED
    BY <1>1, <1>2, <1>4, <2>1, Popped, Zenon
<1>7. UNCHANGED <<free, desc, info, avail, availIdx, used, usedId, used_idx, failed, isr, buf, disk,
                  rq, jobs, missed>> /\ fetched' = fetched \cup {x}
  BY Zenon DEF dev_fetch
<1>8. Unfetched' = Unfetched \ {x} /\ NoRepeats(avail, fetchIdx, (availIdx - fetchIdx) % UINT16)'
  <2>1. Unfetched' = Slots(avail, g, (availIdx - g) % UINT16)
    BY <1>3, <1>7, Zenon DEF Unfetched, Slots
  <2>2. NoRepeats(avail, fetchIdx, (availIdx - fetchIdx) % UINT16)'
        <=> NoRepeats(avail, g, (availIdx - g) % UINT16)
    BY <1>3, <1>7 DEF NoRepeats
  <2> QED
    BY <1>1, <1>5, <1>6, <2>1, <2>2
<1> HIDE DEF n, x
<1>9. Unseen' = Unseen
  BY <1>7, Zenon DEF Unseen
<1>10. Waiting' = Waiting /\ InFlight' = InFlight /\ Undone' = Undone
  <2>1. Waiting' = Waiting
    BY <1>1, <1>6, <1>7, <1>8, Zenon DEF Waiting
  <2> QED
    BY <1>7, <1>9, <2>1, Zenon DEF InFlight, Undone
<1>11. RingsInv'
  <2>1. NoRepeats(used, used_idx, (usedId - used_idx) % NUM)'
    BY <1>7, <1>rings DEF RingsInv, NoRepeats
  <2>2. (Unfetched \cap fetched)' = {}
    BY <1>7, <1>8, <1>rings, Zenon DEF RingsInv
  <2> QED
    BY <1>7, <1>8, <1>9, <1>10, <2>1, <2>2, <1>rings DEF RingsInv
<1>12. DiskTypeOK'
  BY <1>1, <1>3, <1>6, <1>7, <1>types, Zenon DEF DiskTypeOK
<1>13. ChainsInv' /\ OwnersInv' /\ DataInv'
  <2>1. \A c \in Callers : Alike(rq[c], rq'[c])
    BY <1>7, Zenon DEF Alike
  <2> QED
    BY <1>7, <1>10, <2>1, SubmittedTypes, ChainsAlike, OwnersAlike, DataAlike, Zenon DEF DiskInv
<1>14. WaitersServed'
  BY <1>7, <1>served, Zenon DEF WaitersServed, More
<1> QED
  BY <1>11, <1>12, <1>13, <1>14, Zenon DEF DiskInv

(* What Formed says, for the request with this head.                       *)
LEMMA HeadOf ==
  ASSUME DiskInv, NEW i \in InFlight
  PROVE  \E c \in Submitted :
           /\ rq[c].head = i /\ rq[c].b \in Bufs /\ desc[i].b = rq[c].b
           /\ desc[i].write = rq[c].write /\ info[i] = rq[c].b
           /\ desc[i].next \in Descs /\ desc[i].next # i
           /\ \A o \in Submitted : rq[o].head = desc[i].next => FALSE
           /\ \A o \in Submitted \ {c} : rq[o].head # i /\ rq[o].b # rq[c].b
<1>types. DiskTypeOK
  BY DiskParts, Zenon
<1>chains. ChainsInv
  BY DiskParts, Zenon
<1>owners. OwnersInv
  BY DiskParts, Zenon
<1>1. PICK c \in Submitted : rq[c].head = i
  BY <1>owners, Zenon DEF OwnersInv
<1>2. c \in Callers /\ rq[c].b \in Bufs /\ i \in Descs /\ rq[c].b # NoBuf
  BY <1>1, SubmittedTypes, NoBufAssumption, Zenon
<1>3. Formed(desc, rq[c]) /\ info[i] = rq[c].b /\ desc[i] \in DescRecs
  BY <1>1, <1>2, <1>types, <1>chains DEF ChainsInv, DiskTypeOK
<1>4. /\ desc[i].b = rq[c].b /\ desc[i].write = rq[c].write
      /\ desc[i].next \in Descs /\ desc[i].next # i
  BY <1>1, <1>3, Zenon DEF Formed, DescRecs
<1>5. ASSUME NEW o \in Submitted, rq[o].head = desc[i].next PROVE FALSE
  <2>1. rq[o].head \in Links(desc, rq[c].head)
    BY <1>1, <1>5 DEF Links
  <2>2. o = c
    BY <2>1, OneOwner, Zenon
  <2> QED
    BY <1>1, <1>4, <1>5, <2>2, Zenon
<1>6. ASSUME NEW o \in Submitted \ {c} PROVE rq[o].head # i /\ rq[o].b # rq[c].b
  <2>1. rq[o].head # i
    BY <1>1, OneOwner, Zenon DEF Links
  <2>2. rq[o].b # rq[c].b
    BY <1>2, SubmittedTypes, <1>chains, Zenon DEF ChainsInv
  <2> QED
    BY <2>1, <2>2, Zenon
<1> QED
  BY <1>1, <1>2, <1>3, <1>4, <1>5, <1>6

(* One more entry in the used ring is one more to see.                     *)
LEMMA UsedFarther ==
  ASSUME usedId \in Int, used_idx \in Int, NEW g \in Int, g % NUM = (usedId + 1) % NUM,
         ((usedId - used_idx) % NUM) + 1 < NUM
  PROVE  (g - used_idx) % NUM = ((usedId - used_idx) % NUM) + 1
<1>1. NUM \in Nat \ {0}
  BY RingConstants
<1> QED
  BY <1>1, Farther, Zenon

(* ... and one more in the available ring one more to fetch.               *)
LEMMA AvailFarther ==
  ASSUME availIdx \in Int, fetchIdx \in Int, NEW g \in Int, g % UINT16 = (availIdx + 1) % UINT16,
         ((availIdx - fetchIdx) % UINT16) + 1 < UINT16
  PROVE  (g - fetchIdx) % UINT16 = ((availIdx - fetchIdx) % UINT16) + 1
<1>1. UINT16 \in Nat \ {0}
  BY RingConstants
<1> QED
  BY <1>1, Farther, Zenon

(* An entry put behind those of the available ring.                        *)
LEMMA AvailPushed ==
  ASSUME avail \in [Descs -> Descs], avail' \in [Descs -> Descs], fetchIdx \in Int,
         NEW n \in 0 .. NUM - 1, NEW x \in Descs,
         x \notin Slots(avail, fetchIdx, n), NoRepeats(avail, fetchIdx, n),
         NEW g \in Descs, g = (fetchIdx + n) % NUM, avail'[g] = x,
         \A l \in Descs : l # g => avail'[l] = avail[l]
  PROVE  /\ Slots(avail', fetchIdx, n + 1) = Slots(avail, fetchIdx, n) \cup {x}
         /\ NoRepeats(avail', fetchIdx, n + 1)
  BY Pushed

(* ... as virtio_disk_rw() puts it there.                                  *)
LEMMA AvailPut ==
  ASSUME avail \in [Descs -> Descs], fetchIdx \in Int,
         NEW n \in 0 .. NUM - 1, NEW x \in Descs,
         x \notin Slots(avail, fetchIdx, n), NoRepeats(avail, fetchIdx, n),
         avail' = [avail EXCEPT ![(fetchIdx + n) % NUM] = x]
  PROVE  /\ avail' \in [Descs -> Descs]
         /\ Slots(avail', fetchIdx, n + 1) = Slots(avail, fetchIdx, n) \cup {x}
         /\ NoRepeats(avail', fetchIdx, n + 1)
<1>1. NUM \in Nat \ {0} /\ fetchIdx + n \in Int
  BY RingConstants
<1>2. PICK g \in Descs : g = (fetchIdx + n) % NUM
  BY <1>1, DivMod, Zenon DEF Descs
<1>3. /\ avail' \in [Descs -> Descs] /\ avail'[g] = x
      /\ \A l \in Descs : l # g => avail'[l] = avail[l]
  BY <1>2, Zenon
<1> QED
  BY <1>2, <1>3, AvailPushed, Zenon

(* The device reports on a request: it moves to the used ring.             *)
LEMMA ReportRings ==
  ASSUME DiskInv, NEW i \in Descs, Reports(i)
  PROVE  /\ i \in Waiting /\ i \in InFlight /\ i \notin Unseen
         /\ used' \in [Descs -> Descs] /\ usedId' \in 0 .. UINT16 - 1
         /\ Waiting' = Waiting \ {i} /\ InFlight' = InFlight
         /\ failed' \subseteq failed \cup {i} => RingsInv'
<1>types. DiskTypeOK
  BY DiskParts, Zenon
<1>rings. RingsInv
  BY DiskParts, Zenon
<1>owners. OwnersInv
  BY DiskParts, Zenon
<1>1. i \in fetched /\ i \in Waiting /\ i \in InFlight /\ i \notin Unfetched /\ i \notin Unseen
  BY <1>rings, Zenon DEF Reports, Waiting, InFlight, RingsInv
<1>2. PICK c \in Submitted :
        /\ rq[c].head = i /\ rq[c].b \in Bufs /\ desc[i].b = rq[c].b
        /\ desc[i].write = rq[c].write /\ info[i] = rq[c].b
        /\ desc[i].next \in Descs /\ desc[i].next # i
        /\ \A o \in Submitted : rq[o].head = desc[i].next => FALSE
        /\ \A o \in Submitted \ {c} : rq[o].head # i /\ rq[o].b # rq[c].b
  BY <1>1, HeadOf
<1>3. PICK n \in 0 .. NUM - 1 :
        /\ n = (usedId - used_idx) % NUM /\ (used_idx + n) % NUM = usedId % NUM
        /\ Unseen = Slots(used, used_idx, n) /\ NoRepeats(used, used_idx, n)
  BY Indices, <1>rings, Zenon DEF RingsInv
<1>4. /\ usedId \in Int /\ used_idx \in Int /\ NUM \in Nat \ {0} /\ UINT16 \in Nat \ {0}
      /\ UINT16 % NUM = 0 /\ used \in [Descs -> Descs] /\ n \in Nat
      /\ usedId' = (usedId + 1) % UINT16
  BY RingConstants, <1>types DEF DiskTypeOK, Reports
<1>5. n + 2 <= NUM
  <2>1. desc[i].next \notin Unseen
    BY <1>2, <1>owners DEF OwnersInv, InFlight
  <2> QED
    BY <1>1, <1>2, <1>3, <1>4, <2>1, TwoMore, Zenon
<1>6. /\ used' \in [Descs -> Descs]
      /\ Slots(used', used_idx, n + 1) = Unseen \cup {i}
      /\ NoRepeats(used', used_idx, n + 1)
  <2>1. PICK g \in Int : g = usedId % NUM
    BY <1>4
  <2>2. used' = [used EXCEPT ![g] = i]
    BY <2>1, Zenon DEF Reports
  <2>3. g = (used_idx + n) % NUM /\ i \notin Slots(used, used_idx, n)
    BY <1>1, <1>3, <2>1, Zenon
  <2>4. used' \in [Descs -> Descs] /\ g \in Descs /\ used'[g] = i
    <3>1. g \in Descs
      BY <1>4, <2>1 DEF Descs
    <3> QED
      BY <1>4, <2>2, <3>1
  <2>5. \A k \in Descs : k # g => used'[k] = used[k]
    BY <1>4, <2>2, Zenon
  <2>6. Slots(used', used_idx, n + 1) = Slots(used, used_idx, n) \cup {i}
        /\ NoRepeats(used', used_idx, n + 1)
    BY <1>3, <1>4, <2>3, <2>4, <2>5, Pushed
  <2> QED
    BY <1>3, <2>4, <2>6, Zenon
<1>7. (usedId' - used_idx) % NUM = n + 1 /\ usedId' \in 0 .. UINT16 - 1
  <2>1. PICK g \in 0 .. UINT16 - 1 : usedId' = g
    BY <1>4
  <2>2. PICK y \in Int : y = usedId + 1
    BY <1>4
  <2>3. (y % UINT16) % NUM = y % NUM
    BY <1>4, ModMod, Zenon
  <2>4. g % NUM = (usedId + 1) % NUM
    BY <1>4, <2>1, <2>2, <2>3, Zenon
  <2>5. ((usedId - used_idx) % NUM) + 1 < NUM /\ g \in Int
    BY <1>3, <1>4, <1>5
  <2>6. (g - used_idx) % NUM = ((usedId - used_idx) % NUM) + 1
    BY <1>4, <2>4, <2>5, UsedFarther, Zenon
  <2> QED
    BY <1>3, <2>1, <2>6
<1>8. UNCHANGED <<free, desc, info, avail, availIdx, used_idx, fetchIdx, rq, jobs, missed>>
      /\ fetched' = fetched \ {i} /\ isr'
  BY Zenon DEF Reports
<1>9. /\ Unseen' = Unseen \cup {i}
      /\ NoRepeats(used, used_idx, (usedId - used_idx) % NUM)'
  <2>1. Unseen' = Slots(used', used_idx, (usedId' - used_idx) % NUM)
    BY <1>8, Zenon DEF Unseen, Slots
  <2>2. NoRepeats(used, used_idx, (usedId - used_idx) % NUM)'
        <=> NoRepeats(used', used_idx, (usedId' - used_idx) % NUM)
    BY <1>8, Zenon DEF NoRepeats
  <2> QED
    BY <1>6, <1>7, <2>1, <2>2, Zenon
<1>10. Unfetched' = Unfetched
  BY <1>8, Zenon DEF Unfetched
<1>11. Waiting' = Waiting \ {i} /\ InFlight' = InFlight
  BY <1>1, <1>8, <1>9, <1>10, Zenon DEF Waiting, InFlight
<1>12. ASSUME failed' \subseteq failed \cup {i} PROVE RingsInv'
  <2>1. NoRepeats(avail, fetchIdx, (availIdx - fetchIdx) % UINT16)'
    BY <1>8, <1>rings DEF RingsInv, NoRepeats
  <2>2. failed' \subseteq Unseen'
    BY <1>9, <1>12, <1>rings, Zenon DEF RingsInv
  <2> QED
    BY <1>8, <1>9, <1>10, <1>11, <2>1, <2>2, <1>rings, Zenon DEF RingsInv
<1> QED
  BY <1>1, <1>6, <1>7, <1>11, <1>12, Zenon

(* The device fails a request: nothing moves.                              *)
LEMMA FailInv ==
  ASSUME DiskInv, NEW i \in Descs, dev_fail(i)
  PROVE  DiskInv'
<1>types. DiskTypeOK
  BY DiskParts, Zenon
<1>served. WaitersServed
  BY DiskParts, Zenon
<1>1. Reports(i) /\ failed' = failed \cup {i} /\ buf' = buf /\ disk' = disk
  BY Zenon DEF dev_fail
<1>2. UNCHANGED <<free, desc, info, avail, availIdx, used_idx, fetchIdx, rq, jobs, missed>>
      /\ fetched' = fetched \ {i} /\ isr'
  BY <1>1, Zenon DEF Reports
<1>3. /\ i \in Waiting /\ used' \in [Descs -> Descs] /\ usedId' \in 0 .. UINT16 - 1
      /\ Waiting' = Waiting \ {i} /\ InFlight' = InFlight /\ RingsInv'
  BY <1>1, ReportRings, Zenon
<1>4. Undone' = Undone
  BY <1>1, <1>3, Zenon DEF Undone
<1>5. DiskTypeOK'
  BY <1>1, <1>2, <1>3, <1>types, Zenon DEF DiskTypeOK
<1>6. \A o \in Callers : Alike(rq[o], rq'[o])
  BY <1>2, Zenon DEF Alike
<1>7. ChainsInv' /\ OwnersInv' /\ DataInv'
  BY <1>1, <1>2, <1>3, <1>4, <1>6, SubmittedTypes, ChainsAlike, OwnersAlike, DataAlike, Zenon DEF DiskInv
<1>8. WaitersServed'
  BY <1>1, <1>2, <1>served, Zenon DEF WaitersServed
<1> QED
  BY <1>3, <1>5, <1>7, <1>8, Zenon DEF DiskInv

(* The device completes a request: the data moves once.                    *)
LEMMA CompleteInv ==
  ASSUME DiskInv, NEW i \in Descs, dev_complete(i)
  PROVE  DiskInv'
<1>types. DiskTypeOK
  BY DiskParts, Zenon
<1>rings. RingsInv
  BY DiskParts, Zenon
<1>data. DataInv
  BY DiskParts, Zenon
<1>served. WaitersServed
  BY DiskParts, Zenon
<1>8. UNCHANGED <<free, desc, info, avail, availIdx, used_idx, failed, fetchIdx, rq, jobs, missed>>
      /\ fetched' = fetched \ {i} /\ isr' /\ Reports(i)
  BY Zenon DEF dev_complete, Reports
<1>11. /\ i \in Waiting /\ i \in InFlight /\ i \notin Unseen
       /\ used' \in [Descs -> Descs] /\ usedId' \in 0 .. UINT16 - 1
       /\ Waiting' = Waiting \ {i} /\ InFlight' = InFlight /\ RingsInv'
  BY <1>8, ReportRings, Zenon
<1>10. Undone' = Undone \ {i} /\ i \in Undone
  BY <1>8, <1>11, <1>rings, Zenon DEF Undone, RingsInv
<1>2. PICK c \in Submitted :
        /\ rq[c].head = i /\ rq[c].b \in Bufs /\ desc[i].b = rq[c].b
        /\ desc[i].write = rq[c].write /\ info[i] = rq[c].b
        /\ desc[i].next \in Descs /\ desc[i].next # i
        /\ \A o \in Submitted : rq[o].head = desc[i].next => FALSE
        /\ \A o \in Submitted \ {c} : rq[o].head # i /\ rq[o].b # rq[c].b
  BY <1>11, HeadOf
<1>13. /\ buf' \in [Bufs -> BufRecs] /\ disk' \in [Bufs -> Values]
       /\ \A b \in Bufs : buf'[b].disk <=> buf[b].disk
       /\ \A b \in Bufs \ {rq[c].b} : buf'[b] = buf[b] /\ disk'[b] = disk[b]
       /\ Served(rq[c], buf'[rq[c].b].data, disk'[rq[c].b])
  <2>1. Pending(rq[c], buf[rq[c].b].data)
    BY <1>2, <1>10, <1>data, Zenon DEF DataInv
  <2>2. buf \in [Bufs -> BufRecs] /\ disk \in [Bufs -> Values]
    BY <1>types, Zenon DEF DiskTypeOK
  <2>3. CASE desc[i].write
    <3>1. buf' = buf /\ disk' = [disk EXCEPT ![rq[c].b] = buf[rq[c].b].data]
      BY <1>2, <2>3, Zenon DEF dev_complete
    <3>2. buf[rq[c].b].data \in Values
      BY <1>2, <2>2 DEF BufRecs
    <3> QED
      BY <1>2, <2>1, <2>2, <2>3, <3>1, <3>2, Zenon DEF Pending, Served
  <2>4. CASE ~desc[i].write
    <3>1. PICK r : r = [buf[rq[c].b] EXCEPT !.data = disk[rq[c].b]]
      BY Zenon
    <3>2. buf' = [buf EXCEPT ![rq[c].b] = r] /\ disk' = disk
      BY <1>2, <2>2, <2>4, <3>1 DEF dev_complete
    <3>3. r \in BufRecs /\ r.data = disk[rq[c].b] /\ (r.disk <=> buf[rq[c].b].disk)
      BY <1>2, <2>2, <3>1 DEF BufRecs
    <3>4. ~rq[c].write
      BY <1>2, <2>4, Zenon
    <3> QED
      BY <1>2, <2>2, <3>2, <3>3, <3>4 DEF Served
  <2> QED
    BY <2>3, <2>4, Zenon
<1>14. DiskTypeOK'
  BY <1>8, <1>11, <1>13, <1>types, Zenon DEF DiskTypeOK
<1>15. \A o \in Callers : Alike(rq[o], rq'[o])
  BY <1>8, Zenon DEF Alike
<1>16. ChainsInv' /\ OwnersInv'
  BY <1>8, <1>11, <1>13, <1>15, SubmittedTypes, ChainsAlike, OwnersAlike, Zenon DEF DiskInv
<1>17. DataInv'
  <2> SUFFICES ASSUME NEW o \in Submitted
               PROVE  IF rq[o].head \in Undone' THEN Pending(rq[o], buf'[rq[o].b].data)
                      ELSE Served(rq[o], buf'[rq[o].b].data, disk'[rq[o].b])
    BY <1>8, <1>15, SubmittedAlike, Zenon DEF DataInv
  <2>1. CASE o = c
    BY <1>2, <1>10, <1>13, <2>1, Zenon
  <2>2. CASE o # c
    <3>1. rq[o].head # i /\ rq[o].b # rq[c].b /\ rq[o].b \in Bufs
      BY <1>2, <2>2, SubmittedTypes
    <3> QED
      BY <1>10, <1>13, <3>1, <1>data, Zenon DEF DataInv
  <2> QED
    BY <2>1, <2>2, Zenon
<1>18. WaitersServed'
  <2>1. \A o \in Callers : rq[o].pc = "wait" => rq[o].b \in Bufs
    BY SubmittedTypes, Zenon DEF Submitted
  <2> QED
    BY <1>8, <1>13, <2>1, <1>served, Zenon DEF WaitersServed
<1> QED
  BY <1>11, <1>14, <1>16, <1>17, <1>18 DEF DiskInv

(* virtio_disk_intr() sees a completion: it wakes the owner of the buffer  *)
(* that info[] names, and nobody else loses a buffer.                      *)
LEMMA ElemInv ==
  ASSUME DiskInv, intr_elem
  PROVE  DiskInv'
<1>types. DiskTypeOK
  BY DiskParts, Zenon
<1>rings. RingsInv
  BY DiskParts, Zenon
<1>owners. OwnersInv
  BY DiskParts, Zenon
<1>served. WaitersServed
  BY DiskParts, Zenon
<1>1. PICK n \in Nat \ {0} :
        /\ n = (usedId - used_idx) % NUM
        /\ Unseen = Slots(used, used_idx, n) /\ NoRepeats(used, used_idx, n)
  BY Indices, <1>rings DEF RingsInv, intr_elem
<1>2. /\ usedId \in Int /\ used_idx \in Int /\ NUM \in Nat \ {0} /\ used_idx \in 0 .. NUM - 1
      /\ used \in [Descs -> Descs] /\ used_idx' = (used_idx + 1) % NUM
      /\ used_idx % NUM = used_idx
  BY RingConstants, ModSmall, <1>types DEF DiskTypeOK, intr_elem
<1>3. PICK x : x = used[used_idx]
  BY Zenon
<1>4. PICK g \in 0 .. NUM - 1 : used_idx' = g
  BY <1>2
<1>5. g \in Int /\ g % NUM = (used_idx + 1) % NUM
  BY <1>2, <1>4, ModSmall
<1>6. (usedId - g) % NUM = n - 1
  <2>1. /\ NUM \in Nat \ {0} /\ usedId \in Int /\ used_idx \in Int /\ g \in Int
        /\ g % NUM = (used_idx + 1) % NUM /\ (usedId - used_idx) % NUM # 0
    BY <1>1, <1>2, <1>5, Zenon
  <2>2. (usedId - g) % NUM = ((usedId - used_idx) % NUM) - 1
    BY <2>1, Nearer, Zenon
  <2> QED
    BY <1>1, <2>2, Zenon
<1>7. /\ x \in Slots(used, used_idx, n)
      /\ Slots(used, g, n - 1) = Slots(used, used_idx, n) \ {x}
      /\ NoRepeats(used, g, n - 1)
  <2>1. x = used[used_idx % NUM]
    BY <1>2, <1>3, Zenon
  <2>2. used \in [Descs -> Descs] /\ used_idx \in Int /\ NoRepeats(used, used_idx, n)
        /\ g \in Int /\ g % NUM = (used_idx + 1) % NUM
    BY <1>1, <1>2, <1>5, Zenon
  <2>3. n \in Nat \ {0}
    BY <1>1, <1>2, <1>5, Zenon
  <2> QED
    BY <2>1, <2>2, <2>3, Popped
<1>8. UNCHANGED <<free, desc, info, avail, availIdx, used, usedId, failed, fetched, fetchIdx, isr,
                  disk, jobs, missed>> /\ x \notin failed
  BY <1>3, Zenon DEF intr_elem
<1>9. /\ Unseen' = Unseen \ {x}
      /\ NoRepeats(used, used_idx, (usedId - used_idx) % NUM)'
  <2>1. Unseen' = Slots(used, g, (usedId - g) % NUM)
    BY <1>4, <1>8, Zenon DEF Unseen, Slots
  <2>2. NoRepeats(used, used_idx, (usedId - used_idx) % NUM)'
        <=> NoRepeats(used, g, (usedId - g) % NUM)
    BY <1>4, <1>8 DEF NoRepeats
  <2> QED
    BY <1>1, <1>6, <1>7, <2>1, <2>2, Zenon
<1>10. x \in Unseen /\ x \in InFlight /\ x \notin Waiting
  BY <1>1, <1>7, <1>rings, Zenon DEF InFlight, RingsInv
<1>11. Unfetched' = Unfetched
  BY <1>8, Zenon DEF Unfetched
<1>12. Waiting' = Waiting /\ InFlight' = InFlight \ {x} /\ Undone' = Undone
  BY <1>8, <1>9, <1>10, <1>11, Zenon DEF Waiting, InFlight, Undone
<1>13. RingsInv'
  <2>1. NoRepeats(avail, fetchIdx, (availIdx - fetchIdx) % UINT16)'
    BY <1>8, <1>rings DEF RingsInv, NoRepeats
  <2> QED
    BY <1>8, <1>9, <1>11, <1>12, <2>1, <1>rings DEF RingsInv
<1>14. PICK c \in Submitted :
        /\ rq[c].head = x /\ rq[c].b \in Bufs /\ info[x] = rq[c].b
        /\ \A o \in Submitted \ {c} : rq[o].head # x /\ rq[o].b # rq[c].b
  BY <1>10, HeadOf
<1>15. /\ buf' \in [Bufs -> BufRecs] /\ ~buf'[rq[c].b].disk
       /\ \A b \in Bufs : buf'[b].data = buf[b].data
       /\ \A b \in Bufs \ {rq[c].b} : buf'[b] = buf[b]
  <2>1. PICK r : r = [buf[rq[c].b] EXCEPT !.disk = FALSE]
    BY Zenon
  <2>2. buf \in [Bufs -> BufRecs] /\ buf[rq[c].b] \in BufRecs
    BY <1>14, <1>types, Zenon DEF DiskTypeOK
  <2>3. buf' = [buf EXCEPT ![rq[c].b] = r]
    BY <1>3, <1>14, <2>1, <2>2 DEF intr_elem
  <2>4. r \in BufRecs /\ r.data = buf[rq[c].b].data /\ ~r.disk
    BY <2>1, <2>2, Zenon DEF BufRecs
  <2> QED
    BY <1>14, <2>2, <2>3, <2>4, Zenon
<1>16. /\ rq' \in [Callers -> RqRecs]
       /\ \A o \in Callers : Alike(rq[o], rq'[o])
       /\ \A o \in Callers : rq'[o].pc = "nodesc" => rq[o].pc = "nodesc"
       /\ \A o \in Callers : rq'[o].pc = "wait" => rq[o].pc = "wait" /\ rq[o].b # rq[c].b
  <2>1. rq' = WakeBuf(rq, rq[c].b)
    BY <1>3, <1>14, Zenon DEF intr_elem
  <2>2. ASSUME NEW o \in Callers
        PROVE  /\ rq'[o] \in RqRecs /\ Alike(rq[o], rq'[o])
               /\ rq'[o].pc = "nodesc" => rq[o].pc = "nodesc"
               /\ rq'[o].pc = "wait" => rq[o].pc = "wait" /\ rq[o].b # rq[c].b
    <3>1. rq[o] \in RqRecs
      BY <1>types, Zenon DEF DiskTypeOK
    <3>2. CASE rq[o].pc = "wait" /\ rq[o].b = rq[c].b
      <4>1. rq'[o] = [rq[o] EXCEPT !.pc = "woken"]
        BY <2>1, <3>2, Zenon DEF WakeBuf
      <4> QED
        BY <3>1, <3>2, <4>1, Zenon DEF RqRecs, Alike, Live
    <3>3. CASE ~(rq[o].pc = "wait" /\ rq[o].b = rq[c].b)
      <4>1. rq'[o] = rq[o]
        BY <2>1, <3>3, Zenon DEF WakeBuf
      <4> QED
        BY <3>1, <3>3, <4>1 DEF Alike
    <3> QED
      BY <3>2, <3>3, Zenon
  <2>3. rq' = [o \in Callers |-> rq'[o]]
    BY <2>1, Zenon DEF WakeBuf
  <2> QED
    BY <2>2, <2>3, Zenon
<1>17. DiskTypeOK'
  BY <1>2, <1>4, <1>8, <1>15, <1>16, <1>types DEF DiskTypeOK
<1>18. ChainsInv' /\ DataInv'
  BY <1>8, <1>12, <1>15, <1>16, SubmittedTypes, ChainsAlike, DataAlike, Zenon DEF DiskInv
<1>19. OwnersInv'
  <2>1. Submitted' = Submitted /\ Submitted \subseteq Callers
    BY <1>16, SubmittedAlike, Zenon DEF Submitted
  <2>2. ASSUME NEW o \in Submitted PROVE buf'[rq[o].b].disk <=> rq[o].head \in InFlight'
    <3>1. CASE o = c
      BY <1>12, <1>14, <1>15, <3>1, Zenon
    <3>2. CASE o # c
      <4>1. rq[o].head # x /\ rq[o].b # rq[c].b /\ rq[o].b \in Bufs
        BY <1>14, <3>2, SubmittedTypes, Zenon
      <4> QED
        BY <1>12, <1>15, <4>1, <1>owners DEF OwnersInv
    <3> QED
      BY <3>1, <3>2, Zenon
  <2>3. \A i \in InFlight' : \E o \in Submitted : rq[o].head = i
    BY <1>12, <1>owners, Zenon DEF OwnersInv
  <2>4. \A o \in Submitted : rq'[o].b = rq[o].b /\ rq'[o].head = rq[o].head
    BY <1>16, <2>1, Zenon DEF Alike
  <2> QED
    BY <2>1, <2>2, <2>3, <2>4, Zenon DEF OwnersInv
<1>20. WaitersServed'
  <2>1. isr' \/ missed'
    BY <1>8, <1>served DEF WaitersServed, intr_elem
  <2>2. ASSUME NEW o \in Callers, rq'[o].pc = "wait" PROVE buf'[rq'[o].b].disk
    <3>1. rq[o].pc = "wait" /\ rq[o].b # rq[c].b /\ rq'[o].b = rq[o].b
      BY <1>16, <2>2, Zenon DEF Alike
    <3>2. rq[o].b \in Bufs /\ buf[rq[o].b].disk
      BY <3>1, SubmittedTypes, <1>served, Zenon DEF Submitted, WaitersServed
    <3> QED
      BY <1>15, <3>1, <3>2
  <2>3. \A o \in Callers : rq'[o].pc = "nodesc" => Cardinality(free') < 3
    BY <1>8, <1>16, <1>served, Zenon DEF WaitersServed
  <2> QED
    BY <2>1, <2>2, <2>3 DEF WaitersServed
<1> QED
  BY <1>13, <1>17, <1>18, <1>19, <1>20 DEF DiskInv

(* The chain that free_chain() walks.                                      *)
LEMMA ChainLinks ==
  ASSUME DiskInv, NEW c \in Submitted
  PROVE  /\ Chain(rq[c].head) = Links(desc, rq[c].head)
         /\ Links(desc, rq[c].head) \subseteq Descs
<1>1. Formed(desc, rq[c]) /\ rq[c].head \in Descs /\ desc \in [Descs -> DescRecs]
  BY SubmittedTypes, DiskParts, Zenon DEF ChainsInv, DiskTypeOK
<1>2. desc[rq[c].head].next \in Descs
  BY <1>1, Zenon DEF DescRecs
<1>3. desc[desc[rq[c].head].next].next \in Descs
  BY <1>1, <1>2, Zenon DEF DescRecs
<1> QED
  BY <1>1, <1>2, <1>3, Zenon DEF Formed, Chain, Links

(* virtio_disk_rw() looks again after a wakeup, and returns when its       *)
(* buffer is no longer the disk's.                                         *)
LEMMA ReturnInv ==
  ASSUME DiskInv, NEW c \in Callers, rw_return(c)
  PROVE  DiskInv'
<1>types. DiskTypeOK
  BY DiskParts, Zenon
<1>chains. ChainsInv
  BY DiskParts, Zenon
<1>rings. RingsInv
  BY DiskParts, Zenon
<1>owners. OwnersInv
  BY DiskParts, Zenon
<1>data. DataInv
  BY DiskParts, Zenon
<1>served. WaitersServed
  BY DiskParts, Zenon
<1>1. /\ rq \in [Callers -> RqRecs] /\ rq[c] \in RqRecs /\ rq[c].pc = "woken" /\ c \in Submitted
      /\ rq[c].b \in Bufs
  BY SubmittedTypes, <1>types DEF DiskTypeOK, rw_return, Submitted
<1>2. UNCHANGED <<desc, avail, availIdx, used, usedId, used_idx, failed, fetched, fetchIdx, isr,
                  buf, disk, jobs, missed>>
  BY Zenon DEF rw_return
<1>3. CASE ~Finished(rq[c].b)
  <2>1. PICK r : r = [rq[c] EXCEPT !.pc = "wait"]
    BY Zenon
  <2>2. r \in RqRecs /\ Alike(rq[c], r) /\ r.b = rq[c].b
    BY <1>1, <2>1, Zenon DEF RqRecs, Alike, Live
  <2>3. rq' = [rq EXCEPT ![c] = r] /\ UNCHANGED <<info, free>>
    BY <1>1, <1>3, <2>1, Zenon DEF rw_return
  <2>4. rq' \in [Callers -> RqRecs] /\ \A o \in Callers : Alike(rq[o], rq'[o])
    BY <1>1, <2>2, <2>3, Zenon DEF Alike
  <2>5. WaitersServed'
    <3>1. buf[rq[c].b].disk
      BY <1>3, Zenon DEF Finished
    <3>2. \A o \in Callers : o # c => rq'[o] = rq[o]
      BY <1>1, <2>3, Zenon
    <3>3. rq'[c] = r /\ r.pc = "wait"
      BY <1>1, <2>1, <2>3, Zenon DEF RqRecs
    <3>4. More' <=> More
      BY <1>2, Zenon DEF More
    <3> QED
      BY <1>2, <2>2, <2>3, <3>1, <3>2, <3>3, <3>4, <1>served DEF
             WaitersServed
  <2> QED
    BY <1>2, <2>3, <2>4, <2>5, QuietStep
<1>4. CASE Finished(rq[c].b)
  <2> DEFINE L == Links(desc, rq[c].head)
  <2>1. free' = free \cup L /\ L \subseteq Descs /\ info' = [info EXCEPT ![rq[c].head] = NoBuf]
    BY <1>1, <1>4, ChainLinks, Zenon DEF rw_return
  <2> HIDE DEF L
  <2>2. rq[c].head \notin InFlight
    BY <1>1, <1>4, <1>owners DEF OwnersInv, Finished
  <2>3. NoRq \in RqRecs /\ ~Live(NoRq) /\ NoRq.pc = "idle" /\ NoRq.b = NoBuf
    <3>1. 0 \in Descs
      BY RingConstants DEF Descs
    <3> QED
      BY <3>1, Zenon DEF NoRq, RqRecs, Live
  <2>4. /\ rq'[c] = NoRq /\ rq' = [o \in Callers |-> rq'[o]]
        /\ \A o \in Callers \ {c} : rq'[o] = IF rq[o].pc = "nodesc" THEN [rq[o] EXCEPT !.pc = "retry"]
                                             ELSE rq[o]
    BY <1>1, <1>4, Zenon DEF rw_return, WakeDescs
  <2>5. ASSUME NEW o \in Callers \ {c}
        PROVE  /\ rq'[o] \in RqRecs /\ Alike(rq[o], rq'[o]) /\ rq'[o].pc # "nodesc"
               /\ rq'[o].pc = "wait" => rq[o].pc = "wait"
    <3>1. rq[o] \in RqRecs
      BY <1>1, Zenon
    <3> QED
      BY <2>4, <3>1 DEF RqRecs, Alike, Live
  <2>6. rq' \in [Callers -> RqRecs]
    BY <2>3, <2>4, <2>5, Zenon
  <2>7. Submitted' = Submitted \ {c}
    BY <2>3, <2>4, <2>5 DEF Submitted, Alike, Live
  <2>8. Unfetched' = Unfetched /\ Unseen' = Unseen
    BY <1>2, Zenon DEF Unfetched, Unseen
  <2>9. Waiting' = Waiting /\ InFlight' = InFlight /\ Undone' = Undone
    BY <1>2, <2>8, Zenon DEF Waiting, InFlight, Undone
  <2>10. RingsInv'
    BY <1>2, <2>8, <2>9, <1>rings DEF RingsInv, NoRepeats
  <2>11. DiskTypeOK'
    BY <1>2, <2>1, <2>6, <1>types, Zenon DEF DiskTypeOK
  <2>12. ASSUME NEW o \in Submitted \ {c}
         PROVE  /\ rq'[o].b = rq[o].b /\ rq'[o].head = rq[o].head /\ rq'[o].write = rq[o].write
                /\ rq'[o].data = rq[o].data /\ rq[o].head \notin L /\ rq[o].head # rq[c].head
                /\ Links(desc, rq[o].head) \cap L = {} /\ Formed(desc, rq'[o]) /\ rq[o].head \in Descs
    <3>1. o \in Callers /\ rq[o].head \in Descs
      BY SubmittedTypes, Zenon
    <3>2. /\ rq'[o].b = rq[o].b /\ rq'[o].head = rq[o].head /\ rq'[o].write = rq[o].write
          /\ rq'[o].data = rq[o].data
      BY <2>5, <3>1, Zenon DEF Alike
    <3>3. Links(desc, rq[o].head) \cap L = {} /\ Formed(desc, rq[o])
      BY <1>1, <1>chains, Zenon DEF ChainsInv, L
    <3>4. Formed(desc, rq'[o])
      BY <3>2, <3>3, Zenon DEF Formed
    <3> QED
      BY <3>1, <3>2, <3>3, <3>4, Zenon DEF L, Links
  <2>13. ChainsInv'
    <3>1. \A o \in Callers : (rq'[o].pc = "idle" <=> rq'[o].b = NoBuf)
      BY <2>3, <2>4, <2>5, <1>chains DEF ChainsInv, Alike
    <3>7. \A o \in Callers : rq'[o].pc # "idle" => rq'[o].data \in Values
      BY <2>3, <2>4, <2>5, <1>chains, Zenon DEF ChainsInv, Alike
    <3>2. ASSUME NEW o \in Callers, NEW p \in Callers, rq'[o].b = rq'[p].b, rq'[o].b # NoBuf
          PROVE  o = p
      <4>1. CASE o # c /\ p # c
        <5>1. rq'[o].b = rq[o].b /\ rq'[p].b = rq[p].b
          BY <2>5, <4>1, Zenon DEF Alike
        <5> QED
          BY <3>2, <5>1, OneBuffer, Zenon
      <4>2. CASE o = c \/ p = c
        BY <2>3, <2>4, <3>2, <4>2
      <4> QED
        BY <4>1, <4>2, Zenon
    <3>3. \A o \in Submitted' : Formed(desc', rq'[o]) /\ Links(desc', rq'[o].head) \cap free' = {}
      BY <1>2, <2>1, <2>7, <2>12, <1>chains, Zenon DEF ChainsInv
    <3>4. ASSUME NEW o \in Submitted', NEW p \in Submitted', o # p
          PROVE  Links(desc', rq'[o].head) \cap Links(desc', rq'[p].head) = {}
      <4>1. Links(desc, rq[o].head) \cap Links(desc, rq[p].head) = {}
        BY <2>7, <3>4, ChainsApart, Zenon
      <4>2. rq'[o].head = rq[o].head /\ rq'[p].head = rq[p].head /\ desc' = desc
        BY <1>2, <2>7, <2>12, Zenon
      <4> QED
        BY <4>1, <4>2, Zenon
    <3>5. ASSUME NEW i \in Descs \ free' PROVE \E o \in Submitted' : i \in Links(desc', rq'[o].head)
      <4>1. PICK o \in Submitted : i \in Links(desc, rq[o].head)
        BY <2>1, <1>chains, Zenon DEF ChainsInv
      <4>2. o # c
        BY <2>1, <4>1, Zenon DEF L
      <4> QED
        BY <1>2, <2>7, <2>12, <4>1, <4>2, Zenon
    <3>6. \A o \in Submitted' : info'[rq'[o].head] = rq'[o].b
      <4> SUFFICES ASSUME NEW o \in Submitted \ {c} PROVE info'[rq'[o].head] = rq'[o].b
        BY <2>7, Zenon
      <4>1. info[rq[o].head] = rq[o].b
        BY <1>chains, Zenon DEF ChainsInv
      <4>2. info'[rq[o].head] = info[rq[o].head]
        BY <2>1, <2>12, <1>types, Zenon DEF DiskTypeOK
      <4> QED
        BY <2>12, <4>1, <4>2, Zenon
    <3> QED
      BY <3>1, <3>2, <3>3, <3>4, <3>5, <3>6, <3>7, Zenon DEF ChainsInv
  <2>14. OwnersInv'
    <3>1. \A o \in Submitted' : buf'[rq'[o].b].disk <=> rq'[o].head \in InFlight'
      BY <1>2, <2>7, <2>9, <2>12, <1>owners, Zenon DEF OwnersInv
    <3>2. ASSUME NEW i \in InFlight' PROVE \E o \in Submitted' : rq'[o].head = i
      <4>1. PICK o \in Submitted : rq[o].head = i
        BY <2>9, <1>owners, Zenon DEF OwnersInv
      <4>2. o # c
        BY <2>2, <2>9, <4>1, Zenon
      <4> QED
        BY <2>7, <2>12, <4>1, <4>2, Zenon
    <3> QED
      BY <3>1, <3>2, Zenon DEF OwnersInv
  <2>15. DataInv'
    <3>1. ASSUME NEW o \in Submitted \ {c}
          PROVE  IF rq'[o].head \in Undone' THEN Pending(rq'[o], buf'[rq'[o].b].data)
                 ELSE Served(rq'[o], buf'[rq'[o].b].data, disk'[rq'[o].b])
      <4>1. IF rq[o].head \in Undone THEN Pending(rq[o], buf[rq[o].b].data)
            ELSE Served(rq[o], buf[rq[o].b].data, disk[rq[o].b])
        BY <1>data, Zenon DEF DataInv
      <4> QED
        BY <1>2, <2>9, <2>12, <4>1, Zenon DEF Pending, Served
    <3> QED
      BY <2>7, <3>1, Zenon DEF DataInv
  <2>16. WaitersServed'
    <3>1. More' <=> More
      BY <1>2, Zenon DEF More
    <3>2. \A o \in Callers : rq'[o].pc # "nodesc"
      BY <2>3, <2>4, <2>5, Zenon
    <3>3. ASSUME NEW o \in Callers, rq'[o].pc = "wait" PROVE buf'[rq'[o].b].disk
      BY <1>2, <2>3, <2>4, <2>5, <3>3, <1>served, Zenon DEF WaitersServed, Alike
    <3> QED
      BY <1>2, <3>1, <3>2, <3>3, <1>served, Zenon DEF WaitersServed
  <2> QED
    BY <2>10, <2>11, <2>13, <2>14, <2>15, <2>16 DEF DiskInv
<1> QED
  BY <1>3, <1>4, Zenon

-----------------------------------------------------------------------------
(* alloc3_desc() fails only while fewer than three are free.               *)
LEMMA AllocThree ==
  ASSUME DiskInv
  PROVE  /\ IsFiniteSet(free) /\ Cardinality(free) \in Nat
         /\ Alloc3 = {} => Cardinality(free) < 3
<1>1. IsFiniteSet(free) /\ free \in SUBSET Nat
  <2>1. 0 \in Int /\ NUM - 1 \in Int /\ Descs \subseteq Nat
    BY RingConstants DEF Descs
  <2>2. IsFiniteSet(Descs)
    BY <2>1, FS_Interval, Zenon DEF Descs
  <2>3. free \in SUBSET Descs
    BY DiskParts, Zenon DEF DiskTypeOK
  <2> QED
    BY <2>1, <2>2, <2>3, FS_Subset, Zenon
<1>2. Cardinality(free) \in Nat
  BY <1>1, FS_CardinalityType, Zenon
<1>3. ASSUME Cardinality(free) >= 3 PROVE Alloc3 # {}
  <2>1. PICK i \in free : \A x \in free : i <= x
    <3>1. free # {}
      BY <1>1, <1>3, FS_EmptySet
    <3> QED
      BY <1>1, <3>1, Smallest, Zenon
  <2>2. PICK F : F = free \ {i}
    BY Zenon
  <2>3. IsFiniteSet(F) /\ Cardinality(F) >= 2 /\ F \in SUBSET Nat
    BY <1>1, <1>2, <1>3, <2>1, <2>2, FS_RemoveElement
  <2>4. PICK j \in F : \A x \in F : j <= x
    <3>1. F # {}
      BY <2>3, FS_EmptySet
    <3> QED
      BY <2>3, <3>1, Smallest, Zenon
  <2>5. PICK G : G = F \ {j}
    BY Zenon
  <2>6. IsFiniteSet(G) /\ Cardinality(G) >= 1 /\ G \in SUBSET Nat
    <3>1. Cardinality(F) \in Nat
      BY <2>3, FS_CardinalityType, Zenon
    <3> QED
      BY <2>3, <2>4, <2>5, <3>1, FS_RemoveElement
  <2>7. PICK k \in G : \A x \in G : k <= x
    <3>1. G # {}
      BY <2>6, FS_EmptySet
    <3> QED
      BY <2>6, <3>1, Smallest, Zenon
  <2>8. /\ i \in free /\ j \in free /\ k \in free /\ i < j /\ j < k
        /\ \A x \in free : x < k => x \in {i, j}
    BY <1>1, <2>1, <2>2, <2>4, <2>5, <2>7
  <2>9. PICK t : t = <<i, j, k>>
    BY Zenon
  <2>10. t \in free \X free \X free /\ t[1] = i /\ t[2] = j /\ t[3] = k
    BY <2>8, <2>9, Zenon
  <2>11. t \in Alloc3
    BY <2>8, <2>10, Zenon DEF Alloc3
  <2> QED
    BY <2>11, Zenon
<1> QED
  BY <1>1, <1>2, <1>3

(* What alloc3_desc() takes.                                               *)
LEMMA Allocated ==
  ASSUME DiskInv, NEW t \in Alloc3
  PROVE  /\ t[1] \in free /\ t[2] \in free /\ t[3] \in free
         /\ t[1] \in Descs /\ t[2] \in Descs /\ t[3] \in Descs
         /\ t[1] # t[2] /\ t[2] # t[3] /\ t[1] # t[3]
<1>1. /\ t \in free \X free \X free /\ t[1] < t[2] /\ t[2] < t[3]
      /\ free \subseteq Descs
  BY DiskParts, Zenon DEF Alloc3, DiskTypeOK
<1>2. t[1] \in free /\ t[2] \in free /\ t[3] \in free
  BY <1>1, Zenon
<1>3. Descs \subseteq Int
  BY RingConstants DEF Descs
<1>4. t[1] \in Int /\ t[2] \in Int /\ t[3] \in Int
  BY <1>1, <1>2, <1>3, Zenon
<1> QED
  BY <1>1, <1>2, <1>4

(* A request with descriptors: the chain is formed beside the others, and  *)
(* there is a place in the ring for it.                                    *)
LEMMA SubmitInv ==
  ASSUME DiskInv, NEW c \in Callers, ~Live(rq[c]),
         NEW b \in Bufs, NEW write \in BOOLEAN, NEW data \in Values, NEW t \in Alloc3,
         \A o \in Callers : o # c => rq[o].b # b,
         Submit(c, b, write, data, t),
         jobs' \in [Callers -> Seq(Jobs)],
         UNCHANGED <<used, usedId, used_idx, fetched, fetchIdx, isr, disk, missed>>
  PROVE  DiskInv'
<1>types. DiskTypeOK
  BY DiskParts, Zenon
<1>chains. ChainsInv
  BY DiskParts, Zenon
<1>rings. RingsInv
  BY DiskParts, Zenon
<1>owners. OwnersInv
  BY DiskParts, Zenon
<1>data. DataInv
  BY DiskParts, Zenon
<1>served. WaitersServed
  BY DiskParts, Zenon
<1>1. PICK i \in Descs, j \in Descs, k \in Descs :
        /\ i = t[1] /\ j = t[2] /\ k = t[3] /\ i # j /\ j # k /\ i # k
        /\ i \in free /\ j \in free /\ k \in free
  BY Allocated, Zenon
<1>2. PICK r : r = [pc |-> "wait", b |-> b, write |-> write, data |-> data, head |-> i]
  BY Zenon
<1>3. r \in RqRecs /\ r.pc = "wait" /\ Live(r) /\ r.b = b /\ r.write = write /\ r.data = data /\ r.head = i
  BY <1>2, Zenon DEF RqRecs, Live
<1>4. /\ rq \in [Callers -> RqRecs] /\ desc \in [Descs -> DescRecs] /\ buf \in [Bufs -> BufRecs]
      /\ info \in [Descs -> Bufs \cup {NoBuf}] /\ avail \in [Descs -> Descs]
      /\ free \subseteq Descs /\ b # NoBuf
  BY NoBufAssumption, <1>types, Zenon DEF DiskTypeOK
<1>5. /\ rq' = [rq EXCEPT ![c] = r] /\ free' = free \ {i, j, k} /\ info' = [info EXCEPT ![i] = b]
      /\ buf' = [buf EXCEPT ![b] = [data |-> data, disk |-> TRUE]]
  BY <1>1, <1>2 DEF Submit
<1>6. /\ desc' \in [Descs -> DescRecs]
      /\ desc'[i].next = j /\ desc'[i].more /\ desc'[i].b = b /\ desc'[i].write = write
      /\ desc'[j].next = k /\ desc'[j].more /\ ~desc'[k].more /\ desc'[k].next \in Descs
      /\ \A l \in Descs \ {i, j, k} : desc'[l] = desc[l]
  <2>1. PICK x, y, z : x = Desc(j, b, write) /\ y = Desc(k, b, write) /\ z = Unchained(b, write)
    BY Zenon
  <2>2. /\ x \in DescRecs /\ y \in DescRecs /\ z \in DescRecs
        /\ x.next = j /\ x.more /\ x.b = b /\ x.write = write
        /\ y.next = k /\ y.more /\ ~z.more /\ z.next \in Descs
    <3>1. 0 \in Descs
      BY RingConstants DEF Descs
    <3> QED
      BY <2>1, <3>1, Zenon DEF Desc, Unchained, DescRecs
  <2>3. desc' = [desc EXCEPT ![i] = x, ![j] = y, ![k] = z]
    BY <1>1, <2>1, Zenon DEF Submit
  <2>4. /\ desc' \in [Descs -> DescRecs] /\ desc'[i] = x /\ desc'[j] = y /\ desc'[k] = z
        /\ \A l \in Descs \ {i, j, k} : desc'[l] = desc[l]
    BY <1>1, <1>4, <2>2, <2>3, Zenon
  <2> QED
    BY <2>2, <2>4, Zenon
<1>7. Submitted' = Submitted \cup {c} /\ c \notin Submitted /\ rq'[c] = r
      /\ (\A o \in Callers : o # c => rq'[o] = rq[o]) /\ rq' \in [Callers -> RqRecs]
  BY <1>3, <1>4, <1>5 DEF Submitted, Live
<1>8. /\ buf' \in [Bufs -> BufRecs] /\ buf'[b].disk /\ buf'[b].data = data
      /\ \A x \in Bufs : x # b => buf'[x] = buf[x]
  <2>1. PICK x : x = [data |-> data, disk |-> TRUE]
    BY Zenon
  <2>2. x \in BufRecs /\ x.disk /\ x.data = data
    BY <2>1, Zenon DEF BufRecs
  <2> QED
    BY <1>4, <1>5, <2>1, <2>2
<1>9. ASSUME NEW o \in Submitted
      PROVE  /\ o \in Callers /\ o # c /\ rq'[o] = rq[o] /\ rq[o].b \in Bufs /\ rq[o].b # b
             /\ rq[o].head \in Descs /\ Formed(desc, rq[o])
             /\ Links(desc, rq[o].head) \cap free = {}
             /\ Links(desc', rq[o].head) = Links(desc, rq[o].head)
             /\ Formed(desc', rq[o])
  <2>1. o \in Callers /\ o # c /\ rq[o].b \in Bufs /\ rq[o].head \in Descs
    BY <1>7, SubmittedTypes, Zenon
  <2>2. rq'[o] = rq[o] /\ rq[o].b # b
    BY <1>7, <2>1, Zenon
  <2>3. Formed(desc, rq[o]) /\ Links(desc, rq[o].head) \cap free = {}
    BY <1>chains, Zenon DEF ChainsInv
  <2>4. Links(desc, rq[o].head) \subseteq Descs
    BY ChainLinks, Zenon
  <2>5. PICK x, y, z : x = rq[o].head /\ y = desc[x].next /\ z = desc[y].next
    BY Zenon
  <2>6. Links(desc, rq[o].head) = {x, y, z}
    BY <2>5, Zenon DEF Links
  <2>7. desc'[x] = desc[x] /\ desc'[y] = desc[y] /\ desc'[z] = desc[z]
    BY <1>1, <1>6, <2>3, <2>4, <2>6, Zenon
  <2>8. Links(desc', rq[o].head) = Links(desc, rq[o].head)
    BY <2>5, <2>7, Zenon DEF Links
  <2>9. Formed(desc', rq[o])
    BY <2>3, <2>5, <2>7, Zenon DEF Formed
  <2> QED
    BY <2>1, <2>2, <2>3, <2>8, <2>9, Zenon
<1>10. Links(desc', i) = {i, j, k} /\ Formed(desc', r)
  BY <1>1, <1>3, <1>6, Zenon DEF Links, Formed
<1>11. ChainsInv'
  <2>1. ASSUME NEW o \in Callers PROVE rq'[o].pc = "idle" <=> rq'[o].b = NoBuf
    <3>1. CASE o = c
      BY <1>3, <1>4, <1>7, <3>1, Zenon
    <3>2. CASE o # c
      BY <1>7, <3>2, Busy, Zenon
    <3> QED
      BY <3>1, <3>2, Zenon
  <2>2. ASSUME NEW o \in Callers, NEW p \in Callers, rq'[o].b = rq'[p].b, rq'[o].b # NoBuf
        PROVE  o = p
    <3>1. CASE o # c /\ p # c
      BY <1>7, <2>2, <3>1, OneBuffer, Zenon
    <3>2. CASE o = c \/ p = c
      BY <1>3, <1>7, <2>2, <3>2, Zenon
    <3> QED
      BY <3>1, <3>2, Zenon
  <2>3. \A o \in Submitted' : Formed(desc', rq'[o]) /\ Links(desc', rq'[o].head) \cap free' = {}
    <3>1. Formed(desc', rq'[c]) /\ Links(desc', rq'[c].head) \cap free' = {}
      BY <1>3, <1>5, <1>7, <1>10, Zenon
    <3>2. ASSUME NEW o \in Submitted
          PROVE  Formed(desc', rq'[o]) /\ Links(desc', rq'[o].head) \cap free' = {}
      BY <1>5, <1>9, Zenon
    <3> QED
      BY <1>7, <3>1, <3>2, Zenon
  <2>4. \A o, p \in Submitted' : o # p => Links(desc', rq'[o].head) \cap Links(desc', rq'[p].head) = {}
    <3>1. ASSUME NEW o \in Submitted, NEW p \in Submitted, o # p
          PROVE  Links(desc', rq'[o].head) \cap Links(desc', rq'[p].head) = {}
      <4>1. Links(desc, rq[o].head) \cap Links(desc, rq[p].head) = {}
        BY <3>1, ChainsApart, Zenon
      <4>2. /\ Links(desc', rq'[o].head) = Links(desc, rq[o].head)
            /\ Links(desc', rq'[p].head) = Links(desc, rq[p].head)
        BY <1>9, Zenon
      <4> QED
        BY <4>1, <4>2, Zenon
    <3>2. ASSUME NEW o \in Submitted
          PROVE  Links(desc', rq'[o].head) \cap Links(desc', rq'[c].head) = {}
      <4>1. Links(desc', rq'[o].head) \cap free = {}
        BY <1>9, Zenon
      <4>2. Links(desc', rq'[c].head) \subseteq free
        BY <1>1, <1>3, <1>7, <1>10, Zenon
      <4> QED
        BY <4>1, <4>2, Zenon
    <3> QED
      BY <1>7, <3>1, <3>2, Zenon
  <2>5. ASSUME NEW l \in Descs \ free' PROVE \E o \in Submitted' : l \in Links(desc', rq'[o].head)
    <3>1. CASE l \in {i, j, k}
      BY <1>3, <1>7, <1>10, <3>1, Zenon
    <3>2. CASE l \notin {i, j, k}
      <4>1. PICK o \in Submitted : l \in Links(desc, rq[o].head)
        BY <1>5, <3>2, <1>chains, Zenon DEF ChainsInv
      <4> QED
        BY <1>7, <1>9, <4>1
    <3> QED
      BY <3>1, <3>2, Zenon
  <2>6. \A o \in Submitted' : info'[rq'[o].head] = rq'[o].b
    <3>1. info'[r.head] = r.b
      BY <1>1, <1>3, <1>4, <1>5, Zenon
    <3>2. ASSUME NEW o \in Submitted PROVE info'[rq'[o].head] = rq'[o].b
      <4>1. rq[o].head # i
        BY <1>1, <1>9, Zenon DEF Links
      <4> QED
        BY <1>1, <1>4, <1>5, <1>9, <4>1, <1>chains, Zenon DEF ChainsInv
    <3> QED
      BY <1>7, <3>1, <3>2, Zenon
  <2>7. ASSUME NEW o \in Callers, rq'[o].pc # "idle" PROVE rq'[o].data \in Values
    <3>1. CASE o = c
      BY <1>3, <1>7, <3>1, Zenon
    <3>2. CASE o # c
      BY <1>7, <2>7, <3>2, Busy, Zenon
    <3> QED
      BY <3>1, <3>2, Zenon
  <2> QED
    BY <2>1, <2>2, <2>3, <2>4, <2>5, <2>6, <2>7, Zenon DEF ChainsInv
<1>12. i \notin InFlight /\ j \notin InFlight
  <2>1. \A x \in InFlight : \E o \in Submitted : x = rq[o].head
    BY <1>owners, Zenon DEF OwnersInv
  <2>2. \A o \in Submitted : rq[o].head \notin free
    BY <1>9, Zenon DEF Links
  <2> QED
    BY <1>1, <2>1, <2>2, Zenon
<1>13. PICK n \in Nat :
         /\ n = (availIdx - fetchIdx) % UINT16 /\ (fetchIdx + n) % NUM = availIdx % NUM
         /\ Unfetched = Slots(avail, fetchIdx, n) /\ NoRepeats(avail, fetchIdx, n)
  BY Indices, RingConstants, <1>rings DEF RingsInv
<1>14. /\ availIdx \in Int /\ fetchIdx \in Int /\ NUM \in Nat \ {0} /\ UINT16 \in Nat \ {0}
       /\ NUM <= UINT16 /\ availIdx' = (availIdx + 1) % UINT16
  BY RingConstants, <1>types DEF DiskTypeOK, Submit
<1>15. i \notin Slots(avail, fetchIdx, n) /\ j \notin Slots(avail, fetchIdx, n)
  BY <1>12, <1>13, Zenon DEF InFlight, Waiting
<1>16. n + 2 <= NUM
  BY <1>1, <1>4, <1>13, <1>14, <1>15, TwoMore
<1>17. /\ avail' \in [Descs -> Descs]
       /\ Slots(avail', fetchIdx, n + 1) = Unfetched \cup {i}
       /\ NoRepeats(avail', fetchIdx, n + 1)
  <2>1. PICK g \in Descs : g = availIdx % NUM
    <3>1. availIdx % NUM \in 0 .. NUM - 1
      BY <1>14, DivMod, Zenon
    <3> QED
      BY <3>1, Zenon DEF Descs
  <2>2. avail' = [avail EXCEPT ![g] = i]
    BY <1>1, <2>1, Zenon DEF Submit
  <2>3. g = (fetchIdx + n) % NUM /\ n \in 0 .. NUM - 1
    BY <1>13, <1>14, <1>16, <2>1
  <2>4. avail \in [Descs -> Descs] /\ fetchIdx \in Int /\ NoRepeats(avail, fetchIdx, n)
    BY <1>4, <1>13, <1>14, Zenon
  <2>5. /\ avail' \in [Descs -> Descs]
        /\ Slots(avail', fetchIdx, n + 1) = Slots(avail, fetchIdx, n) \cup {i}
        /\ NoRepeats(avail', fetchIdx, n + 1)
    BY <1>15, <2>2, <2>3, <2>4, AvailPut, Zenon
  <2> QED
    BY <1>13, <2>5, Zenon
<1>18. (availIdx' - fetchIdx) % UINT16 = n + 1 /\ availIdx' \in 0 .. UINT16 - 1
  <2>1. PICK g \in 0 .. UINT16 - 1 : availIdx' = g
    <3>1. availIdx + 1 \in Int
      BY <1>14
    <3>2. (availIdx + 1) % UINT16 \in 0 .. UINT16 - 1
      BY <1>14, <3>1, DivMod, Zenon
    <3> QED
      BY <1>14, <3>2, Zenon
  <2>2. g % UINT16 = (availIdx + 1) % UINT16
    BY <1>14, <2>1, ModSmall, Zenon
  <2>3. /\ UINT16 \in Nat \ {0} /\ availIdx \in Int /\ fetchIdx \in Int /\ g \in Int
        /\ g % UINT16 = (availIdx + 1) % UINT16 /\ ((availIdx - fetchIdx) % UINT16) + 1 < UINT16
    BY <1>13, <1>14, <1>16, <2>2
  <2>4. (g - fetchIdx) % UINT16 = ((availIdx - fetchIdx) % UINT16) + 1
    BY <2>3, AvailFarther, Zenon
  <2> QED
    BY <1>13, <2>1, <2>4, Zenon
<1>19. /\ Unfetched' = Unfetched \cup {i}
       /\ NoRepeats(avail, fetchIdx, (availIdx - fetchIdx) % UINT16)'
  <2>1. Unfetched' = Slots(avail', fetchIdx, (availIdx' - fetchIdx) % UINT16)
    BY Zenon DEF Unfetched, Slots
  <2>2. NoRepeats(avail, fetchIdx, (availIdx - fetchIdx) % UINT16)'
        <=> NoRepeats(avail', fetchIdx, (availIdx' - fetchIdx) % UINT16)
    BY Zenon DEF NoRepeats
  <2> QED
    BY <1>17, <1>18, <2>1, <2>2, Zenon
<1>20. Unseen' = Unseen
  BY Zenon DEF Unseen
<1>21. /\ Waiting' = Waiting \cup {i} /\ InFlight' = InFlight \cup {i}
       /\ failed' = failed /\ Undone' = Undone \cup {i}
  <2>1. Waiting' = Waiting \cup {i} /\ InFlight' = InFlight \cup {i}
    BY <1>19, <1>20, Zenon DEF Waiting, InFlight
  <2>2. failed' = failed
    BY <1>1, <1>12, <1>rings, Zenon DEF Submit, RingsInv, InFlight
  <2> QED
    BY <2>1, <2>2, Zenon DEF Undone
<1>22. RingsInv'
  <2>1. NoRepeats(used, used_idx, (usedId - used_idx) % NUM)'
    BY <1>rings DEF RingsInv, NoRepeats
  <2>2. i \notin fetched /\ i \notin Unseen
    BY <1>12, Zenon DEF InFlight, Waiting
  <2> QED
    BY <1>19, <1>20, <1>21, <2>1, <2>2, <1>rings DEF RingsInv
<1>23. ASSUME NEW o \in Submitted PROVE rq[o].head # i
  BY <1>1, <1>9, Zenon DEF Links
<1>24. OwnersInv'
  <2>1. ASSUME NEW o \in Submitted PROVE buf'[rq'[o].b].disk <=> rq'[o].head \in InFlight'
    <3>1. buf[rq[o].b].disk <=> rq[o].head \in InFlight
      BY <1>owners, Zenon DEF OwnersInv
    <3> QED
      BY <1>8, <1>9, <1>21, <1>23, <3>1, Zenon
  <2>2. buf'[rq'[c].b].disk /\ rq'[c].head \in InFlight'
    BY <1>3, <1>7, <1>8, <1>21, Zenon
  <2>3. ASSUME NEW x \in InFlight' PROVE \E o \in Submitted' : rq'[o].head = x
    <3>1. CASE x = i
      BY <1>3, <1>7, <3>1, Zenon
    <3>2. CASE x \in InFlight
      <4>1. PICK o \in Submitted : rq[o].head = x
        BY <3>2, <1>owners, Zenon DEF OwnersInv
      <4> QED
        BY <1>7, <1>9, <4>1, Zenon
    <3> QED
      BY <1>21, <3>1, <3>2, Zenon
  <2> QED
    BY <1>7, <2>1, <2>2, <2>3, Zenon DEF OwnersInv
<1>25. DataInv'
  <2>1. ASSUME NEW o \in Submitted
        PROVE  IF rq'[o].head \in Undone' THEN Pending(rq'[o], buf'[rq'[o].b].data)
               ELSE Served(rq'[o], buf'[rq'[o].b].data, disk'[rq'[o].b])
    BY <1>8, <1>9, <1>21, <1>23, <1>data, Zenon DEF DataInv
  <2>2. rq'[c].head \in Undone' /\ Pending(rq'[c], buf'[rq'[c].b].data)
    BY <1>3, <1>7, <1>8, <1>21, Zenon DEF Pending
  <2> QED
    BY <1>7, <2>1, <2>2, Zenon DEF DataInv
<1>26. DiskTypeOK'
  BY <1>4, <1>5, <1>6, <1>7, <1>8, <1>17, <1>18, <1>21, <1>types, Zenon DEF
         DiskTypeOK
<1>27. WaitersServed'
  <2>1. More' <=> More
    BY Zenon DEF More
  <2>2. ASSUME NEW o \in Callers, rq'[o].pc = "nodesc" PROVE Cardinality(free') < 3
    <3>1. o # c
      BY <1>3, <1>7, <2>2, Zenon
    <3>2. Cardinality(free) < 3
      BY <1>7, <2>2, <3>1, <1>served, Zenon DEF WaitersServed
    <3>3. IsFiniteSet(free) /\ Cardinality(free) \in Nat /\ free' \in SUBSET free
      BY <1>5, AllocThree, Zenon
    <3>4. IsFiniteSet(free') /\ Cardinality(free') <= Cardinality(free)
      BY <3>3, FS_Subset, Zenon
    <3>5. Cardinality(free') \in Nat
      BY <3>4, FS_CardinalityType, Zenon
    <3> QED
      BY <3>2, <3>3, <3>4, <3>5
  <2>3. ASSUME NEW o \in Callers, rq'[o].pc = "wait" PROVE buf'[rq'[o].b].disk
    <3>1. CASE o = c
      BY <1>3, <1>7, <1>8, <3>1, Zenon
    <3>2. CASE o # c
      <4>1. o \in Submitted
        BY <1>7, <2>3, <3>2, Zenon DEF Submitted
      <4>2. rq[o].pc = "wait" => buf[rq[o].b].disk
        BY <1>served, Zenon DEF WaitersServed
      <4> QED
        BY <1>7, <1>8, <1>9, <2>3, <3>2, <4>1, <4>2, Zenon
    <3> QED
      BY <3>1, <3>2, Zenon
  <2> QED
    BY <2>1, <2>2, <2>3, <1>served, Zenon DEF WaitersServed
<1> QED
  BY <1>11, <1>22, <1>24, <1>25, <1>26, <1>27 DEF DiskInv

(* A request without descriptors: the caller sleeps for them.              *)
LEMMA StarveInv ==
  ASSUME DiskInv, NEW c \in Callers, ~Live(rq[c]),
         NEW b \in Bufs, NEW write \in BOOLEAN, NEW data \in Values, Alloc3 = {},
         \A o \in Callers : o # c => rq[o].b # b,
         Starve(c, b, write, data),
         jobs' \in [Callers -> Seq(Jobs)],
         UNCHANGED <<used, usedId, used_idx, fetched, fetchIdx, isr, disk, missed>>
  PROVE  DiskInv'
<1>types. DiskTypeOK
  BY DiskParts, Zenon
<1>chains. ChainsInv
  BY DiskParts, Zenon
<1>rings. RingsInv
  BY DiskParts, Zenon
<1>owners. OwnersInv
  BY DiskParts, Zenon
<1>data. DataInv
  BY DiskParts, Zenon
<1>served. WaitersServed
  BY DiskParts, Zenon
<1>1. PICK r : r = [pc |-> "nodesc", b |-> b, write |-> write, data |-> data, head |-> 0]
  BY Zenon
<1>2. r \in RqRecs /\ r.pc = "nodesc" /\ ~Live(r) /\ r.b = b /\ r.data = data
  <2>1. 0 \in Descs
    BY RingConstants DEF Descs
  <2> QED
    BY <1>1, <2>1, Zenon DEF RqRecs, Live
<1>3. /\ rq \in [Callers -> RqRecs] /\ buf \in [Bufs -> BufRecs] /\ b # NoBuf
      /\ UNCHANGED <<free, desc, info, failed, avail, availIdx>>
  BY NoBufAssumption, <1>types, Zenon DEF DiskTypeOK, Starve
<1>4. /\ rq'[c] = r /\ rq' = [o \in Callers |-> rq'[o]]
      /\ \A o \in Callers \ {c} :
           \/ rq'[o] = rq[o]
           \/ rq[o].pc = "nodesc" /\ rq'[o] = [rq[o] EXCEPT !.pc = "retry"]
  <2>1. PICK q : q = IF free = {} THEN rq ELSE WakeDescs(rq)
    BY Zenon
  <2>2. rq' = [q EXCEPT ![c] = r]
    BY <1>1, <2>1, Zenon DEF Starve
  <2>3. /\ q = [o \in Callers |-> q[o]]
        /\ \A o \in Callers :
             \/ q[o] = rq[o]
             \/ rq[o].pc = "nodesc" /\ q[o] = [rq[o] EXCEPT !.pc = "retry"]
    <3>1. CASE free = {}
      BY <1>3, <2>1, <3>1, Zenon
    <3>2. CASE free # {}
      BY <2>1, <3>2, Zenon DEF WakeDescs
    <3> QED
      BY <3>1, <3>2, Zenon
  <2> QED
    BY <2>2, <2>3, Zenon
<1>5. ASSUME NEW o \in Callers \ {c}
      PROVE  /\ rq'[o] \in RqRecs /\ Alike(rq[o], rq'[o])
             /\ rq'[o].pc = "wait" => rq[o].pc = "wait"
  <2>1. rq[o] \in RqRecs
    BY <1>3, Zenon
  <2>2. CASE rq'[o] = rq[o]
    BY <2>1, <2>2, Zenon DEF Alike
  <2>3. CASE rq[o].pc = "nodesc" /\ rq'[o] = [rq[o] EXCEPT !.pc = "retry"]
    BY <2>1, <2>3, Zenon DEF RqRecs, Alike, Live
  <2> QED
    BY <1>4, <2>2, <2>3, Zenon
<1>6. rq' \in [Callers -> RqRecs]
  BY <1>2, <1>4, <1>5, Zenon
<1>7. Submitted' = Submitted /\ c \notin Submitted
  BY <1>2, <1>4, <1>5, Zenon DEF Submitted, Alike, Live
<1>8. /\ buf' \in [Bufs -> BufRecs]
      /\ \A x \in Bufs : x # b => buf'[x] = buf[x]
  <2>1. PICK x : x = [buf[b] EXCEPT !.data = data]
    BY Zenon
  <2>2. x \in BufRecs
    BY <1>3, <2>1, Zenon DEF BufRecs
  <2>3. buf' = [buf EXCEPT ![b] = x]
    BY <1>3, <2>1, Zenon DEF Starve
  <2> QED
    BY <1>3, <2>2, <2>3, Zenon
<1>9. ASSUME NEW o \in Submitted
      PROVE  /\ o \in Callers \ {c} /\ rq[o].b \in Bufs /\ rq[o].b # b
             /\ rq'[o].b = rq[o].b /\ rq'[o].head = rq[o].head /\ rq'[o].write = rq[o].write
             /\ rq'[o].data = rq[o].data
  <2>1. o \in Callers \ {c} /\ rq[o].b \in Bufs
    BY <1>7, SubmittedTypes, Zenon
  <2> QED
    BY <1>5, <2>1, Zenon DEF Alike
<1>10. ChainsInv'
  <2>1. ASSUME NEW o \in Callers PROVE rq'[o].pc = "idle" <=> rq'[o].b = NoBuf
    <3>1. CASE o = c
      BY <1>2, <1>3, <1>4, <3>1, Zenon
    <3>2. CASE o # c
      BY <1>5, <3>2, Busy, Zenon DEF Alike
    <3> QED
      BY <3>1, <3>2, Zenon
  <2>2. ASSUME NEW o \in Callers, NEW p \in Callers, rq'[o].b = rq'[p].b, rq'[o].b # NoBuf
        PROVE  o = p
    <3>1. CASE o # c /\ p # c
      <4>1. rq'[o].b = rq[o].b /\ rq'[p].b = rq[p].b
        BY <1>5, <3>1, Zenon DEF Alike
      <4> QED
        BY <2>2, <4>1, OneBuffer, Zenon
    <3>2. CASE o = c \/ p = c
      BY <1>2, <1>4, <1>5, <2>2, <3>2 DEF Alike
    <3> QED
      BY <3>1, <3>2, Zenon
  <2>3. \A o \in Submitted : Formed(desc, rq'[o]) <=> Formed(desc, rq[o])
    BY <1>9, Zenon DEF Formed
  <2>4. \A o \in Callers : rq'[o].pc # "idle" => rq'[o].data \in Values
    BY <1>2, <1>4, <1>5, <1>chains, Zenon DEF ChainsInv, Alike
  <2>5. ASSUME NEW o \in Submitted
        PROVE  /\ Formed(desc', rq'[o]) /\ Links(desc', rq'[o].head) \cap free' = {}
               /\ info'[rq'[o].head] = rq'[o].b
    <3>1. Formed(desc, rq[o]) /\ Links(desc, rq[o].head) \cap free = {} /\ info[rq[o].head] = rq[o].b
      BY <1>chains, Zenon DEF ChainsInv
    <3> QED
      BY <1>3, <1>9, <2>3, <3>1, Zenon
  <2>6. ASSUME NEW o \in Submitted, NEW p \in Submitted, o # p
        PROVE  Links(desc', rq'[o].head) \cap Links(desc', rq'[p].head) = {}
    <3>1. Links(desc, rq[o].head) \cap Links(desc, rq[p].head) = {}
      BY <2>6, ChainsApart, Zenon
    <3>2. rq'[o].head = rq[o].head /\ rq'[p].head = rq[p].head /\ desc' = desc
      BY <1>3, <1>9, Zenon
    <3> QED
      BY <3>1, <3>2, Zenon
  <2>7. ASSUME NEW l \in Descs \ free' PROVE \E o \in Submitted : l \in Links(desc', rq'[o].head)
    <3>1. PICK o \in Submitted : l \in Links(desc, rq[o].head)
      BY <1>3, <1>chains, Zenon DEF ChainsInv
    <3> QED
      BY <1>3, <1>9, <3>1, Zenon
  <2> QED
    BY <1>7, <2>1, <2>2, <2>4, <2>5, <2>6, <2>7, Zenon DEF ChainsInv
<1>11. Unfetched' = Unfetched /\ Unseen' = Unseen
  BY <1>3, Zenon DEF Unfetched, Unseen
<1>12. Waiting' = Waiting /\ InFlight' = InFlight /\ Undone' = Undone
  BY <1>3, <1>11, Zenon DEF Waiting, InFlight, Undone
<1>13. RingsInv'
  BY <1>3, <1>11, <1>12, <1>rings DEF RingsInv, NoRepeats
<1>14. OwnersInv'
  <2>1. ASSUME NEW o \in Submitted PROVE buf'[rq'[o].b].disk <=> rq'[o].head \in InFlight'
    <3>1. buf[rq[o].b].disk <=> rq[o].head \in InFlight
      BY <1>owners, Zenon DEF OwnersInv
    <3> QED
      BY <1>8, <1>9, <1>12, <3>1, Zenon
  <2>2. ASSUME NEW x \in InFlight' PROVE \E o \in Submitted : rq'[o].head = x
    <3>1. PICK o \in Submitted : rq[o].head = x
      BY <1>12, <1>owners, Zenon DEF OwnersInv
    <3> QED
      BY <1>9, <3>1, Zenon
  <2> QED
    BY <1>7, <2>1, <2>2, Zenon DEF OwnersInv
<1>15. DataInv'
  <2>1. ASSUME NEW o \in Submitted
        PROVE  IF rq'[o].head \in Undone' THEN Pending(rq'[o], buf'[rq'[o].b].data)
               ELSE Served(rq'[o], buf'[rq'[o].b].data, disk'[rq'[o].b])
    <3>1. IF rq[o].head \in Undone THEN Pending(rq[o], buf[rq[o].b].data)
          ELSE Served(rq[o], buf[rq[o].b].data, disk[rq[o].b])
      BY <1>data, Zenon DEF DataInv
    <3>2. buf'[rq[o].b] = buf[rq[o].b] /\ disk' = disk
      BY <1>8, <1>9, Zenon
    <3> QED
      BY <1>9, <1>12, <3>1, <3>2, Zenon DEF Pending, Served
  <2> QED
    BY <1>7, <2>1, Zenon DEF DataInv
<1>16. DiskTypeOK'
  BY <1>3, <1>6, <1>8, <1>types, Zenon DEF DiskTypeOK
<1>17. WaitersServed'
  <2>1. More' <=> More
    BY Zenon DEF More
  <2>2. Cardinality(free') < 3
    BY <1>3, AllocThree, Zenon
  <2>3. ASSUME NEW o \in Callers, rq'[o].pc = "wait" PROVE buf'[rq'[o].b].disk
    <3>1. o # c
      BY <1>2, <1>4, <2>3, Zenon
    <3>2. rq[o].pc = "wait" /\ o \in Submitted
      BY <1>5, <2>3, <3>1, Zenon DEF Submitted
    <3>3. buf[rq[o].b].disk
      BY <3>2, <1>served, Zenon DEF WaitersServed
    <3> QED
      BY <1>5, <1>8, <1>9, <3>1, <3>2, <3>3, Zenon
  <2> QED
    BY <2>1, <2>2, <2>3, <1>served, Zenon DEF WaitersServed
<1> QED
  BY <1>10, <1>13, <1>14, <1>15, <1>16, <1>17, Zenon DEF DiskInv

(* virtio_disk_rw(), the first time and when descriptors were freed.       *)
LEMMA RequestInv ==
  ASSUME DiskInv, NEW c \in Callers, ~Live(rq[c]),
         NEW b \in Bufs, NEW write \in BOOLEAN, NEW data \in Values,
         \A o \in Callers : o # c => rq[o].b # b,
         Request(c, b, write, data),
         jobs' \in [Callers -> Seq(Jobs)]
  PROVE  DiskInv'
<1>1. UNCHANGED <<used, usedId, used_idx, fetched, fetchIdx, isr, disk, missed>>
  BY Zenon DEF Request
<1>2. CASE \E t \in Alloc3 : Submit(c, b, write, data, t)
  BY <1>1, <1>2, SubmitInv
<1>3. CASE Alloc3 = {} /\ Starve(c, b, write, data)
  BY <1>1, <1>3, StarveInv
<1> QED
  BY <1>2, <1>3, Zenon DEF Request

(* virtio_disk_rw(): a first attempt to allocate a chain.                  *)
LEMMA RwInv ==
  ASSUME DiskInv, NEW c \in Callers, virtio_disk_rw(c)
  PROVE  DiskInv'
<1>1. jobs \in [Callers -> Seq(Jobs)] /\ jobs[c] \in Seq(Jobs) /\ jobs[c] # <<>>
  BY DiskParts, Zenon DEF DiskTypeOK, virtio_disk_rw
<1>2. PICK j \in Jobs : j = Head(jobs[c])
  BY <1>1
<1>3. j.b \in Bufs /\ j.write \in BOOLEAN /\ j.data \in Values
  BY Zenon DEF Jobs
<1>4. jobs' \in [Callers -> Seq(Jobs)]
  <2>1. Tail(jobs[c]) \in Seq(Jobs)
    BY <1>1
  <2>2. jobs' = [jobs EXCEPT ![c] = Tail(jobs[c])]
    BY Zenon DEF virtio_disk_rw
  <2> QED
    BY <1>1, <2>1, <2>2, Zenon
<1>5. (\A o \in Callers : rq[o].b # j.b) /\ Request(c, j.b, j.write, j.data) /\ ~Live(rq[c])
  BY <1>2, Zenon DEF virtio_disk_rw, Live
<1>6. PICK b, w, d : b = j.b /\ w = j.write /\ d = j.data
  BY Zenon
<1>7. /\ b \in Bufs /\ w \in BOOLEAN /\ d \in Values /\ Request(c, b, w, d) /\ ~Live(rq[c])
      /\ \A o \in Callers : o # c => rq[o].b # b
  BY <1>3, <1>5, <1>6, Zenon
<1> QED
  BY <1>4, <1>7, RequestInv, Zenon

(* The next attempt, after a sleep on &disk.free.                          *)
LEMMA RetryInv ==
  ASSUME DiskInv, NEW c \in Callers, retry(c)
  PROVE  DiskInv'
<1>types. DiskTypeOK
  BY DiskParts, Zenon
<1>chains. ChainsInv
  BY DiskParts, Zenon
<1>1. rq[c] \in RqRecs /\ rq[c].pc = "retry" /\ jobs' = jobs
  BY <1>types, Zenon DEF DiskTypeOK, retry
<1>2. rq[c].b \in Bufs /\ rq[c].b # NoBuf
  BY <1>1, NoBufAssumption, <1>chains, Zenon DEF ChainsInv, RqRecs
<1>3. rq[c].write \in BOOLEAN /\ rq[c].data \in Values
  BY <1>1, <1>chains, Zenon DEF ChainsInv, RqRecs
<1>4. jobs' \in [Callers -> Seq(Jobs)] /\ ~Live(rq[c])
  BY <1>1, <1>types DEF DiskTypeOK, Live
<1>5. \A o \in Callers : o # c => rq[o].b # rq[c].b
  BY <1>2, <1>chains, Zenon DEF ChainsInv
<1>6. Request(c, rq[c].b, rq[c].write, rq[c].data)
  BY Zenon DEF retry
<1>7. PICK b, w, d : b = rq[c].b /\ w = rq[c].write /\ d = rq[c].data
  BY Zenon
<1>8. /\ b \in Bufs /\ w \in BOOLEAN /\ d \in Values /\ Request(c, b, w, d)
      /\ \A o \in Callers : o # c => rq[o].b # b
  BY <1>2, <1>3, <1>5, <1>6, <1>7, Zenon
<1> QED
  BY <1>4, <1>8, RequestInv, Zenon

-----------------------------------------------------------------------------
(* virtio_disk_init().                                                     *)
LEMMA InitInv ==
  ASSUME NEW calls \in [Callers -> Seq(Jobs)], DiskInit(calls)
  PROVE  DiskInv
<1>1. NUM \in Nat \ {0} /\ UINT16 \in Nat \ {0} /\ 0 \in Descs /\ 0 \in 0 .. UINT16 - 1 /\ 0 \in 0 .. NUM - 1
  BY RingConstants DEF Descs
<1>2. PICK v \in Values : disk = [b \in Bufs |-> v] /\ buf = [b \in Bufs |-> [data |-> v, disk |-> FALSE]]
  BY Zenon DEF DiskInit
<1>3. DiskTypeOK
  <2>1. Unchained(NoBuf, FALSE) \in DescRecs /\ NoRq \in RqRecs /\ [data |-> v, disk |-> FALSE] \in BufRecs
    BY <1>1, Zenon DEF Unchained, DescRecs, NoRq, RqRecs, BufRecs
  <2> QED
    BY <1>1, <1>2, <2>1, Zenon DEF DiskInit, DiskTypeOK
<1>4. Submitted = {} /\ \A c \in Callers : rq[c].pc = "idle" /\ rq[c].b = NoBuf
  BY Zenon DEF Submitted, DiskInit, NoRq
<1>5. (0 - 0) % UINT16 = 0 /\ (0 - 0) % NUM = 0
  BY <1>1, ModSmall
<1>6. Unfetched = {} /\ Unseen = {} /\ Waiting = {} /\ InFlight = {}
  <2>1. Unfetched = {} /\ Unseen = {}
    BY <1>5 DEF DiskInit, Unfetched, Unseen
  <2> QED
    BY <2>1, Zenon DEF DiskInit, Waiting, InFlight
<1>7. ChainsInv
  BY <1>4, Zenon DEF ChainsInv, DiskInit
<1>8. RingsInv
  BY <1>5, <1>6 DEF RingsInv, NoRepeats, DiskInit
<1>9. OwnersInv /\ DataInv
  BY <1>4, <1>6, Zenon DEF OwnersInv, DataInv
<1>10. WaitersServed
  BY <1>4, Zenon DEF WaitersServed, More, DiskInit
<1> QED
  BY <1>3, <1>7, <1>8, <1>9, <1>10 DEF DiskInv

(* Every step of the driver and of the device keeps DiskInv.               *)
LEMMA DiskStep ==
  ASSUME DiskInv, [DiskNext]_diskVars
  PROVE  DiskInv'
<1>types. DiskTypeOK
  BY DiskParts, Zenon
<1>served. WaitersServed
  BY DiskParts, Zenon
<1>1. CASE \E c \in Callers : virtio_disk_rw(c) \/ retry(c) \/ rw_return(c) \/ disk_kill(c)
  BY <1>1, RwInv, RetryInv, ReturnInv, KillInv, Zenon
<1>2. CASE virtio_disk_intr
  BY <1>2, IntrInv, ElemInv, Zenon DEF virtio_disk_intr
<1>3. CASE dev_fetch
  BY <1>3, FetchInv, Zenon
<1>4. CASE \E i \in Descs : dev_complete(i) \/ dev_fail(i)
  BY <1>4, CompleteInv, FailInv, Zenon
<1>5. CASE UNCHANGED diskVars
  <2>1. UNCHANGED <<free, desc, info, avail, availIdx, used, usedId, used_idx, failed, fetched,
                    fetchIdx, buf, disk, rq, jobs, isr, missed>>
    BY <1>5, Zenon DEF diskVars
  <2>2. rq' \in [Callers -> RqRecs] /\ \A c \in Callers : Alike(rq[c], rq'[c])
    BY <2>1, <1>types, Zenon DEF Alike, DiskTypeOK
  <2>3. WaitersServed'
    BY <2>1, <1>served, Zenon DEF WaitersServed, More
  <2> QED
    BY <2>1, <2>2, <2>3, QuietStep, Zenon
<1> QED
  BY <1>1, <1>2, <1>3, <1>4, <1>5, Zenon DEF DiskNext

(* The callers of virtio_disk_rw(), its interrupt handler and the device   *)
(* agree on every descriptor, ring place and buffer.                       *)
THEOREM DiskInvariance ==
  ASSUME NEW calls \in [Callers -> Seq(Jobs)]
  PROVE  DiskInit(calls) /\ [][DiskNext]_diskVars => []DiskInv
<1>1. DiskInit(calls) => DiskInv
  BY InitInv, Zenon
<1>2. DiskInv /\ [DiskNext]_diskVars => DiskInv'
  BY DiskStep, Zenon
<1> QED
  BY <1>1, <1>2, PTL

(* The chains and the free descriptors partition disk.desc.                *)
LEMMA DescsPartitioned ==
  ASSUME DiskInv
  PROVE  DescExact
<1>types. DiskTypeOK
  BY DiskParts, Zenon
<1>chains. ChainsInv
  BY DiskParts, Zenon
<1>1. ASSUME NEW c \in Submitted
      PROVE  /\ Chain(rq[c].head) = Links(desc, rq[c].head)
             /\ Links(desc, rq[c].head) \subseteq Descs
             /\ Cardinality(Links(desc, rq[c].head)) = 3
             /\ Links(desc, rq[c].head) \cap free = {}
  <2>1. Formed(desc, rq[c]) /\ Links(desc, rq[c].head) \cap free = {}
    BY <1>chains, Zenon DEF ChainsInv
  <2>2. PICK i, j, k : i = rq[c].head /\ j = desc[i].next /\ k = desc[j].next
    BY Zenon
  <2>3. i # j /\ j # k /\ i # k
    BY <2>1, <2>2, Zenon DEF Formed
  <2>4. Links(desc, rq[c].head) = {i} \cup {j} \cup {k}
    BY <2>2, Zenon DEF Links
  <2>5. IsFiniteSet({i}) /\ Cardinality({i}) = 1
    BY FS_Singleton, Zenon
  <2>6. IsFiniteSet({i} \cup {j}) /\ Cardinality({i} \cup {j}) = 2
    BY <2>3, <2>5, FS_AddElement
  <2>7. Cardinality({i} \cup {j} \cup {k}) = 3
    <3>1. k \notin {i} \cup {j}
      BY <2>3, Zenon
    <3>2. Cardinality({i} \cup {j} \cup {k}) = Cardinality({i} \cup {j}) + 1
      BY <2>6, <3>1, FS_AddElement, Zenon
    <3> QED
      BY <2>6, <3>2
  <2> QED
    BY <2>1, <2>4, <2>7, ChainLinks, Zenon
<1>2. \A c, o \in Submitted : c # o => Chain(rq[c].head) \cap Chain(rq[o].head) = {}
  BY <1>1, <1>chains, Zenon DEF ChainsInv
<1>3. free \cup UNION {Chain(rq[c].head) : c \in Submitted} = Descs
  <2>1. ASSUME NEW i \in free \cup UNION {Chain(rq[c].head) : c \in Submitted} PROVE i \in Descs
    BY <1>1, <1>types DEF DiskTypeOK
  <2>2. ASSUME NEW i \in Descs, i \notin free
        PROVE  i \in UNION {Chain(rq[c].head) : c \in Submitted}
    <3>1. PICK c \in Submitted : i \in Links(desc, rq[c].head)
      BY <2>2, <1>chains, Zenon DEF ChainsInv
    <3> QED
      BY <1>1, <3>1, Zenon
  <2> QED
    BY <2>1, <2>2, Zenon
<1> QED
  BY <1>1, <1>2, <1>3, Zenon DEF DescExact

(* Every request of the disk is in one place of the rings.                 *)
LEMMA RingsCounted ==
  ASSUME DiskInv
  PROVE  RingsExact
<1>types. DiskTypeOK
  BY DiskParts, Zenon
<1>chains. ChainsInv
  BY DiskParts, Zenon
<1>rings. RingsInv
  BY DiskParts, Zenon
<1>owners. OwnersInv
  BY DiskParts, Zenon
<1> DEFINE owned == {c \in Submitted : buf[rq[c].b].disk}
           h == [c \in owned |-> rq[c].head]
<1>1. InFlight = {rq[c].head : c \in owned}
  BY <1>owners DEF OwnersInv
<1>2. /\ IsFiniteSet(Unfetched) /\ Cardinality(Unfetched) = (availIdx - fetchIdx) % UINT16
      /\ IsFiniteSet(Unseen) /\ Cardinality(Unseen) = (usedId - used_idx) % NUM
      /\ (availIdx - fetchIdx) % UINT16 \in Nat /\ (usedId - used_idx) % NUM \in Nat
  <2>1. PICK n \in Nat : n = (availIdx - fetchIdx) % UINT16
                         /\ Unfetched = Slots(avail, fetchIdx, n) /\ NoRepeats(avail, fetchIdx, n)
    BY Indices, RingConstants, <1>rings DEF RingsInv
  <2>2. PICK m \in Nat : m = (usedId - used_idx) % NUM
                         /\ Unseen = Slots(used, used_idx, m) /\ NoRepeats(used, used_idx, m)
    BY Indices, RingConstants, <1>rings DEF RingsInv
  <2>3. avail \in [Descs -> Descs] /\ used \in [Descs -> Descs] /\ fetchIdx \in Int /\ used_idx \in Int
    BY RingConstants, <1>types DEF DiskTypeOK
  <2> QED
    BY <2>1, <2>2, <2>3, SlotsCount
<1>3. IsFiniteSet(fetched) /\ Cardinality(fetched) \in Nat
  <2>1. 0 \in Int /\ NUM - 1 \in Int
    BY RingConstants
  <2>2. IsFiniteSet(Descs) /\ fetched \in SUBSET Descs
    BY <2>1, FS_Interval, <1>types, Zenon DEF Descs, DiskTypeOK
  <2>3. IsFiniteSet(fetched)
    BY <2>2, FS_Subset, Zenon
  <2> QED
    BY <2>3, FS_CardinalityType, Zenon
<1>4. IsFiniteSet(Waiting) /\ Cardinality(Waiting) = Cardinality(Unfetched) + Cardinality(fetched)
  <2>1. Unfetched \cap fetched = {} /\ Cardinality(Unfetched \cap fetched) = 0
    BY FS_EmptySet, <1>rings, Zenon DEF RingsInv
  <2>2. IsFiniteSet(Unfetched \cup fetched)
        /\ Cardinality(Unfetched \cup fetched)
             = Cardinality(Unfetched) + Cardinality(fetched) - Cardinality(Unfetched \cap fetched)
    BY <1>2, <1>3, FS_Union, Zenon
  <2> QED
    BY <1>2, <1>3, <2>1, <2>2 DEF Waiting
<1>5. IsFiniteSet(InFlight) /\ Cardinality(InFlight) = Cardinality(Waiting) + Cardinality(Unseen)
  <2>1. Waiting \cap Unseen = {} /\ Cardinality(Waiting \cap Unseen) = 0
    BY FS_EmptySet, <1>rings, Zenon DEF RingsInv
  <2>2. IsFiniteSet(Waiting \cup Unseen)
        /\ Cardinality(Waiting \cup Unseen)
             = Cardinality(Waiting) + Cardinality(Unseen) - Cardinality(Waiting \cap Unseen)
    BY <1>2, <1>4, FS_Union, Zenon
  <2> QED
    BY <1>2, <1>3, <1>4, <2>1, <2>2 DEF InFlight
<1>6. Cardinality(owned) = Cardinality(InFlight)
  <2>1. \A c, o \in owned : rq[c].head = rq[o].head => c = o
    BY OneOwner, Zenon DEF Links
  <2>2. h \in [owned -> InFlight] /\ DOMAIN h = owned
    BY <1>1, Zenon
  <2>3. \A c, o \in owned : h[c] = h[o] => c = o
    BY <2>1, Zenon
  <2>4. \A i \in InFlight : \E c \in owned : h[c] = i
    BY <1>1, Zenon
  <2> HIDE DEF h, owned
  <2>5. h \in Injection(owned, InFlight) /\ h \in Surjection(owned, InFlight)
    BY <2>2, <2>3, <2>4, Zenon DEF Injection, Surjection, IsInjective
  <2> QED
    BY <1>5, <2>5, FS_Injection, Zenon
<1>7. \A c \in Submitted : info[rq[c].head] = rq[c].b
  BY <1>chains, Zenon DEF ChainsInv
<1>8. Unfetched \cup fetched \cup Unseen = {rq[c].head : c \in owned}
  BY <1>1, Zenon DEF InFlight, Waiting
<1>9. Cardinality(owned) = ((availIdx - fetchIdx) % UINT16) + Cardinality(fetched)
                             + ((usedId - used_idx) % NUM)
  BY <1>2, <1>3, <1>4, <1>5, <1>6
<1> QED
  BY <1>7, <1>8, <1>9, Zenon DEF RingsExact

(* The data of a request that virtio_disk_rw() returns from has moved.     *)
LEMMA ReturnMoved ==
  ASSUME DiskInv, [DiskNext]_diskVars, NEW c \in Callers, rq[c].pc = "woken", rq'[c].pc = "idle"
  PROVE  /\ buf[rq[c].b].data = disk[rq[c].b]
         /\ rq[c].write => disk[rq[c].b] = rq[c].data
<1>types. DiskTypeOK
  BY DiskParts, Zenon
<1>owners. OwnersInv
  BY DiskParts, Zenon
<1>data. DataInv
  BY DiskParts, Zenon
<1>1. rq \in [Callers -> RqRecs] /\ c \in Submitted
  BY <1>types, Zenon DEF DiskTypeOK, Submitted
<1>2. ASSUME NEW o \in Callers, rw_return(o)
      PROVE  o = c /\ Finished(rq[c].b)
  <2>1. CASE ~Finished(rq[o].b)
    <3>1. rq' = [rq EXCEPT ![o].pc = "wait"]
      BY <1>2, <2>1, Zenon DEF rw_return
    <3>2. rq'[o].pc = "wait" /\ \A p \in Callers : p # o => rq'[p] = rq[p]
      BY <1>1, <3>1, Zenon DEF RqRecs
    <3> QED
      BY <3>2, Zenon
  <2>2. CASE Finished(rq[o].b) /\ o # c
    <3>1. rq'[c] = WakeDescs(rq)[c]
      BY <1>2, <2>2, Zenon DEF rw_return, WakeDescs
    <3>2. rq'[c] = rq[c]
      BY <3>1, Zenon DEF WakeDescs
    <3> QED
      BY <3>2, Zenon
  <2> QED
    BY <2>1, <2>2, Zenon
<1>3. ASSUME NEW o \in Callers, disk_kill(o) PROVE FALSE
  <2>1. CASE o = c
    BY <1>3, <2>1, Zenon DEF disk_kill
  <2>2. CASE o # c
    BY <1>1, <1>3, <2>2 DEF disk_kill
  <2> QED
    BY <2>1, <2>2, Zenon
<1>4. ASSUME NEW o \in Callers, NEW b, NEW write, NEW data, Request(o, b, write, data) PROVE FALSE
  <2>1. CASE \E t \in Alloc3 : Submit(o, b, write, data, t)
    <3>1. PICK t \in Alloc3 : Submit(o, b, write, data, t)
      BY <2>1, Zenon
    <3> QED
      BY <1>1, <3>1, Zenon DEF Submit
  <2>2. CASE Starve(o, b, write, data)
    <3>1. PICK q : q = IF free = {} THEN rq ELSE WakeDescs(rq)
      BY Zenon
    <3>2. DOMAIN q = Callers /\ q[c] = rq[c]
      BY <1>1, <3>1, Zenon DEF WakeDescs
    <3>3. PICK r : r = [pc |-> "nodesc", b |-> b, write |-> write, data |-> data, head |-> 0]
      BY Zenon
    <3>4. rq' = [q EXCEPT ![o] = r] /\ r.pc = "nodesc"
      BY <2>2, <3>1, <3>3 DEF Starve
    <3> QED
      BY <3>2, <3>4, Zenon
  <2> QED
    BY <1>4, <2>1, <2>2, Zenon DEF Request
<1>5. ASSUME virtio_disk_intr PROVE FALSE
  BY <1>5, Zenon DEF virtio_disk_intr, intr_begin, intr_elem, intr_panic, intr_last, intr_ack,
         WakeBuf
<1>6. ASSUME dev_fetch \/ (\E i \in Descs : Reports(i)) \/ UNCHANGED diskVars PROVE FALSE
  BY <1>6, Zenon DEF dev_fetch, Reports, diskVars
<1>7. Finished(rq[c].b)
  <2>1. ASSUME NEW o \in Callers, virtio_disk_rw(o) \/ retry(o) PROVE FALSE
    BY <1>4, <2>1, Zenon DEF virtio_disk_rw, retry
  <2> QED
    BY <1>2, <1>3, <1>5, <1>6, <2>1, Zenon DEF DiskNext, dev_complete, dev_fail
<1>8. rq[c].head \notin Undone
  <2>1. rq[c].head \notin InFlight
    BY <1>1, <1>7, <1>owners DEF Finished, OwnersInv
  <2>2. RingsInv
    BY DiskParts, Zenon
  <2> QED
    BY <2>1, <2>2, Zenon DEF InFlight, Undone, RingsInv
<1> QED
  BY <1>1, <1>8, <1>data, Zenon DEF DataInv, Served

(* The descriptors and the rings agree on the requests in flight, and no   *)
(* caller of virtio_disk_rw() sleeps for what nobody will do.              *)
THEOREM RequestsAgree ==
  ASSUME NEW calls \in [Callers -> Seq(Jobs)]
  PROVE  DiskInit(calls) /\ [][DiskNext]_diskVars => []RequestsExact
<1>1. DiskInv => RequestsExact
  BY DescsPartitioned, RingsCounted, DiskParts, Zenon DEF RequestsExact
<1> QED
  BY <1>1, DiskInvariance, PTL

(* virtio_disk_rw() returns only after the device has moved the data.      *)
THEOREM DataArrives ==
  ASSUME NEW calls \in [Callers -> Seq(Jobs)]
  PROVE  DiskInit(calls) /\ [][DiskNext]_diskVars => DataMoved
<1>1. DiskInv /\ [DiskNext]_diskVars
      => [\A c \in Callers : rq[c].pc = "woken" /\ rq'[c].pc = "idle"
            => /\ buf[rq[c].b].data = disk[rq[c].b]
               /\ rq[c].write => disk[rq[c].b] = rq[c].data]_diskVars
  BY ReturnMoved, Zenon
<1> QED
  BY <1>1, DiskInvariance, PTL DEF DataMoved
=============================================================================
