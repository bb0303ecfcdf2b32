----------------------------- MODULE LogProofs ------------------------------
(***************************************************************************)
(* The redo log implements the atomic disk, and its reservations suffice,  *)
(* for any number of processes, blocks and crashes.  First, every step     *)
(* preserves the types, the counts and the course of recovery, then what   *)
(* commit() has done so far and the pins, so that the invariant of Log is  *)
(* inductive; the theorems follow from it.                                 *)
(***************************************************************************)
EXTENDS Log, FiniteSetTheorems, TLAPS

(* install_trans() writes the block it has reached: nothing else changes   *)
(* on the disk or in the cache.                                            *)
LEMMA InstallType ==
  ASSUME TypeOK, install_block
  PROVE  /\ disk' \in [Blocks -> Vals] /\ cache' \in [Blocks -> Vals]
         /\ refcnt' \in [Blocks -> 0 .. UINT - 1] /\ tail' \in 0 .. LOGSIZE
         /\ tail + 1 \in 1 .. Len(lh) /\ lh[tail + 1] \in Blocks
         /\ dlog[tail + 1] \in Vals
<1>0. tail \in 0 .. LOGSIZE /\ Len(lh) <= LOGSIZE /\ tail < Len(lh) /\ tail' = tail + 1
  BY Zenon DEF TypeOK, install_block
<1>8. lh \in Seq(Blocks)
  BY Zenon DEF TypeOK
<1>1. tail + 1 \in 1 .. Len(lh) /\ tail + 1 \in 1 .. LOGSIZE /\ tail + 1 \in 0 .. LOGSIZE
  BY <1>0, <1>8, LogConstants
<1>2. lh[tail + 1] \in Blocks
  BY <1>1, <1>8
<1>6. dlog[tail + 1] \in Vals
  BY <1>1, Zenon DEF TypeOK
<1>3. \A k \in 0 .. UINT - 1 : (k - 1) % UINT \in 0 .. UINT - 1
  BY LogConstants
<1>4. refcnt' \in [Blocks -> 0 .. UINT - 1]
  BY <1>2, <1>3, Zenon DEF TypeOK, install_block
<1>5. disk' \in [Blocks -> Vals] /\ cache' \in [Blocks -> Vals]
  BY <1>2, <1>6, Zenon DEF TypeOK, install_block
<1> QED
  BY <1>0, <1>1, <1>2, <1>4, <1>5, <1>6, Zenon

(* The conjuncts of the inductive invariant of the log.                    *)
LEMMA Parts ==
  IInv => /\ TypeOK /\ Counted /\ Phases /\ Recovery /\ Pins
          /\ Distinct(lh) /\ Distinct(dhead) /\ SleeperHasWaker
BY Zenon DEF IInv

(* Every variable keeps its type.                                          *)
LEMMA TypeStep ==
  ASSUME IInv, Next
  PROVE  TypeOK'
<1> USE LogConstants DEF TypeOK, onDisk, Goto, Commits
<1>1. ASSUME NEW p \in Procs, Call(p) PROVE TypeOK'
  BY <1>1, Parts, Zenon DEF Call
<1>2. ASSUME NEW p \in Procs, begin_op(p) PROVE TypeOK'
  <2>1. outstanding' \in Nat
    BY <1>2, Parts DEF begin_op
  <2>2. pc' \in [Procs -> {"idle", "begin", "asleep", "op"} \cup Commits]
    BY <1>2, Parts, Zenon DEF begin_op
  <2> QED
    BY <1>2, <2>1, <2>2, Parts, Zenon DEF begin_op
<1>3. ASSUME NEW p \in Procs, end_op(p) PROVE TypeOK'
  <2>1. outstanding # 0
    <3>1. IsFiniteSet({q \in Procs : pc[q] = "op"})
      BY FS_Subset, Zenon
    <3>2. {q \in Procs : pc[q] = "op"} # {}
      BY <1>3, Zenon DEF end_op
    <3> QED
      BY <3>1, <3>2, FS_EmptySet, Parts, Zenon DEF Counted, Ops
  <2> QED
    <3>1. outstanding' \in Nat /\ wrote' \in [Procs -> SUBSET Blocks]
      <4>1. outstanding - 1 \in Nat
        BY <2>1, Parts
      <4> QED
        BY <1>3, <4>1, Parts, Zenon DEF end_op
    <3>2. committing' \in BOOLEAN
      BY <1>3, Parts, Zenon DEF end_op
    <3>3. pc' \in [Procs -> {"idle", "begin", "asleep", "op"} \cup Commits]
      BY <1>3, Parts, Zenon DEF end_op, Woken
    <3> QED
      BY <1>3, <3>1, <3>2, <3>3, Parts, Zenon DEF end_op
<1>4. ASSUME NEW p \in Procs, NEW b \in Blocks, NEW v \in Vals, log_write(p, b, v)
      PROVE  TypeOK'
  <2>1. lh' \in Seq(Blocks) /\ Len(lh') <= LOGSIZE
    BY <1>4, Parts DEF log_write, HasSpace
  <2>2. refcnt' \in [Blocks -> 0 .. UINT - 1]
    <3>1. \A k \in 0 .. UINT - 1 : (k + 1) % UINT \in 0 .. UINT - 1
      OBVIOUS
    <3> QED
      BY <1>4, <3>1, Parts, Zenon DEF log_write
  <2>3. wrote' \in [Procs -> SUBSET Blocks] /\ cache' \in [Blocks -> Vals]
    BY <1>4, Parts, Zenon DEF log_write
  <2> QED
    BY <1>4, <2>1, <2>2, <2>3, Parts, Zenon DEF log_write
<1>5. ASSUME NEW p \in Procs, write_log(p) PROVE TypeOK'
  <2>1. dlog' \in [1 .. LOGSIZE -> Vals] /\ tail' \in 0 .. LOGSIZE
    <3>1. TypeOK
      BY Parts, Zenon
    <3>2. tail < Len(lh) => tail + 1 \in 1 .. Len(lh) /\ tail + 1 \in 0 .. LOGSIZE
      BY <3>1
    <3>3. tail < Len(lh) => lh[tail + 1] \in Blocks
      BY <3>1, <3>2
    <3>4. tail < Len(lh) => cache[lh[tail + 1]] \in Vals
      BY <3>1, <3>3, Zenon
    <3>5. 0 \in 0 .. LOGSIZE
      OBVIOUS
    <3> QED
      BY <1>5, <3>1, <3>2, <3>4, <3>5, Zenon DEF write_log
  <2>2. pc' \in [Procs -> {"idle", "begin", "asleep", "op"} \cup Commits]
    BY <1>5, Parts, Zenon DEF write_log
  <2> QED
    BY <1>5, <2>1, <2>2, Parts, Zenon DEF write_log
<1>6. ASSUME NEW p \in Procs, write_head(p) PROVE TypeOK'
  BY <1>6, Parts, Zenon DEF write_head
<1>7. ASSUME NEW p \in Procs, install_trans(p) PROVE TypeOK'
  <2>1. CASE install_block /\ UNCHANGED pc
    BY <1>7, <2>1, InstallType, Parts, Zenon DEF install_trans
  <2>2. CASE tail' = 0 /\ Goto(p, "clear_head") /\ UNCHANGED <<disk, cache, refcnt>>
    <3>1. 0 \in 0 .. LOGSIZE
      OBVIOUS
    <3> QED
      BY <1>7, <2>2, <3>1, Parts, Zenon DEF install_trans
  <2> QED
    BY <1>7, <2>1, <2>2, Zenon DEF install_trans
<1>8. ASSUME NEW p \in Procs, clear_head(p) PROVE TypeOK'
  BY <1>8, Parts DEF clear_head
<1>9. ASSUME NEW p \in Procs, Committed(p) PROVE TypeOK'
  BY <1>9, Parts, Zenon DEF Committed, Woken
<1>10. ASSUME NEW b \in Blocks, Recycle(b) PROVE TypeOK'
  BY <1>10, Parts, Zenon DEF Recycle
<1>11. CASE Crash
  <2>1. refcnt' \in [Blocks -> 0 .. UINT - 1] /\ wrote' \in [Procs -> SUBSET Blocks]
    BY <1>11 DEF Crash
  <2>2. lh' \in Seq(Blocks) /\ Len(lh') <= LOGSIZE
    BY <1>11 DEF Crash
  <2>3. pc' \in [Procs -> {"idle", "begin", "asleep", "op"} \cup Commits]
    BY <1>11, Zenon DEF Crash
  <2>4. crashes' \in 0 .. MaxCrashes
    BY <1>11, Parts DEF Crash
  <2>5. disk' \in [Blocks -> Vals] /\ dlog' \in [1 .. LOGSIZE -> Vals]
        /\ dhead' \in Seq(Blocks) /\ Len(dhead') <= LOGSIZE
    BY <1>11, Parts, Zenon DEF Crash
  <2>6. cache' \in [Blocks -> Vals] /\ committing' \in BOOLEAN
    BY <1>11, Parts, Zenon DEF Crash
  <2>7. /\ outstanding' \in Nat /\ tail' \in 0 .. LOGSIZE
        /\ boot' \in {"read_head", "install", "clear_head", "up"}
    BY <1>11 DEF Crash
  <2> QED
    BY <2>1, <2>2, <2>3, <2>4, <2>5, <2>6, <2>7, Zenon
<1>12. CASE read_head
  BY <1>12, Parts, Zenon DEF read_head
<1>13. CASE recover_install
  <2>1. CASE install_block /\ UNCHANGED boot
    BY <1>13, <2>1, InstallType, Parts, Zenon DEF recover_install
  <2>2. CASE tail' = 0 /\ boot' = "clear_head" /\ UNCHANGED <<disk, cache, refcnt>>
    <3>1. 0 \in 0 .. LOGSIZE
      OBVIOUS
    <3> QED
      BY <1>13, <2>2, <3>1, Parts, Zenon DEF recover_install
  <2> QED
    BY <1>13, <2>1, <2>2, Zenon DEF recover_install
<1>14. CASE recover_clear
  BY <1>14, Parts DEF recover_clear
<1> QED
  BY <1>1, <1>2, <1>3, <1>4, <1>5, <1>6, <1>7, <1>8, <1>9, <1>10, <1>11, <1>12,
     <1>13, <1>14, Zenon DEF Next, commit

-----------------------------------------------------------------------------
(* The operations are finitely many.                                       *)
LEMMA OpsFinite ==
  ASSUME Counted
  PROVE  /\ IsFiniteSet(Ops)
         /\ outstanding \in Nat
         /\ outstanding = 0 <=> Ops = {}
<1>1. IsFiniteSet(Ops)
  BY LogConstants, FS_Subset, Zenon DEF Ops
<1> QED
  BY <1>1, FS_EmptySet, FS_CardinalityType, Zenon DEF Counted

(* A step that changes neither the operations nor the committer.           *)
LEMMA CountedSame ==
  ASSUME Counted, Ops' = Ops, Committers' = Committers,
         UNCHANGED <<outstanding, committing>>,
         Up' /\ outstanding = 0 /\ ~committing => lh' = <<>>
  PROVE  Counted'
  BY Zenon DEF Counted

(* log.outstanding and log.committing stay exact.                          *)
LEMMA CountedStep ==
  ASSUME IInv, Next
  PROVE  Counted'
<1> USE DEF Ops, Committers, Commits, Goto, Up
<1>0. Counted /\ TypeOK /\ Recovery /\ IsFiniteSet(Ops)
      /\ outstanding \in Nat /\ (outstanding = 0 <=> Ops = {})
  BY OpsFinite, Zenon DEF IInv
<1>types. /\ cache \in [Blocks -> Vals] /\ disk \in [Blocks -> Vals] /\ dlog \in [1 .. LOGSIZE -> Vals]
          /\ refcnt \in [Blocks -> 0 .. UINT - 1] /\ lh \in Seq(Blocks) /\ Len(lh) <= LOGSIZE
          /\ tail \in 0 .. LOGSIZE /\ pc \in [Procs -> {"idle", "begin", "asleep", "op"} \cup Commits]
  BY <1>0, Zenon DEF TypeOK
<1>1. ASSUME NEW p \in Procs, Call(p) PROVE Counted'
  <2>1. Ops' = Ops /\ Committers' = Committers
    BY <1>0, <1>1, Zenon DEF TypeOK, Call
  <2> QED
    BY <1>0, <1>1, <2>1, CountedSame, Zenon DEF Call, Counted
<1>2. ASSUME NEW p \in Procs, begin_op(p) PROVE Counted'
  <2>1. Committers' = Committers
    BY <1>0, <1>2, <1>types, Zenon DEF begin_op
  <2>2. CASE MustWait
    <3>1. Ops' = Ops
      BY <1>0, <1>2, <2>2, Zenon DEF TypeOK, begin_op
    <3> QED
      BY <1>0, <1>2, <2>1, <2>2, <3>1, CountedSame, Zenon DEF begin_op, Counted
  <2>3. CASE ~MustWait
    <3>1. Ops' = Ops \cup {p} /\ p \notin Ops
      BY <1>0, <1>2, <2>3, <1>types, Zenon DEF begin_op
    <3>2. Cardinality(Ops') = outstanding + 1
      BY <1>0, <3>1, FS_AddElement, Zenon DEF Counted
    <3>3. ~committing /\ outstanding' = outstanding + 1 /\ committing' = committing
      BY <1>2, <2>3, Zenon DEF begin_op, MustWait
    <3> QED
      BY <1>0, <2>1, <3>2, <3>3 DEF Counted
  <2> QED
    BY <2>2, <2>3, Zenon
<1>3. ASSUME NEW p \in Procs, end_op(p) PROVE Counted'
  <2>1. p \in Ops /\ outstanding # 0 /\ ~committing /\ Committers = {}
    BY <1>0, <1>3, Zenon DEF end_op, Counted
  <2>2. Ops' = Ops \ {p}
    BY <1>0, <1>3, Zenon DEF TypeOK, end_op, Woken
  <2>3. Cardinality(Ops') = outstanding - 1 /\ outstanding' = outstanding - 1
    <3>1. Cardinality(Ops \ {p}) = Cardinality(Ops) - 1
      BY <1>0, <2>1, FS_RemoveElement, Zenon
    <3> QED
      BY <1>0, <1>3, <2>2, <3>1, Zenon DEF Counted, end_op
  <2>4. CASE outstanding = 1
    <3>1. Committers' = {p} /\ committing' = TRUE
      BY <1>0, <1>3, <2>1, <2>4, <1>types, Zenon DEF end_op
    <3> QED
      BY <2>3, <2>4, <3>1 DEF Counted
  <2>5. CASE outstanding # 1
    <3>1. Committers' = {} /\ committing' = FALSE
      BY <1>0, <1>3, <2>1, <2>5, Zenon DEF TypeOK, end_op, Woken
    <3>2. outstanding' # 0
      BY <1>0, <2>3, <2>5
    <3> QED
      BY <2>3, <3>1, <3>2, Zenon DEF Counted
  <2> QED
    BY <2>4, <2>5, Zenon
<1>4. ASSUME NEW p \in Procs, NEW b \in Blocks, NEW v \in Vals, log_write(p, b, v)
      PROVE  Counted'
  <2>1. Ops' = Ops /\ Committers' = Committers /\ p \in Ops
    BY <1>4, Zenon DEF log_write
  <2> QED
    BY <1>0, <1>4, <2>1, CountedSame, Zenon DEF log_write
<1>5. ASSUME NEW p \in Procs, commit(p) PROVE Counted'
  <2> USE DEF commit, write_log, write_head, install_trans, clear_head, install_block
  <2>1. Ops' = Ops
    BY <1>0, <1>5, Zenon DEF TypeOK
  <2>2. Committers' = Committers
    BY <1>0, <1>5, Zenon DEF TypeOK
  <2>3. committing /\ UNCHANGED <<committing, outstanding>>
    BY <1>0, <1>5, Zenon DEF Counted
  <2> QED
    BY <1>0, <2>1, <2>2, <2>3, CountedSame, Zenon
<1>6. ASSUME NEW p \in Procs, Committed(p) PROVE Counted'
  <2>1. Ops' = Ops
    BY <1>0, <1>6, Zenon DEF TypeOK, Committed, Woken
  <2>2. Committers' = {}
    BY <1>0, <1>6, <1>types DEF Committed, Woken, Counted
  <2>3. lh' = <<>>
    BY <1>6, Parts, Zenon DEF Committed, Phases, At
  <2> QED
    BY <1>0, <1>6, <2>1, <2>2, <2>3, Zenon DEF Committed, Counted
<1>7. ASSUME NEW b \in Blocks, Recycle(b) PROVE Counted'
  BY <1>0, <1>7, CountedSame, Zenon DEF Recycle, Counted
<1>8. CASE Crash
  <2>1. Ops' = {} /\ Committers' = {}
    BY <1>8, Zenon DEF Crash
  <2> QED
    BY <1>8, <2>1, FS_EmptySet, Zenon DEF Crash, Counted
<1>9. CASE read_head \/ recover_install \/ recover_clear
  BY <1>0, <1>9, CountedSame, Zenon DEF read_head, recover_install, recover_clear, Counted
<1> QED
  BY <1>1, <1>2, <1>3, <1>4, <1>5, <1>6, <1>7, <1>8, <1>9, Zenon DEF Next

-----------------------------------------------------------------------------
(* There is one committer, so its place in commit() is the only one.       *)
LEMMA OnePlace ==
  ASSUME Counted, NEW p \in Procs, pc[p] \in Commits
  PROVE  \A l \in Commits : At(l) <=> pc[p] = l
  BY Zenon DEF Counted, Committers, At

(* Without a commit nobody is in one of its places.                        *)
LEMMA NoPlace ==
  ASSUME Counted, ~committing
  PROVE  \A l \in Commits : ~At(l)
  BY Zenon DEF Counted, Committers, At

(* The committer is at one place, also after a step.                       *)
LEMMA OnePlaceNext ==
  ASSUME Counted', NEW p \in Procs, pc'[p] \in Commits
  PROVE  \A l \in Commits : At(l)' <=> pc'[p] = l
  BY Zenon DEF Counted, Committers, At

(* Without a commit after a step nobody is in one of its places.           *)
LEMMA NoPlaceNext ==
  ASSUME Counted', ~committing'
  PROVE  \A l \in Commits : ~At(l)'
  BY Zenon DEF Counted, Committers, At

(* A block that is appended to the log.                                    *)
LEMMA LoggedNext ==
  ASSUME TypeOK, NEW b \in Blocks, lh' = IF b \in Logged THEN lh ELSE Append(lh, b)
  PROVE  Logged' = Logged \cup {b}
<1>1. CASE b \in Logged
  BY <1>1, Zenon DEF Logged
<1>2. CASE b \notin Logged
  <2>1. /\ lh' = Append(lh, b) /\ Len(lh') = Len(lh) + 1 /\ Len(lh) \in Nat
        /\ lh'[Len(lh) + 1] = b /\ \A j \in 1 .. Len(lh) : lh'[j] = lh[j]
    BY <1>2 DEF TypeOK
  <2> QED
    BY <2>1 DEF Logged
<1> QED
  BY <1>1, <1>2, Zenon

(* One more block is installed.                                            *)
LEMMA InstallStep ==
  ASSUME TypeOK, Distinct(lh), install_block, UNCHANGED <<lh, dlog>>, InstalledUpTo(tail)
  PROVE  InstalledUpTo(tail)' /\ tail' <= Len(lh)
<1>1. /\ tail \in Nat /\ tail' = tail + 1 /\ tail + 1 \in 1 .. Len(lh)
      /\ tail' <= Len(lh) /\ lh[tail + 1] \in Blocks
  BY DEF TypeOK, install_block
<1>2. disk'[lh[tail + 1]] = dlog[tail + 1]
  BY <1>1, Zenon DEF TypeOK, install_block
<1>3. \A j \in 1 .. tail : lh[j] \in Blocks /\ lh[j] # lh[tail + 1]
  <2> SUFFICES ASSUME NEW j \in 1 .. tail PROVE lh[j] \in Blocks /\ lh[j] # lh[tail + 1]
    BY Zenon
  <2>1. j \in 1 .. Len(lh) /\ j # tail + 1
    BY <1>1 DEF TypeOK
  <2> QED
    BY <1>1, <2>1 DEF TypeOK, Distinct
<1>4. \A j \in 1 .. tail : disk'[lh[j]] = dlog[j]
  BY <1>3, Zenon DEF TypeOK, install_block, InstalledUpTo
<1> QED
  BY <1>1, <1>2, <1>4 DEF InstalledUpTo

(* The buffer that is recycled has been installed, or was never written.   *)
LEMMA RecycleSame ==
  ASSUME TypeOK, Phases, Pins, Recycles => MaxCrashes = 0, NEW b \in Blocks, Recycle(b)
  PROVE  cache' = cache
<1>1. cache[b] = disk[b]
  <2>1. CASE b \notin Logged
    BY <2>1, Zenon DEF Phases, Recycle
  <2>2. CASE b \in Logged
    <3>1. PICK j \in 1 .. Len(lh) : lh[j] = b
      BY <2>2, Zenon DEF Logged
    <3>2. Unpinned(j)
      BY <3>1 DEF Pins, Recycle
    <3> QED
      BY <3>1, <3>2 DEF Unpinned, Phases, CopiedUpTo, InstalledUpTo, TypeOK
  <2> QED
    BY <2>1, <2>2, Zenon
<1> QED
  BY <1>1, Zenon DEF Recycle, TypeOK

-----------------------------------------------------------------------------
(* recover_from_log() goes on in its order.                                *)
LEMMA RecoveryStep ==
  ASSUME IInv, Next
  PROVE  Recovery'
<1> USE DEF onDisk
<1>0. TypeOK /\ Recovery /\ Distinct(lh)
  BY Zenon DEF IInv
<1>types. /\ cache \in [Blocks -> Vals] /\ disk \in [Blocks -> Vals] /\ dlog \in [1 .. LOGSIZE -> Vals]
          /\ refcnt \in [Blocks -> 0 .. UINT - 1] /\ lh \in Seq(Blocks) /\ Len(lh) <= LOGSIZE
          /\ tail \in 0 .. LOGSIZE /\ pc \in [Procs -> {"idle", "begin", "asleep", "op"} \cup Commits]
  BY <1>0, Zenon DEF TypeOK
<1>1. CASE Up /\ Up'
  BY <1>1, Zenon DEF Recovery
<1>2. CASE Crash
  BY <1>2, Zenon DEF Crash, Recovery, Up
<1>3. CASE read_head
  BY <1>0, <1>3, <1>types DEF read_head, Recovery, Up, InstalledUpTo
<1>4. CASE recover_install
  <2>1. ~Up /\ boot = "install" /\ InstalledUpTo(tail) /\ UNCHANGED <<lh, dlog, dhead, pc>>
    BY <1>0, <1>4, Zenon DEF recover_install, Recovery, Up
  <2>2. CASE install_block /\ UNCHANGED boot
    <3>1. InstalledUpTo(tail)' /\ tail' <= Len(lh)
      BY <1>0, <2>1, <2>2, InstallStep, Zenon
    <3>2. cache' = disk'
      BY <1>0, <2>1, <2>2, Zenon DEF install_block, Recovery
    <3> QED
      BY <1>0, <2>1, <2>2, <3>1, <3>2, Zenon DEF Recovery, Up
  <2>3. CASE tail = Len(lh) /\ tail' = 0 /\ boot' = "clear_head" /\ UNCHANGED <<disk, cache, refcnt>>
    BY <1>0, <2>1, <2>3, Zenon DEF Recovery, Up, InstalledUpTo
  <2> QED
    BY <1>4, <2>2, <2>3, Zenon DEF recover_install
<1>5. CASE recover_clear
  BY <1>5, Zenon DEF recover_clear, Recovery, Up
<1> QED
  BY <1>1, <1>2, <1>3, <1>4, <1>5, Zenon
  DEF Next, commit, Call, begin_op, end_op, log_write, write_log, write_head, install_trans,
      clear_head, Committed, Recycle, Up

(* log_write() absorbs: no block is logged twice.                          *)
LEMMA DistinctStep ==
  ASSUME IInv, Next
  PROVE  Distinct(lh)' /\ Distinct(dhead)'
<1> USE DEF onDisk
<1>0. TypeOK /\ Distinct(lh) /\ Distinct(dhead)
  BY Zenon DEF IInv
<1>types. /\ cache \in [Blocks -> Vals] /\ disk \in [Blocks -> Vals] /\ dlog \in [1 .. LOGSIZE -> Vals]
          /\ refcnt \in [Blocks -> 0 .. UINT - 1] /\ lh \in Seq(Blocks) /\ Len(lh) <= LOGSIZE
          /\ tail \in 0 .. LOGSIZE /\ pc \in [Procs -> {"idle", "begin", "asleep", "op"} \cup Commits]
  BY <1>0, Zenon DEF TypeOK
<1>1. CASE lh' \in {lh, dhead, <<>>} /\ dhead' \in {lh, dhead, <<>>}
  BY <1>0, <1>1 DEF Distinct
<1>2. ASSUME NEW p \in Procs, NEW b \in Blocks, NEW v \in Vals, log_write(p, b, v)
      PROVE  Distinct(lh)' /\ Distinct(dhead)'
  <2>1. CASE b \in Logged
    BY <1>1, <1>2, <2>1, Zenon DEF log_write
  <2>2. CASE b \notin Logged
    <3>1. /\ Len(lh') = Len(lh) + 1 /\ Len(lh) \in Nat
          /\ lh'[Len(lh) + 1] = b /\ \A j \in 1 .. Len(lh) : lh'[j] = lh[j]
      BY <1>0, <1>2, <2>2, <1>types DEF log_write
    <3>2. \A j \in 1 .. Len(lh) : lh[j] # b
      BY <2>2, Zenon DEF Logged
    <3> QED
      BY <1>0, <1>2, <3>1, <3>2 DEF Distinct, log_write
  <2> QED
    BY <2>1, <2>2, Zenon
<1> QED
  BY <1>1, <1>2, Zenon
  DEF Next, commit, Call, begin_op, end_op, write_log, write_head, install_trans, install_block,
      clear_head, Committed, Recycle, Crash, read_head, recover_install, recover_clear

(* Who sleeps in begin_op() keeps a waker.                                 *)
LEMMA SleeperStep ==
  ASSUME IInv, Next, Counted'
  PROVE  SleeperHasWaker'
<1> USE DEF Goto, onDisk
<1>0. TypeOK /\ Counted /\ Recovery /\ SleeperHasWaker
  BY Zenon DEF IInv
<1>types. /\ cache \in [Blocks -> Vals] /\ disk \in [Blocks -> Vals] /\ dlog \in [1 .. LOGSIZE -> Vals]
          /\ refcnt \in [Blocks -> 0 .. UINT - 1] /\ lh \in Seq(Blocks) /\ Len(lh) <= LOGSIZE
          /\ tail \in 0 .. LOGSIZE /\ pc \in [Procs -> {"idle", "begin", "asleep", "op"} \cup Commits]
  BY <1>0, Zenon DEF TypeOK
<1>1. ASSUME NEW p \in Procs, begin_op(p) PROVE SleeperHasWaker'
  <2>1. CASE MustWait
    <3>1. outstanding > 0 \/ committing
      <4>1. CASE outstanding = 0 /\ ~committing
        <5>1. Len(lh) = 0
          BY <1>0, <1>1, <4>1, Zenon DEF Counted, begin_op
        <5>2. (outstanding + 1) * MAXOPBLOCKS = MAXOPBLOCKS
          BY <4>1, LogConstants
        <5> QED
          BY <2>1, <4>1, <5>1, <5>2, LogConstants DEF MustWait
      <4> QED
        BY <1>0, <4>1 DEF TypeOK
    <3> QED
      BY <1>1, <2>1, <3>1, Zenon DEF begin_op, SleeperHasWaker
  <2>2. CASE ~MustWait
    BY <1>0, <1>1, <2>2 DEF begin_op, SleeperHasWaker, TypeOK
  <2> QED
    BY <2>1, <2>2, Zenon
<1>2. ASSUME NEW p \in Procs, end_op(p) PROVE SleeperHasWaker'
  <2>1. CASE outstanding = 1
    BY <1>2, <2>1, Zenon DEF end_op, SleeperHasWaker
  <2>2. CASE outstanding # 1
    BY <1>0, <1>2, <2>2, Zenon DEF end_op, SleeperHasWaker, Woken, TypeOK
  <2> QED
    BY <2>1, <2>2, Zenon
<1>3. ASSUME NEW p \in Procs, Committed(p) PROVE SleeperHasWaker'
  BY <1>0, <1>3, Zenon DEF Committed, SleeperHasWaker, Woken, TypeOK
<1>4. CASE Crash
  BY <1>4, Zenon DEF Crash, SleeperHasWaker
<1>5. ASSUME NEW p \in Procs, Call(p) \/ commit(p) PROVE SleeperHasWaker'
  BY <1>0, <1>5, Zenon
  DEF Call, commit, write_log, write_head, install_trans, clear_head, SleeperHasWaker, TypeOK
<1>6. ASSUME UNCHANGED <<pc, outstanding, committing>> PROVE SleeperHasWaker'
  BY <1>0, <1>6, Zenon DEF SleeperHasWaker
<1> QED
  BY <1>1, <1>2, <1>3, <1>4, <1>5, <1>6, Zenon
  DEF Next, log_write, Recycle, read_head, recover_install, recover_clear

-----------------------------------------------------------------------------
(* A step that touches none of what commit() has reached.                  *)
LEMMA PhasesSame ==
  ASSUME Phases, \A l \in Commits : At(l)' <=> At(l),
         UNCHANGED <<onDisk, cache, lh, tail, boot>>
  PROVE  Phases'
  BY DEF Phases, Commits, CopiedUpTo, InstalledUpTo, Up, Logged, onDisk

(* commit() goes on in its order.                                          *)
LEMMA PhasesStep ==
  ASSUME IInv, Next, Counted', TypeOK', Recycles => MaxCrashes = 0
  PROVE  Phases'
<1> USE DEF Goto, onDisk
<1>0. TypeOK /\ Counted /\ Phases /\ Recovery /\ Pins /\ Distinct(lh)
  BY Zenon DEF IInv
<1>types. /\ cache \in [Blocks -> Vals] /\ disk \in [Blocks -> Vals] /\ dlog \in [1 .. LOGSIZE -> Vals]
          /\ refcnt \in [Blocks -> 0 .. UINT - 1] /\ lh \in Seq(Blocks) /\ Len(lh) <= LOGSIZE
          /\ tail \in 0 .. LOGSIZE /\ pc \in [Procs -> {"idle", "begin", "asleep", "op"} \cup Commits]
  BY <1>0, Zenon DEF TypeOK
<1>1. ASSUME NEW p \in Procs, Call(p) \/ begin_op(p) PROVE Phases'
  <2>1. \A l \in Commits : At(l)' <=> At(l)
    BY <1>0, <1>1, <1>types, Zenon DEF At, Call, begin_op, Commits
  <2> QED
    BY <1>0, <1>1, <2>1, PhasesSame, Zenon DEF Call, begin_op
<1>2. ASSUME NEW p \in Procs, end_op(p) PROVE Phases'
  <2>1. outstanding # 0 /\ ~committing
    BY <1>0, <1>2, OpsFinite, Zenon DEF end_op, Counted, Ops
  <2>2. \A l \in Commits : ~At(l)
    BY <1>0, <2>1, NoPlace, Zenon
  <2>3. CASE outstanding # 1
    <3>1. \A l \in Commits : ~At(l)'
      BY <1>2, <2>1, <2>3, NoPlaceNext DEF end_op
    <3> QED
      BY <1>0, <1>2, <2>2, <3>1, PhasesSame, Zenon DEF end_op
  <2>4. CASE outstanding = 1
    <3>1. \A l \in Commits : At(l)' <=> l = (IF lh = <<>> THEN "committed" ELSE "write_log")
      BY <1>0, <1>2, <2>4, OnePlaceNext, <1>types, Zenon DEF end_op, Commits
    <3> QED
      BY <1>0, <1>2, <2>2, <3>1, <1>types DEF Phases, Commits, CopiedUpTo, InstalledUpTo, Up, Logged, end_op
  <2> QED
    BY <2>3, <2>4, Zenon
<1>3. ASSUME NEW p \in Procs, NEW b \in Blocks, NEW v \in Vals, log_write(p, b, v)
      PROVE  Phases'
  <2>1. ~committing
    BY <1>0, <1>3, OpsFinite, Zenon DEF log_write, Counted, Ops
  <2>2. \A l \in Commits : ~At(l) /\ ~At(l)'
    BY <1>0, <1>3, <2>1, NoPlace, NoPlaceNext, Zenon DEF log_write
  <2>3. Logged' = Logged \cup {b}
    BY <1>0, <1>3, LoggedNext, Zenon DEF log_write
  <2>4. \A c \in Blocks \ Logged' : cache'[c] = disk'[c]
    BY <1>0, <1>3, <2>3, Zenon DEF log_write, Phases, Up, TypeOK
  <2> QED
    BY <1>0, <1>3, <2>2, <2>4, Zenon DEF Phases, Commits, Up, log_write
<1>4. ASSUME NEW p \in Procs, write_log(p) PROVE Phases'
  <2>1. \A l \in Commits : At(l) <=> l = "write_log"
    BY <1>0, <1>4, OnePlace, Zenon DEF write_log, Commits
  <2>2. CASE tail < Len(lh)
    <3>1. \A l \in Commits : At(l)' <=> l = "write_log"
      BY <1>4, <2>2, OnePlaceNext DEF write_log, Commits
    <3>2. CopiedUpTo(tail)' /\ tail' <= Len(lh)
      <4>1. dlog' = [dlog EXCEPT ![tail + 1] = cache[lh[tail + 1]]] /\ tail' = tail + 1
            /\ UNCHANGED <<cache, lh>>
        BY <1>4, <2>2 DEF write_log
      <4>2. tail + 1 \in 1 .. LOGSIZE /\ tail \in Nat /\ Len(lh) \in Nat
        BY <1>0, <2>2, LogConstants, <1>types
      <4>3. \A j \in 1 .. tail : dlog[j] = cache[lh[j]]
        BY <1>0, <2>1, Zenon DEF Phases, Commits, CopiedUpTo
      <4>4. dlog'[tail + 1] = cache[lh[tail + 1]] /\ \A j \in 1 .. tail : dlog'[j] = dlog[j]
        BY <1>0, <4>1, <4>2, <1>types
      <4> QED
        BY <2>2, <4>1, <4>2, <4>3, <4>4 DEF CopiedUpTo
    <3> QED
      BY <1>0, <1>4, <2>1, <3>1, <3>2 DEF write_log, Phases, Commits, Up, Logged
  <2>3. CASE tail = Len(lh)
    <3>1. \A l \in Commits : At(l)' <=> l = "write_head"
      BY <1>0, <1>4, <2>3, OnePlaceNext, <1>types DEF write_log, Commits
    <3>2. CopiedUpTo(Len(lh))'
      BY <1>0, <1>4, <2>1, <2>3 DEF write_log, Phases, Commits, CopiedUpTo, TypeOK
    <3> QED
      BY <1>0, <1>4, <2>1, <2>3, <3>1, <3>2, <1>types DEF write_log, Phases, Commits, Up, Logged
  <2> QED
    BY <1>4, <2>2, <2>3, Zenon DEF write_log
<1>5. ASSUME NEW p \in Procs, write_head(p) PROVE Phases'
  <2>1. \A l \in Commits : At(l) <=> l = "write_head"
    BY <1>0, <1>5, OnePlace, Zenon DEF write_head, Commits
  <2>2. \A l \in Commits : At(l)' <=> l = "install"
    BY <1>0, <1>5, OnePlaceNext, <1>types, Zenon DEF write_head, Commits
  <2>3. CopiedUpTo(Len(lh))' /\ tail' = 0 /\ InstalledUpTo(tail)'
    BY <1>0, <1>5, <2>1, <1>types DEF write_head, Phases, Commits, CopiedUpTo, InstalledUpTo
  <2> QED
    BY <1>0, <1>5, <2>1, <2>2, <2>3, <1>types DEF write_head, Phases, Commits, Up, Logged
<1>6. ASSUME NEW p \in Procs, install_trans(p) PROVE Phases'
  <2>1. \A l \in Commits : At(l) <=> l = "install"
    BY <1>0, <1>6, OnePlace, Zenon DEF install_trans, Commits
  <2>2. CASE tail < Len(lh)
    <3>1. \A l \in Commits : At(l)' <=> l = "install"
      BY <1>6, <2>2, OnePlaceNext, <1>types DEF install_trans, Commits, install_block
    <3>2. install_block /\ UNCHANGED <<dlog, dhead, lh, boot>>
      BY <1>6, <2>2 DEF install_trans
    <3>3. cache' = cache
      <4>1. tail + 1 \in 1 .. Len(lh)
        BY <1>0, <2>2, <1>types
      <4>2. dlog[tail + 1] = cache[lh[tail + 1]]
        BY <1>0, <2>1, <4>1, Zenon DEF Phases, Commits, CopiedUpTo
      <4> QED
        BY <1>0, <3>2, <4>2, <1>types, Zenon DEF install_block
    <3>4. InstalledUpTo(tail)' /\ tail' <= Len(lh)
      <4>1. InstalledUpTo(tail)
        BY <1>0, <2>1, Zenon DEF Phases, Commits
      <4> QED
        BY <1>0, <2>2, <3>2, <4>1, InstallStep, Zenon
    <3>5. \A c \in Blocks \ Logged : disk'[c] = disk[c]
      BY <1>0, <2>2, <3>2, <1>types DEF install_block, Logged
    <3>6. CopiedUpTo(Len(lh))'
      BY <1>0, <2>1, <3>2, <3>3, Zenon DEF Phases, Commits, CopiedUpTo
    <3> QED
      <4>1. Up /\ dhead = lh /\ \A c \in Blocks \ Logged : cache[c] = disk[c]
        BY <1>0, <1>6, <2>1, Zenon DEF Phases, Commits, install_trans
      <4>2. Logged' = Logged /\ Up' /\ dhead' = lh'
        BY <3>2, <4>1, Zenon DEF Logged, Up
      <4> QED
        BY <3>1, <3>2, <3>3, <3>4, <3>5, <3>6, <4>1, <4>2, Zenon DEF Phases, Commits
  <2>3. CASE tail = Len(lh)
    <3>1. \A l \in Commits : At(l)' <=> l = "clear_head"
      BY <1>0, <1>6, <2>3, OnePlaceNext, <1>types DEF install_trans, install_block, Commits
    <3>2. tail' = 0 /\ UNCHANGED <<disk, cache, dlog, dhead, lh, boot>>
      BY <1>0, <1>6, <2>3, <1>types DEF install_trans, install_block
    <3> QED
      BY <1>0, <2>1, <2>3, <3>1, <3>2, <1>types DEF Phases, Commits, Up, Logged, CopiedUpTo, InstalledUpTo
  <2> QED
    BY <1>6, <2>2, <2>3, Zenon DEF install_trans, install_block
<1>7. ASSUME NEW p \in Procs, clear_head(p) PROVE Phases'
  <2>1. \A l \in Commits : At(l) <=> l = "clear_head"
    BY <1>0, <1>7, OnePlace, Zenon DEF clear_head, Commits
  <2>2. \A l \in Commits : At(l)' <=> l = "committed"
    BY <1>0, <1>7, OnePlaceNext, <1>types, Zenon DEF clear_head, Commits
  <2>3. cache = disk
    BY <1>0, <1>7, <2>1, <1>types DEF clear_head, Phases, Commits, CopiedUpTo, InstalledUpTo, Logged, Up
  <2> QED
    BY <1>0, <1>7, <2>1, <2>2, <2>3, Zenon DEF clear_head, Phases, Commits, Up, Logged, TypeOK
<1>8. ASSUME NEW p \in Procs, Committed(p) PROVE Phases'
  <2>1. \A l \in Commits : At(l) <=> l = "committed"
    BY <1>0, <1>8, OnePlace, Zenon DEF Committed, Commits
  <2>2. \A l \in Commits : ~At(l)'
    BY <1>8, NoPlaceNext, Zenon DEF Committed
  <2> QED
    BY <1>0, <1>8, <2>1, <2>2, <1>types DEF Committed, Phases, Commits, Up, Logged
<1>9. ASSUME NEW b \in Blocks, Recycle(b) PROVE Phases'
  <2>1. cache' = cache
    BY <1>0, <1>9, RecycleSame, Zenon
  <2>2. \A l \in Commits : At(l)' <=> At(l)
    BY <1>9, Zenon DEF At, Recycle
  <2> QED
    BY <1>0, <1>9, <2>1, <2>2, PhasesSame, Zenon DEF Recycle
<1>10. CASE Crash
  BY <1>10, NoPlaceNext, Zenon DEF Crash, Phases, Commits, Up
<1>11. CASE read_head \/ recover_install
  <2>1. \A l \in Commits : ~At(l)'
    BY <1>0, <1>11, Zenon DEF read_head, recover_install, Recovery, Up, At, Commits
  <2>2. ~Up'
    BY <1>11, Zenon DEF read_head, recover_install, Up
  <2> QED
    BY <2>1, <2>2, Zenon DEF Phases, Commits
<1>12. CASE recover_clear
  <2>1. \A l \in Commits : ~At(l)'
    BY <1>0, <1>12, Zenon DEF recover_clear, Recovery, Up, At, Commits
  <2>2. cache = disk /\ tail = 0
    BY <1>0, <1>12, Zenon DEF recover_clear, Recovery, Up
  <2> QED
    BY <1>12, <2>1, <2>2, Zenon DEF recover_clear, Phases, Commits
<1> QED
  BY <1>1, <1>2, <1>3, <1>4, <1>5, <1>6, <1>7, <1>8, <1>9, <1>10, <1>11, <1>12, Zenon
  DEF Next, commit

-----------------------------------------------------------------------------
(* The count of a buffer that is pinned once, and of one that was.         *)
LEMMA CountsOnce == 1 % UINT = 1 /\ 0 % UINT = 0
  BY LogConstants

(* bpin() in log_write(), bunpin() in install_trans().                     *)
LEMMA PinsStep ==
  ASSUME IInv, Next, Counted', TypeOK'
  PROVE  Pins'
<1> SUFFICES ASSUME MaxCrashes = 0
             PROVE  Pins'
  BY Zenon DEF Pins
<1> USE DEF onDisk, Goto
<1>0. /\ TypeOK /\ Counted /\ Phases /\ Distinct(lh) /\ Pins
      /\ Up /\ ~Crash /\ ~read_head /\ ~recover_install /\ ~recover_clear
  BY Parts DEF Pins, TypeOK, Crash, read_head, recover_install,
         recover_clear, Up
<1>types. /\ cache \in [Blocks -> Vals] /\ disk \in [Blocks -> Vals] /\ dlog \in [1 .. LOGSIZE -> Vals]
          /\ refcnt \in [Blocks -> 0 .. UINT - 1] /\ lh \in Seq(Blocks) /\ Len(lh) <= LOGSIZE
          /\ tail \in 0 .. LOGSIZE /\ pc \in [Procs -> {"idle", "begin", "asleep", "op"} \cup Commits]
  BY <1>0, Zenon DEF TypeOK
<1>1. ASSUME UNCHANGED <<lh, tail, refcnt, boot>>,
             \A l \in {"install", "clear_head"} : At(l)' <=> At(l)
      PROVE  Pins'
  BY <1>0, <1>1, Zenon DEF Pins, Logged, Unpinned, Up
<1>2. ASSUME NEW p \in Procs, Call(p) \/ begin_op(p) PROVE Pins'
  <2>1. \A l \in {"install", "clear_head"} : At(l)' <=> At(l)
    BY <1>0, <1>2, Zenon DEF At, Call, begin_op, TypeOK
  <2> QED
    BY <1>1, <1>2, <2>1, Zenon DEF Call, begin_op
<1>3. ASSUME NEW p \in Procs, end_op(p) PROVE Pins'
  <2>1. \A l \in {"install", "clear_head"} : At(l)' <=> At(l)
    BY <1>0, <1>3, Zenon DEF At, end_op, Woken, TypeOK
  <2> QED
    BY <1>1, <1>3, <2>1, Zenon DEF end_op
<1>4. ASSUME NEW p \in Procs, NEW b \in Blocks, NEW v \in Vals, log_write(p, b, v)
      PROVE  Pins'
  <2>1. ~committing
    BY <1>0, <1>4, OpsFinite, Zenon DEF log_write, Counted, Ops
  <2>2. ~At("install") /\ ~At("clear_head") /\ ~At("install")' /\ ~At("clear_head")'
    BY <1>0, <1>4, <2>1, NoPlace, NoPlaceNext, Zenon DEF log_write, Commits
  <2>3. /\ \A c \in Blocks \ Logged : refcnt[c] = 0
        /\ \A j \in 1 .. Len(lh) : refcnt[lh[j]] = 1
    BY <1>0, <2>2, Zenon DEF Pins, Unpinned
  <2>4. Logged' = Logged \cup {b}
    BY <1>0, <1>4, LoggedNext, Zenon DEF log_write
  <2>5. /\ \A c \in Blocks \ Logged' : refcnt'[c] = 0
        /\ \A c \in Logged' : refcnt'[c] = 1
    <3>1. CASE b \in Logged
      <4>1. refcnt' = refcnt /\ Logged' = Logged
        BY <1>0, <1>4, <2>4, <3>1, <1>types, Zenon DEF log_write
      <4>2. \A c \in Logged : refcnt[c] = 1
        BY <2>3 DEF Logged
      <4> QED
        BY <2>3, <4>1, <4>2, Zenon
    <3>2. CASE b \notin Logged
      <4>1. refcnt' = [refcnt EXCEPT ![b] = 1]
        <5>1. refcnt[b] = 0 /\ (0 + 1) % UINT = 1
          BY <2>3, <3>2, CountsOnce
        <5> QED
          BY <1>4, <3>2, <5>1, Zenon DEF log_write
      <4>2. \A c \in Logged : c # b /\ refcnt[c] = 1
        BY <2>3, <3>2 DEF Logged
      <4> QED
        BY <1>0, <2>3, <2>4, <4>1, <4>2, <1>types
    <3> QED
      BY <3>1, <3>2, Zenon
  <2>6. \A j \in 1 .. Len(lh') : lh'[j] \in Logged'
    BY Zenon DEF Logged
  <2> QED
    BY <1>0, <1>4, <2>2, <2>5, <2>6, Zenon DEF Pins, Unpinned, log_write, Up
<1>5. ASSUME NEW p \in Procs, write_log(p) \/ write_head(p) \/ clear_head(p) \/ Committed(p)
      PROVE  Pins'
  <2> USE DEF write_log, write_head, clear_head, Committed
  <2>1. CASE write_log(p)
    <3>1. \A l \in Commits : At(l) <=> l = "write_log"
      BY <1>0, <2>1, OnePlace, Zenon DEF Commits
    <3>2. ~At("install")' /\ ~At("clear_head")'
      BY <1>0, <2>1, OnePlaceNext, Zenon DEF Commits, TypeOK
    <3> QED
      BY <1>0, <2>1, <3>1, <3>2, Zenon DEF Pins, Logged, Unpinned, Up, Commits
  <2>2. CASE write_head(p)
    <3>1. \A l \in Commits : At(l) <=> l = "write_head"
      BY <1>0, <2>2, OnePlace, Zenon DEF Commits
    <3>2. \A l \in Commits : At(l)' <=> l = "install"
      BY <1>0, <2>2, OnePlaceNext, <1>types, Zenon DEF Commits
    <3>3. tail' = 0
      BY <1>0, <2>2, <3>1, Zenon DEF Phases, Commits
    <3> QED
      <4>1. UNCHANGED <<lh, refcnt, boot>> /\ Logged' = Logged
        BY <2>2, Zenon DEF Logged
      <4>2. \A j \in 1 .. Len(lh) : ~Unpinned(j) /\ ~Unpinned(j)'
        BY <3>1, <3>2, <3>3, <4>1 DEF Unpinned, Commits
      <4> QED
        BY <1>0, <4>1, <4>2, Zenon DEF Pins, Up
  <2>3. CASE clear_head(p)
    <3>1. \A l \in Commits : At(l) <=> l = "clear_head"
      BY <1>0, <2>3, OnePlace, Zenon DEF Commits
    <3>2. \A b \in Blocks : refcnt[b] = 0
      BY <1>0, <3>1 DEF Pins, Unpinned, Logged, Commits
    <3> QED
      BY <1>0, <2>3, <3>2 DEF Pins, Up
  <2>4. CASE Committed(p)
    <3>1. \A l \in Commits : At(l) <=> l = "committed"
      BY <1>0, <2>4, OnePlace, Zenon DEF Commits
    <3>2. \A l \in Commits : ~At(l)'
      BY <2>4, NoPlaceNext, Zenon
    <3> QED
      BY <1>1, <2>4, <3>1, <3>2, Zenon DEF Commits
  <2> QED
    BY <1>5, <2>1, <2>2, <2>3, <2>4, Zenon
<1>6. ASSUME NEW p \in Procs, install_trans(p) PROVE Pins'
  <2>1. \A l \in Commits : At(l) <=> l = "install"
    BY <1>0, <1>6, OnePlace, Zenon DEF install_trans, Commits
  <2>2. CASE install_block /\ UNCHANGED pc
    <3>1. \A l \in Commits : At(l)' <=> l = "install"
      BY <1>6, <2>2, OnePlaceNext, Zenon DEF install_trans, Commits
    <3>2. /\ tail \in Nat /\ tail + 1 \in 1 .. Len(lh) /\ tail' = tail + 1
          /\ lh' = lh /\ Up' /\ lh[tail + 1] \in Blocks
      BY <1>0, <1>6, <2>2, <1>types DEF install_trans, install_block, Up
    <3>3. refcnt[lh[tail + 1]] = 1
      BY <1>0, <2>1, <3>2 DEF Pins, Unpinned, Commits
    <3>4. refcnt' = [refcnt EXCEPT ![lh[tail + 1]] = 0]
      <4>1. (1 - 1) % UINT = 0
        BY CountsOnce
      <4> QED
        BY <2>2, <3>3, <4>1, Zenon DEF install_block
    <3>5. \A b \in Blocks \ Logged' : refcnt'[b] = 0
      BY <1>0, <3>2, <3>4, <1>types DEF Pins, Logged
    <3>6. ASSUME NEW j \in 1 .. Len(lh)
          PROVE  refcnt'[lh[j]] = IF j <= tail' THEN 0 ELSE 1
      <4>1. refcnt[lh[j]] = IF j <= tail THEN 0 ELSE 1
        BY <1>0, <2>1, <3>6, Zenon DEF Pins, Unpinned, Commits
      <4>2. lh[j] \in Blocks /\ (j # tail + 1 => lh[j] # lh[tail + 1])
        BY <1>0, <3>2, <1>types DEF Distinct
      <4> QED
        BY <1>0, <3>2, <3>4, <4>1, <4>2, <1>types
    <3> QED
      BY <3>1, <3>2, <3>5, <3>6, Zenon DEF Pins, Unpinned, Commits
  <2>3. CASE tail = Len(lh) /\ Goto(p, "clear_head") /\ UNCHANGED <<disk, cache, refcnt>>
    <3>1. \A l \in Commits : At(l)' <=> l = "clear_head"
      BY <1>0, <2>3, OnePlaceNext, <1>types, Zenon DEF Commits
    <3>2. \A j \in 1 .. Len(lh) : refcnt[lh[j]] = 0
      BY <1>0, <2>1, <2>3, <1>types DEF Pins, Unpinned, Commits
    <3> QED
      BY <1>0, <1>6, <2>3, <3>1, <3>2 DEF Pins, Unpinned, Commits, install_trans, Logged, Up
  <2> QED
    BY <1>6, <2>2, <2>3, Zenon DEF install_trans
<1>7. ASSUME NEW b \in Blocks, Recycle(b) PROVE Pins'
  BY <1>1, <1>7, Zenon DEF Recycle, At
<1> QED
  BY <1>0, <1>2, <1>3, <1>4, <1>5, <1>6, <1>7, Zenon DEF Next, commit

-----------------------------------------------------------------------------
(* The counters, the log, the disk and the cache agree, for any number of  *)
(* processes, blocks and log blocks, at every step of a commit, of         *)
(* recovery and of the operations beside them.                             *)
THEOREM Invariance ==
  ASSUME Recycles => MaxCrashes = 0
  PROVE  Spec => []IInv
<1>1. Init => IInv
  <2> SUFFICES ASSUME Init PROVE IInv
    BY Zenon
  <2> USE LogConstants DEF Init
  <2>1. TypeOK
    <3>1. disk \in [Blocks -> Vals] /\ dlog \in [1 .. LOGSIZE -> Vals] /\ cache \in [Blocks -> Vals]
      BY Zenon
    <3>2. /\ pc \in [Procs -> {"idle", "begin", "asleep", "op"} \cup Commits]
          /\ wrote \in [Procs -> SUBSET Blocks] /\ refcnt \in [Blocks -> 0 .. UINT - 1]
      OBVIOUS
    <3>3. lh \in Seq(Blocks) /\ Len(lh) <= LOGSIZE /\ dhead \in Seq(Blocks) /\ Len(dhead) <= LOGSIZE
      OBVIOUS
    <3>4. outstanding \in Nat /\ committing \in BOOLEAN
      BY Zenon
    <3>5. tail \in 0 .. LOGSIZE /\ crashes \in 0 .. MaxCrashes
      OBVIOUS
    <3>6. boot \in {"read_head", "install", "clear_head", "up"}
      BY Zenon
    <3> QED
      BY <3>1, <3>2, <3>3, <3>4, <3>5, <3>6, Zenon DEF TypeOK
  <2>2. Ops = {} /\ Committers = {}
    BY Zenon DEF Ops, Committers, Commits
  <2>3. Counted
    BY <2>2, FS_EmptySet, Zenon DEF Counted
  <2>4. \A l \in Commits : ~At(l)
    BY Zenon DEF At, Commits
  <2>5. Logged = {}
    BY DEF Logged
  <2>6. Phases
    BY <2>4, <2>5, Zenon DEF Phases, Commits
  <2>7. Recovery
    BY Zenon DEF Recovery, Up
  <2>8. Pins
    BY <2>5 DEF Pins, Up
  <2>9. Distinct(lh) /\ Distinct(dhead) /\ SleeperHasWaker
    BY DEF Distinct, SleeperHasWaker
  <2> QED
    BY <2>1, <2>3, <2>6, <2>7, <2>8, <2>9, Zenon DEF IInv
<1>2. IInv /\ [Next]_vars => IInv'
  <2> SUFFICES ASSUME IInv, [Next]_vars PROVE IInv'
    BY Zenon
  <2>1. CASE Next
    BY <2>1, TypeStep, CountedStep, PhasesStep, RecoveryStep, PinsStep, DistinctStep, SleeperStep,
       Zenon DEF IInv
  <2>2. CASE UNCHANGED vars
    <3> USE <2>2 DEF vars, onDisk, IInv
    <3>1. TypeOK' /\ Counted'
      BY Zenon DEF TypeOK, Counted, Ops, Committers, Up
    <3>2. Phases'
      <4>1. \A l \in Commits : At(l)' <=> At(l)
        BY Zenon DEF At
      <4> QED
        BY <4>1, PhasesSame, Zenon
    <3>3. Recovery'
      BY Zenon DEF Recovery, Up, InstalledUpTo
    <3>4. Pins'
      BY Zenon DEF Pins, Up, At, Logged, Unpinned
    <3>5. Distinct(lh)' /\ Distinct(dhead)' /\ SleeperHasWaker'
      BY Zenon DEF Distinct, SleeperHasWaker
    <3> QED
      BY <3>1, <3>2, <3>3, <3>4, <3>5, Zenon
  <2> QED
    BY <2>1, <2>2, Zenon
<1> QED
  BY <1>1, <1>2, PTL DEF Spec

-----------------------------------------------------------------------------
(* What recovery reads for a block, in the header or not.                  *)
LEMMA RecoveredIs ==
  ASSUME NEW h \in Seq(Blocks), Distinct(h), NEW l, NEW d
  PROVE  /\ \A j \in 1 .. Len(h) : Recovered(h, l, d)[h[j]] = l[j]
         /\ \A b \in Blocks : (\A j \in 1 .. Len(h) : h[j] # b) => Recovered(h, l, d)[b] = d[b]
         /\ Recovered(h, l, d) = [b \in Blocks |-> Recovered(h, l, d)[b]]
<1>1. ASSUME NEW j \in 1 .. Len(h) PROVE Recovered(h, l, d)[h[j]] = l[j]
  <2>1. h[j] \in Blocks
    OBVIOUS
  <2>2. (CHOOSE k \in 1 .. Len(h) : h[k] = h[j]) = j
    BY Zenon DEF Distinct
  <2> QED
    BY <2>1, <2>2, Zenon DEF Recovered
<1>2. Recovered(h, l, d) = [b \in Blocks |-> Recovered(h, l, d)[b]]
  BY Zenon DEF Recovered
<1>3. ASSUME NEW b \in Blocks, \A j \in 1 .. Len(h) : h[j] # b
      PROVE  Recovered(h, l, d)[b] = d[b]
  BY <1>3, Zenon DEF Recovered
<1> QED
  BY <1>1, <1>2, <1>3, Zenon

(* Recovery makes f of h, l and d, if l holds f for the blocks in h and d  *)
(* for the others.                                                         *)
LEMMA RecoveredEq ==
  ASSUME NEW h \in Seq(Blocks), Distinct(h), NEW l, NEW d, NEW f,
         \A j \in 1 .. Len(h) : l[j] = f[h[j]],
         \A b \in Blocks : (\A j \in 1 .. Len(h) : h[j] # b) => d[b] = f[b]
  PROVE  Recovered(h, l, d) = [b \in Blocks |-> f[b]]
<1>1. ASSUME NEW b \in Blocks PROVE Recovered(h, l, d)[b] = f[b]
  <2>1. CASE \A j \in 1 .. Len(h) : h[j] # b
    BY <2>1, RecoveredIs
  <2>2. ASSUME NEW j \in 1 .. Len(h), h[j] = b PROVE Recovered(h, l, d)[b] = f[b]
    <3>1. Recovered(h, l, d)[h[j]] = l[j]
      BY RecoveredIs
    <3> QED
      BY <2>2, <3>1, Zenon
  <2> QED
    BY <2>1, <2>2, Zenon
<1>2. Recovered(h, l, d) = [b \in Blocks |-> Recovered(h, l, d)[b]]
  BY RecoveredIs
<1> QED
  BY <1>1, <1>2, Zenon

(* An empty header installs nothing.                                       *)
LEMMA RecoveredEmpty ==
  ASSUME NEW d \in [Blocks -> Vals], NEW l
  PROVE  Recovered(<<>>, l, d) = d
  BY DEF Recovered

(* commit(): once the log is idle, everything that was written is durable, *)
(* for any number of processes and blocks.                                 *)
THEOREM IdleIsOnDisk ==
  ASSUME Recycles => MaxCrashes = 0
  PROVE  Spec => []IdleIsDurable
<1>1. IInv => IdleIsDurable
  <2> SUFFICES ASSUME IInv, Up, outstanding = 0, ~committing PROVE durBar = cache
    BY Zenon DEF IdleIsDurable, Up
  <2>1. lh = <<>> /\ \A l \in Commits : ~At(l)
    BY NoPlace, Parts, Zenon DEF Counted
  <2>2. dhead = <<>> /\ \A b \in Blocks : cache[b] = disk[b]
    BY <2>1, Parts DEF Phases, Commits, Logged
  <2>3. durBar = disk
    BY <2>2, RecoveredEmpty, Parts, Zenon DEF durBar, TypeOK
  <2> QED
    BY <2>2, <2>3, Parts DEF TypeOK
<1> QED
  BY <1>1, Invariance, PTL

-----------------------------------------------------------------------------
(* Steps that leave the disk, or only what recovery would write anyway.    *)
LEMMA DurSame ==
  ASSUME UNCHANGED onDisk
  PROVE  durBar' = durBar
  BY Zenon DEF durBar, onDisk

(* Installing a block again changes nothing that recovery would leave.     *)
LEMMA DurInstall ==
  ASSUME TypeOK, Distinct(dhead), dhead = lh, install_block, UNCHANGED <<dlog, dhead>>
  PROVE  durBar' = durBar
<1>1. dhead \in Seq(Blocks) /\ tail + 1 \in 1 .. Len(dhead)
  BY InstallType, Zenon DEF TypeOK
<1>2. \A j \in 1 .. Len(dhead) : dlog[j] = durBar[dhead[j]]
  BY <1>1, RecoveredIs DEF durBar
<1>3. ASSUME NEW b \in Blocks, \A j \in 1 .. Len(dhead) : dhead[j] # b
      PROVE  disk'[b] = durBar[b]
  <2>1. disk'[b] = disk[b]
    BY <1>1, <1>3, Zenon DEF install_block, TypeOK
  <2>2. durBar[b] = disk[b]
    BY <1>1, <1>3, RecoveredIs DEF durBar
  <2> QED
    BY <2>1, <2>2, Zenon
<1>4. durBar = [b \in Blocks |-> durBar[b]]
  BY Zenon DEF durBar, Recovered
<1>5. Recovered(dhead, dlog, disk') = durBar
  BY <1>1, <1>2, <1>3, <1>4, RecoveredEq
<1> QED
  BY <1>5, Zenon DEF durBar

(* All installed: recovery would change nothing.                           *)
LEMMA DurInstalled ==
  ASSUME TypeOK, Distinct(dhead), dhead = lh, InstalledUpTo(Len(lh))
  PROVE  durBar = disk
<1>1. dhead \in Seq(Blocks) /\ \A j \in 1 .. Len(dhead) : dlog[j] = disk[dhead[j]]
  BY Zenon DEF TypeOK, InstalledUpTo
<1>2. disk = [b \in Blocks |-> disk[b]]
  BY Zenon DEF TypeOK
<1>3. Recovered(dhead, dlog, disk) = disk
  BY <1>1, <1>2, RecoveredEq
<1> QED
  BY <1>3, Zenon DEF durBar

(* Every step of the log is a step of the atomic disk, or stutters.        *)
LEMMA RefineStep ==
  ASSUME IInv, IInv', Next, Recycles => MaxCrashes = 0
  PROVE  AD!Next \/ UNCHANGED <<memBar, durBar, outstanding>>
<1> USE DEF Goto, onDisk
<1>0. TypeOK /\ Counted /\ Phases /\ Recovery /\ Pins /\ Distinct(lh) /\ Distinct(dhead)
  BY Zenon DEF IInv
<1>types. /\ cache \in [Blocks -> Vals] /\ disk \in [Blocks -> Vals] /\ dlog \in [1 .. LOGSIZE -> Vals]
          /\ refcnt \in [Blocks -> 0 .. UINT - 1] /\ lh \in Seq(Blocks) /\ Len(lh) <= LOGSIZE
          /\ tail \in 0 .. LOGSIZE /\ pc \in [Procs -> {"idle", "begin", "asleep", "op"} \cup Commits]
  BY <1>0, Zenon DEF TypeOK
<1>1. ASSUME NEW p \in Procs, Call(p)
      PROVE  UNCHANGED <<memBar, durBar, outstanding>>
  BY <1>1, DurSame, Zenon DEF Call, memBar
<1>2. ASSUME NEW p \in Procs, begin_op(p)
      PROVE  AD!Begin \/ UNCHANGED <<memBar, durBar, outstanding>>
  <2>1. UNCHANGED <<memBar, durBar>>
    BY <1>2, DurSame, Zenon DEF begin_op, memBar
  <2> QED
    BY <1>2, <2>1, Zenon DEF begin_op, AD!Begin
<1>3. ASSUME NEW p \in Procs, end_op(p) PROVE AD!End
  <2>1. UNCHANGED <<memBar, durBar>>
    BY <1>3, DurSame, Zenon DEF end_op, memBar
  <2>2. outstanding > 0
    BY <1>0, <1>3, OpsFinite DEF end_op, Ops
  <2> QED
    BY <1>3, <2>1, <2>2, Zenon DEF end_op, AD!End
<1>4. ASSUME NEW p \in Procs, NEW b \in Blocks, NEW v \in Vals, log_write(p, b, v)
      PROVE  AD!Write
  <2>1. durBar' = durBar /\ memBar = cache /\ memBar' = cache'
    BY <1>4, DurSame, Zenon DEF log_write, memBar, Up
  <2>2. outstanding > 0
    BY <1>0, <1>4, OpsFinite DEF log_write, Ops
  <2> QED
    BY <1>4, <2>1, <2>2, Zenon DEF log_write, AD!Write
<1>5. ASSUME NEW p \in Procs, write_log(p)
      PROVE  UNCHANGED <<memBar, durBar, outstanding>>
  <2>1. dhead = <<>> /\ dhead' = <<>> /\ disk' = disk
    BY <1>0, <1>5, OnePlace, Zenon DEF write_log, Phases, Commits
  <2>2. durBar = disk /\ durBar' = disk'
    BY <1>0, <2>1, RecoveredEmpty, Zenon DEF durBar, TypeOK
  <2> QED
    BY <1>5, <2>1, <2>2, Zenon DEF write_log, memBar, Up
<1>6. ASSUME NEW p \in Procs, write_head(p) PROVE AD!Commit
  <2>1. outstanding = 0 /\ CopiedUpTo(Len(lh))
    <3>1. pc[p] = "write_head" /\ At("write_head") /\ p \in Committers
      BY <1>6, Zenon DEF write_head, Committers, Commits, At
    <3> QED
      BY <1>0, <3>1, Zenon DEF Counted, Phases
  <2>2. \A b \in Blocks : (\A j \in 1 .. Len(lh) : lh[j] # b) => disk[b] = cache[b]
    BY <1>0, <1>6, Zenon DEF write_head, Phases, Logged
  <2>3. cache = [b \in Blocks |-> cache[b]]
    BY <1>0, Zenon DEF TypeOK
  <2>4. Recovered(lh, dlog, disk) = cache
    <3>1. \A j \in 1 .. Len(lh) : dlog[j] = cache[lh[j]]
      BY <2>1, Zenon DEF CopiedUpTo
    <3>2. lh \in Seq(Blocks)
      BY <1>0, Zenon DEF TypeOK
    <3>3. Distinct(lh)
      BY <1>0, Zenon
    <3>4. Recovered(lh, dlog, disk) = [b \in Blocks |-> cache[b]]
      BY <2>2, <3>1, <3>2, <3>3, RecoveredEq
    <3> QED
      BY <2>3, <3>4, Zenon
  <2>5. durBar' = cache /\ memBar = cache /\ memBar' = cache
    BY <1>6, <2>4, Zenon DEF write_head, durBar, memBar, Up
  <2> QED
    BY <1>6, <2>1, <2>5, Zenon DEF write_head, AD!Commit
<1>7. ASSUME NEW p \in Procs, install_trans(p)
      PROVE  UNCHANGED <<memBar, durBar, outstanding>>
  <2>1. Up /\ Up' /\ dhead = lh /\ CopiedUpTo(Len(lh))
    BY <1>0, <1>7, Zenon DEF install_trans, Phases, At, Up
  <2>2. CASE install_block
    <3>1. durBar' = durBar
      BY <1>0, <1>7, <2>1, <2>2, DurInstall, Zenon DEF install_trans
    <3>2. dlog[tail + 1] = cache[lh[tail + 1]]
      BY <1>0, <2>1, <2>2, InstallType, Zenon DEF CopiedUpTo
    <3>3. cache' = cache
      BY <1>0, <2>2, <3>2, Zenon DEF install_block, TypeOK
    <3> QED
      BY <1>7, <2>1, <3>1, <3>3, Zenon DEF install_trans, memBar, Up
  <2>3. CASE UNCHANGED <<disk, cache, refcnt>>
    BY <1>7, <2>1, <2>3, DurSame, Zenon DEF install_trans, memBar, Up
  <2> QED
    BY <1>7, <2>2, <2>3, Zenon DEF install_trans
<1>8. ASSUME NEW p \in Procs, clear_head(p)
      PROVE  UNCHANGED <<memBar, durBar, outstanding>>
  <2>1. dhead = lh /\ InstalledUpTo(Len(lh))
    BY <1>0, <1>8, Zenon DEF clear_head, Phases, At
  <2>2. durBar = disk
    BY <1>0, <2>1, DurInstalled, Zenon
  <2>3. durBar' = disk
    BY <1>0, <1>8, RecoveredEmpty, Zenon DEF clear_head, durBar, TypeOK
  <2> QED
    BY <1>8, <2>2, <2>3, Zenon DEF clear_head, memBar, Up
<1>9. ASSUME NEW p \in Procs, Committed(p)
      PROVE  UNCHANGED <<memBar, durBar, outstanding>>
  BY <1>9, DurSame, Zenon DEF Committed, memBar
<1>10. ASSUME NEW b \in Blocks, Recycle(b)
       PROVE  UNCHANGED <<memBar, durBar, outstanding>>
  <2>1. cache' = cache
    BY <1>0, <1>10, RecycleSame, Zenon
  <2> QED
    BY <1>10, <2>1, DurSame, Zenon DEF Recycle, memBar
<1>11. ASSUME Crash PROVE AD!Crash
  BY <1>11, DurSame, Zenon DEF Crash, AD!Crash, memBar
<1>12. ASSUME read_head PROVE UNCHANGED <<memBar, durBar, outstanding>>
  BY <1>12, DurSame, Zenon DEF read_head, memBar
<1>13. ASSUME recover_install PROVE UNCHANGED <<memBar, durBar, outstanding>>
  <2>1. boot # "up" /\ boot' # "up" /\ dhead = lh
    BY <1>0, <1>13, Zenon DEF recover_install, Recovery, Up
  <2>2. durBar' = durBar
    <3>1. CASE install_block
      BY <1>0, <1>13, <2>1, <3>1, DurInstall, Zenon DEF recover_install
    <3>2. CASE UNCHANGED <<disk, cache, refcnt>>
      BY <1>13, <3>2, DurSame, Zenon DEF recover_install
    <3> QED
      BY <1>13, <3>1, <3>2, Zenon DEF recover_install
  <2> QED
    BY <1>13, <2>1, <2>2, Zenon DEF recover_install, memBar
<1>14. ASSUME recover_clear PROVE UNCHANGED <<memBar, durBar, outstanding>>
  <2>1. cache = disk /\ dhead = lh /\ InstalledUpTo(Len(lh))
    BY <1>0, <1>14, Zenon DEF recover_clear, Recovery, Up
  <2>2. durBar = disk
    BY <1>0, <2>1, DurInstalled, Zenon
  <2>3. durBar' = disk
    BY <1>0, <1>14, RecoveredEmpty, Zenon DEF recover_clear, durBar, TypeOK
  <2> QED
    BY <1>14, <2>1, <2>2, <2>3, Zenon DEF recover_clear, memBar
<1> QED
  BY <1>1, <1>2, <1>3, <1>4, <1>5, <1>6, <1>7, <1>8, <1>9, <1>10, <1>11, <1>12,
     <1>13, <1>14, Zenon DEF Next, commit, AD!Next

(* begin_op(), log_write(), end_op() and recovery implement the atomic     *)
(* disk: file-system calls survive a crash, at any step of a commit or of  *)
(* recovery, whole or not at all.                                          *)
THEOREM ImplementsAtomicDisk ==
  ASSUME Recycles => MaxCrashes = 0
  PROVE  Spec => IsAtomicDisk
<1>1. Init => AD!Init
  <2> SUFFICES ASSUME Init PROVE AD!Init
    BY Zenon
  <2>1. durBar = disk /\ memBar = disk /\ disk \in [Blocks -> Vals]
    BY RecoveredEmpty, Zenon DEF Init, durBar, memBar
  <2> QED
    BY <2>1, Zenon DEF Init, AD!Init
<1>2. IInv /\ IInv' /\ [Next]_vars => [AD!Next]_<<memBar, durBar, outstanding>>
  <2> SUFFICES ASSUME IInv, IInv', [Next]_vars
               PROVE  [AD!Next]_<<memBar, durBar, outstanding>>
    BY Zenon
  <2>1. CASE Next
    BY <2>1, RefineStep, Zenon
  <2>2. CASE UNCHANGED vars
    BY <2>2, DurSame, Zenon DEF vars, memBar, onDisk
  <2> QED
    BY <2>1, <2>2, Zenon
<1> QED
  BY <1>1, <1>2, Invariance, PTL DEF Spec, IsAtomicDisk, AD!Spec

(* log_write(), bpin(): as long as the machine has not crashed, a logged   *)
(* block stays pinned until it is installed.                               *)
THEOREM LoggedStayPinned ==
  ASSUME MaxCrashes = 0
  PROVE  Spec => []LoggedArePinned
<1>1. IInv => LoggedArePinned
  BY Parts DEF LoggedArePinned, Pins, Unpinned, At, Logged
<1> QED
  BY <1>1, Invariance, PTL

(* begin_op(), end_op(): whoever sleeps for log space or for a commit has  *)
(* an operation or a commit under way that will wake them.                 *)
THEOREM SleeperIsServed ==
  ASSUME Recycles => MaxCrashes = 0
  PROVE  Spec => []SleeperHasWaker
<1>1. IInv => SleeperHasWaker
  BY Zenon DEF IInv
<1> QED
  BY <1>1, Invariance, PTL

-----------------------------------------------------------------------------
(* The unspent reservations are finitely many.                             *)
LEMMA UnspentFinite ==
  ASSUME Counted
  PROVE  /\ IsFiniteSet(Unspent) /\ Cardinality(Unspent) \in Nat
         /\ Cardinality(Unspent) <= outstanding * (MAXOPBLOCKS - 1)
<1> DEFINE I == 1 .. MAXOPBLOCKS - 1
<1>1. IsFiniteSet(I) /\ Cardinality(I) = MAXOPBLOCKS - 1
  BY LogConstants, FS_Interval
<1>2. IsFiniteSet(Ops) /\ Cardinality(Ops) = outstanding
  BY OpsFinite, Zenon DEF Counted
<1> HIDE DEF I
<1>3. IsFiniteSet(Ops \X I) /\ Cardinality(Ops \X I) = outstanding * (MAXOPBLOCKS - 1)
  BY <1>1, <1>2, FS_Product, Zenon
<1>4. Unspent \subseteq Ops \X I
  BY Zenon DEF Unspent, I
<1> QED
  BY <1>3, <1>4, FS_Subset, FS_CardinalityType

(* The same after a step.                                                  *)
LEMMA UnspentFiniteNext ==
  ASSUME Counted'
  PROVE  /\ IsFiniteSet(Unspent') /\ Cardinality(Unspent') \in Nat
         /\ Cardinality(Unspent') <= outstanding' * (MAXOPBLOCKS - 1)
<1> DEFINE I == 1 .. MAXOPBLOCKS - 1
<1>1. IsFiniteSet(I) /\ Cardinality(I) = MAXOPBLOCKS - 1
  BY LogConstants, FS_Interval
<1>2. IsFiniteSet(Ops') /\ Cardinality(Ops') = outstanding'
  BY LogConstants, FS_Subset, Zenon DEF Counted, Ops
<1> HIDE DEF I
<1>3. IsFiniteSet(Ops' \X I) /\ Cardinality(Ops' \X I) = outstanding' * (MAXOPBLOCKS - 1)
  BY <1>1, <1>2, FS_Product, Zenon
<1>4. Unspent' \subseteq Ops' \X I
  BY Zenon DEF Unspent, I
<1> QED
  BY <1>3, <1>4, FS_Subset, FS_CardinalityType

(* One less for every operation than it reserves, and two operations: two  *)
(* blocks to spare.                                                        *)
LEMMA Reservation ==
  ASSUME NEW n \in Nat, NEW m \in Nat, NEW k \in Nat, n >= 1, k + (n + 1) * m <= LOGSIZE
  PROVE  k + (n + 1) * (m - 1) <= LOGSIZE - 2
<1>1. (n + 1) * (m - 1) = (n + 1) * m - (n + 1)
  OBVIOUS
<1>2. (n + 1) * m \in Nat
  OBVIOUS
<1> QED
  BY <1>1, <1>2, LogConstants

(* The reservations of begin_op() keep room for every log_write().         *)
LEMMA SpaceStep ==
  ASSUME IInv, IInv', Next, Space,
         OpBlocks < MAXOPBLOCKS, MAXOPBLOCKS < LOGSIZE
  PROVE  Space'
<1> USE DEF onDisk, Goto
<1>0. TypeOK /\ Counted /\ Counted' /\ Phases /\ Recovery /\ TypeOK'
  BY Zenon DEF IInv
<1>1. UNCHANGED <<Ops, wrote, lh, outstanding>> => Space'
  <2> SUFFICES ASSUME UNCHANGED <<Ops, wrote, lh, outstanding>> PROVE Space'
    BY Zenon
  <2>1. Unspent' = Unspent /\ Logged' = Logged
    BY Zenon DEF Unspent, Logged
  <2>2. \A p \in Procs : pc'[p] # "op" => pc[p] # "op"
    BY Zenon DEF Ops
  <2> QED
    BY <2>1, <2>2, Zenon DEF Space
<1>2. ASSUME NEW p \in Procs, begin_op(p) PROVE Space'
  <2>1. CASE MustWait
    BY <1>0, <1>1, <1>2, <2>1, Zenon DEF begin_op, Ops, TypeOK
  <2>2. CASE ~MustWait
    <3>1. outstanding' = outstanding + 1 /\ UNCHANGED <<wrote, lh>> /\ Logged' = Logged
      BY <1>2, <2>2, Zenon DEF begin_op, Logged
    <3>2. Len(lh) + (outstanding + 1) * MAXOPBLOCKS <= LOGSIZE /\ ~committing
      BY <1>0, <2>2, LogConstants DEF MustWait, TypeOK
    <3>3. Len(lh) + (outstanding + 1) * (MAXOPBLOCKS - 1) <= LOGSIZE - 2
      <4>1. CASE outstanding = 0
        <5>1. Len(lh) = 0
          BY <1>0, <1>2, <3>2, <4>1, Zenon DEF Counted, begin_op
        <5>2. (outstanding + 1) * (MAXOPBLOCKS - 1) = MAXOPBLOCKS - 1
          BY <4>1, LogConstants
        <5> QED
          BY <5>1, <5>2, LogConstants
      <4>2. CASE outstanding # 0
        BY <1>0, <3>2, <4>2, Reservation, LogConstants DEF TypeOK
      <4> QED
        BY <4>1, <4>2, Zenon
    <3>4. Len(lh') + Cardinality(Unspent') <= LOGSIZE - 2
      <4>1. /\ Cardinality(Unspent') \in Nat
            /\ Cardinality(Unspent') <= (outstanding + 1) * (MAXOPBLOCKS - 1)
        BY <1>0, <3>1, UnspentFiniteNext, Zenon
      <4>2. (outstanding + 1) * (MAXOPBLOCKS - 1) \in Int /\ Len(lh) \in Nat
        BY <1>0, LogConstants DEF TypeOK
      <4> QED
        BY <3>1, <3>3, <4>1, <4>2, LogConstants
    <3>5. \A q \in Procs : pc'[q] # "op" => pc[q] # "op"
      BY <1>0, <1>2, <2>2, Zenon DEF begin_op, TypeOK
    <3> QED
      BY <3>1, <3>4, <3>5, Zenon DEF Space
  <2> QED
    BY <2>1, <2>2, Zenon
<1>3. ASSUME NEW p \in Procs, end_op(p) PROVE Space'
  <2>1. /\ Ops' \subseteq Ops \ {p} /\ lh' = lh /\ Logged' = Logged
        /\ wrote' = [wrote EXCEPT ![p] = {}] /\ p \in Ops
    BY <1>0, <1>3 DEF end_op, Ops, Woken, TypeOK, Logged
  <2>2. Unspent' \subseteq Unspent
    BY <1>0, <2>1, Zenon DEF Unspent, TypeOK, Ops
  <2>3. Cardinality(Unspent') <= Cardinality(Unspent)
    BY <1>0, <2>2, UnspentFinite, FS_Subset, Zenon
  <2>4. outstanding > 0
    BY <1>0, <2>1, OpsFinite
  <2>5. Len(lh') + Cardinality(Unspent') <= LOGSIZE - 2
    <3>1. Cardinality(Unspent) \in Nat /\ Cardinality(Unspent') \in Nat /\ Len(lh) \in Nat
      BY <1>0, UnspentFinite, UnspentFiniteNext DEF TypeOK
    <3> QED
      BY <2>1, <2>3, <2>4, <3>1, LogConstants DEF Space
  <2>6. ASSUME NEW q \in Procs
        PROVE  /\ wrote'[q] \subseteq Logged' /\ IsFiniteSet(wrote'[q])
               /\ Cardinality(wrote'[q]) <= OpBlocks
               /\ pc'[q] # "op" => wrote'[q] = {}
    <3>1. CASE q = p
      BY <1>0, <2>1, <3>1, FS_EmptySet, LogConstants DEF TypeOK
    <3>2. CASE q # p
      <4>1. wrote'[q] = wrote[q]
        BY <1>0, <2>1, <3>2, Zenon DEF TypeOK
      <4>2. pc'[q] # "op" => pc[q] # "op"
        BY <1>0, <1>3, <3>2, Zenon DEF end_op, Woken, TypeOK
      <4> QED
        BY <2>1, <4>1, <4>2, Zenon DEF Space
    <3> QED
      BY <3>1, <3>2, Zenon
  <2> QED
    BY <2>5, <2>6, Zenon DEF Space
<1>4. ASSUME NEW p \in Procs, NEW b \in Blocks, NEW v \in Vals, log_write(p, b, v)
      PROVE  Space'
  <2> DEFINE c == Cardinality(wrote[p])
  <2>1. /\ p \in Ops /\ Ops' = Ops /\ outstanding' = outstanding /\ outstanding > 0 /\ pc' = pc
        /\ wrote' = [wrote EXCEPT ![p] = @ \cup {b}] /\ Logged' = Logged \cup {b}
    BY <1>0, <1>4, OpsFinite, LoggedNext DEF log_write, Ops
  <2>2. /\ IsFiniteSet(wrote[p]) /\ c \in Nat /\ c <= OpBlocks
        /\ wrote'[p] = wrote[p] \cup {b} /\ IsFiniteSet(wrote'[p])
        /\ Cardinality(wrote'[p]) = IF b \in wrote[p] THEN c ELSE c + 1
    <3>1. IsFiniteSet(wrote[p]) /\ c <= OpBlocks
      BY Zenon DEF Space
    <3>2. wrote'[p] = wrote[p] \cup {b}
      BY <1>0, <2>1, Zenon DEF TypeOK
    <3> QED
      <4>1. PICK w : w = wrote[p]
        BY Zenon
      <4>2. IsFiniteSet(w) /\ Cardinality(w) \in Nat
        BY <3>1, <4>1, FS_CardinalityType, Zenon
      <4>3. /\ IsFiniteSet(w \cup {b})
            /\ Cardinality(w \cup {b}) = IF b \in w THEN Cardinality(w) ELSE Cardinality(w) + 1
        BY <4>2, FS_AddElement, Zenon
      <4> QED
        BY <3>1, <3>2, <4>1, <4>2, <4>3, Zenon
  <2>3. b \in wrote[p] \/ c < OpBlocks
    BY <1>4, Zenon DEF log_write, MayWrite
  <2>4. \A q \in Procs : q # p => wrote'[q] = wrote[q]
    BY <1>0, <2>1, Zenon DEF TypeOK
  <2>5. ASSUME NEW q \in Procs
        PROVE  /\ wrote'[q] \subseteq Logged' /\ IsFiniteSet(wrote'[q])
               /\ Cardinality(wrote'[q]) <= OpBlocks
               /\ pc'[q] # "op" => wrote'[q] = {}
    <3>1. CASE q = p
      <4>1. wrote'[p] \subseteq Logged'
        BY <2>1, <2>2, Zenon DEF Space
      <4>2. Cardinality(wrote'[p]) <= OpBlocks
        BY <2>2, <2>3, LogConstants
      <4> QED
        BY <2>1, <2>2, <3>1, <4>1, <4>2, Zenon DEF Ops
    <3>2. CASE q # p
      BY <2>1, <2>4, <3>2, Zenon DEF Space
    <3> QED
      BY <3>1, <3>2, Zenon
  <2>6. Len(lh') + Cardinality(Unspent') <= LOGSIZE - 2
    <3>1. /\ Cardinality(Unspent) \in Nat /\ IsFiniteSet(Unspent) /\ Cardinality(Unspent') \in Nat
          /\ Len(lh) \in Nat /\ Len(lh) + Cardinality(Unspent) <= LOGSIZE - 2
      BY <1>0, <2>1, UnspentFinite, UnspentFiniteNext DEF TypeOK, Space
    <3>2. Cardinality(wrote'[p]) >= c
      BY <2>2
    <3>3. Unspent' \subseteq Unspent
      BY <2>1, <2>2, <2>4, <3>2 DEF Unspent, Ops
    <3>4. CASE b \in Logged
      <4>1. Cardinality(Unspent') <= Cardinality(Unspent)
        BY <3>1, <3>3, FS_Subset, Zenon
      <4> QED
        BY <1>4, <3>1, <3>4, <4>1, LogConstants DEF log_write
    <3>5. CASE b \notin Logged
      <4>1. b \notin wrote[p] /\ Cardinality(wrote'[p]) = c + 1 /\ c < OpBlocks
        BY <2>2, <2>3, <3>5, Zenon DEF Space
      <4>2. <<p, c + 1>> \in Unspent
        BY <2>1, <2>2, <4>1, LogConstants DEF Unspent
      <4>3. <<p, c + 1>> \notin Unspent'
        <5>1. <<p, c + 1>> \in Unspent' => c + 1 > Cardinality(wrote'[p])
          BY Zenon DEF Unspent
        <5> QED
          BY <2>2, <4>1, <5>1
      <4>4. PICK x : x \in Unspent /\ x \notin Unspent'
        BY <4>2, <4>3, Zenon
      <4>5. IsFiniteSet(Unspent \ {x}) /\ Cardinality(Unspent \ {x}) = Cardinality(Unspent) - 1
        BY <3>1, <4>4, FS_RemoveElement, Zenon
      <4>7. Unspent' \subseteq Unspent \ {x}
        BY <3>3, <4>4, Zenon
      <4>8. Cardinality(Unspent') <= Cardinality(Unspent \ {x})
        BY <4>5, <4>7, FS_Subset, Zenon
      <4>6. Len(lh') = Len(lh) + 1
        BY <1>0, <1>4, <3>5 DEF log_write, TypeOK
      <4> QED
        BY <3>1, <4>5, <4>6, <4>8, LogConstants
    <3> QED
      BY <3>4, <3>5, Zenon
  <2> QED
    BY <2>5, <2>6, Zenon DEF Space
<1>5. ASSUME outstanding' = 0, lh' = <<>>, \A q \in Procs : wrote'[q] = {} PROVE Space'
  <2>1. \A q \in Procs : IsFiniteSet(wrote'[q]) /\ Cardinality(wrote'[q]) = 0
    BY <1>5, FS_EmptySet, Zenon
  <2> QED
    BY <1>5, <2>1, LogConstants DEF Space
<1>6. ASSUME NEW p \in Procs, Call(p) PROVE Space'
  BY <1>0, <1>1, <1>6, Zenon DEF Call, Ops, TypeOK
<1>7. ASSUME NEW p \in Procs, commit(p) \/ Committed(p) PROVE Space'
  <2>1. outstanding = 0 /\ Ops = {}
    BY <1>0, <1>7, OpsFinite, Zenon
    DEF commit, write_log, write_head, install_trans, clear_head, Committed, Counted, Committers,
        Commits
  <2>2. \A q \in Procs : wrote[q] = {}
    BY <2>1, Zenon DEF Space, Ops
  <2>3. outstanding' = 0 /\ wrote' = wrote
    BY <1>7, <2>1, Zenon DEF commit, write_log, write_head, install_trans, clear_head, Committed
  <2> QED
    BY <2>2, <2>3, FS_EmptySet, LogConstants DEF Space
<1>8. CASE Crash
  BY <1>5, <1>8, Zenon DEF Crash
<1>9. ASSUME NEW b \in Blocks, Recycle(b) PROVE Space'
  BY <1>1, <1>9, Zenon DEF Recycle, Ops
<1>10. CASE read_head \/ recover_install \/ recover_clear
  <2>1. outstanding' = outstanding /\ wrote' = wrote /\ \A q \in Procs : pc[q] = "idle"
    BY <1>0, <1>10, Zenon DEF read_head, recover_install, recover_clear, Recovery, Up
  <2>2. Ops = {} /\ outstanding = 0 /\ \A q \in Procs : wrote[q] = {}
    BY <1>0, <2>1, OpsFinite, Zenon DEF Ops, Space
  <2> QED
    BY <2>1, <2>2, FS_EmptySet, LogConstants DEF Space
<1> QED
  BY <1>2, <1>3, <1>4, <1>6, <1>7, <1>8, <1>9, <1>10, Zenon DEF Next

(* begin_op(), log_write(), end_op(): operations that stay one block below *)
(* MAXOPBLOCKS never meet the panics of log_write() and begin_op(), for    *)
(* any log at least as long as LOGSIZE says and any number of processes.   *)
THEOREM NeverPanics ==
  ASSUME Recycles => MaxCrashes = 0, OpBlocks < MAXOPBLOCKS, MAXOPBLOCKS < LOGSIZE,
         LOGSIZE <= NLOG
  PROVE  Spec => []NoPanic
<1>1. Init => Space
  BY FS_EmptySet, LogConstants DEF Init, Space
<1>2. IInv /\ IInv' /\ Space /\ [Next]_vars => Space'
  <2> SUFFICES ASSUME IInv, IInv', Space, [Next]_vars PROVE Space'
    BY Zenon
  <2>1. CASE Next
    BY <2>1, SpaceStep, Zenon
  <2>2. CASE UNCHANGED vars
    BY <2>2, Zenon DEF Space, vars, Unspent, Ops, Logged
  <2> QED
    BY <2>1, <2>2, Zenon
<1>3. IInv /\ Space => NoPanic
  <2> SUFFICES ASSUME IInv, Space, Up, NEW p \in Procs, pc[p] = "op"
               PROVE  HasSpace /\ outstanding >= 1 /\ ~committing
    BY Zenon DEF NoPanic
  <2>1. outstanding > 0 /\ ~committing /\ outstanding \in Nat
    BY OpsFinite, Parts DEF Counted, Ops
  <2>2. Len(lh) + Cardinality(Unspent) <= LOGSIZE - 2 /\ Cardinality(Unspent) \in Nat
    BY <2>1, UnspentFinite, Parts, Zenon DEF Space
  <2>3. Len(lh) \in Nat
    BY Parts DEF TypeOK
  <2> QED
    BY <2>1, <2>2, <2>3, LogConstants DEF HasSpace
<1> QED
  BY <1>1, <1>2, <1>3, Invariance, PTL DEF Spec
=============================================================================
