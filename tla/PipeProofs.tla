----------------------------- MODULE PipeProofs -----------------------------
(***************************************************************************)
(* The pipe delivers bytes in order and loses no wakeup, for any numbers   *)
(* of readers and writers, any sizes and any width of the counters.        *)
(***************************************************************************)
EXTENDS Pipe, Numbers

(* What the tests of pipewrite() and piperead() tell about the bytes.      *)
LEMMA Counters ==
  ASSUME TypeOK, Ring
  PROVE  /\ Empty <=> Len(sent) = Len(taken)
         /\ Full <=> Len(sent) = Len(taken) + PIPESIZE
         /\ nwrite % PIPESIZE = Len(sent) % PIPESIZE
         /\ nread % PIPESIZE = Len(taken) % PIPESIZE
         /\ (nwrite + 1) % UINT = (Len(sent) + 1) % UINT
         /\ (nread + 1) % UINT = (Len(taken) + 1) % UINT
<1> DEFINE L == Len(sent)
           T == Len(taken)
<1>1. L \in Nat /\ T \in Nat /\ L \in Int /\ T \in Int
  BY DEF TypeOK
<1>2. /\ PIPESIZE \in Nat \ {0} /\ UINT \in Nat \ {0} /\ PIPESIZE \in Int
      /\ UINT % PIPESIZE = 0 /\ UINT > PIPESIZE
  BY PipeConstants
<1>3. T <= L /\ L <= T + PIPESIZE /\ nwrite = L % UINT /\ nread = T % UINT
  BY Zenon DEF Ring
<1> HIDE DEF L, T
<1>4. nread = nwrite <=> L = T
  <2>1. CASE L = T
    BY <1>3, <2>1, Zenon
  <2>2. CASE L # T
    <3>1. T < L /\ L < T + UINT
      BY <1>1, <1>2, <1>3, <2>2
    <3>2. T % UINT # L % UINT
      BY <1>1, <1>2, <3>1, ModDiffer, Zenon
    <3> QED
      BY <1>3, <2>2, <3>2, Zenon
  <2> QED
    BY <2>1, <2>2, Zenon
<1>5. nwrite = (nread + PIPESIZE) % UINT <=> L = T + PIPESIZE
  <2>1. (nread + PIPESIZE) % UINT = (T + PIPESIZE) % UINT
    BY <1>1, <1>2, <1>3, ModStep, Zenon
  <2>2. CASE L = T + PIPESIZE
    BY <1>3, <2>1, <2>2, Zenon
  <2>3. CASE L # T + PIPESIZE
    <3>1. PICK x \in Int : x = T + PIPESIZE
      BY <1>1, <1>2
    <3>2. L < x /\ x < L + UINT
      BY <1>1, <1>2, <1>3, <2>3, <3>1
    <3>3. L % UINT # x % UINT
      BY <1>1, <1>2, <3>2, ModDiffer, Zenon
    <3> QED
      BY <1>3, <2>1, <2>3, <3>1, <3>3, Zenon
  <2> QED
    BY <2>2, <2>3, Zenon
<1>6. nwrite % PIPESIZE = L % PIPESIZE /\ nread % PIPESIZE = T % PIPESIZE
  BY <1>1, <1>2, <1>3, ModMod, Zenon
<1>7. (nwrite + 1) % UINT = (L + 1) % UINT /\ (nread + 1) % UINT = (T + 1) % UINT
  <2>1. 1 \in Int
    OBVIOUS
  <2> QED
    BY <1>1, <1>2, <1>3, <2>1, ModStep, Zenon
<1> QED
  BY <1>4, <1>5, <1>6, <1>7, Zenon DEF Empty, Full, L, T

(* The conjuncts of the inductive invariant of a pipe.                     *)
LEMMA Parts == IInv => TypeOK /\ Ring /\ Held /\ Ends /\ Sleepers
BY Zenon DEF IInv

(* The initial state.                                                      *)
LEMMA InitIInv == Init => IInv
<1> SUFFICES ASSUME Init PROVE IInv
  BY Zenon
<1> USE PipeConstants
<1>1. TypeOK
  BY DEF Init, TypeOK, Procs
<1>2. Ring
  <2>1. 0 % UINT = 0
    OBVIOUS
  <2> QED
    BY <2>1 DEF Init, Ring
<1>3. Held
  BY Zenon DEF Init, Held, Procs
<1>4. Ends
  BY Zenon DEF Init, Ends, Procs
<1>5. Sleepers
  BY Zenon DEF Init, Sleepers, Procs
<1> QED
  BY <1>1, <1>2, <1>3, <1>4, <1>5, Zenon DEF IInv

(* The ring changes in WriteByte and ReadByte only.                        *)
LEMMA RingSame ==
  ASSUME Ring, UNCHANGED <<data, nread, nwrite, sent, taken>>
  PROVE  Ring'
  BY Zenon DEF Ring

(* pipewrite() puts the byte at a place that holds none.                   *)
LEMMA RingWrite ==
  ASSUME TypeOK, Ring, NEW p \in Procs, WriteByte(p)
  PROVE  /\ Ring'
         /\ data' \in [0 .. PIPESIZE - 1 -> Byte \cup {0}]
         /\ nwrite' \in 0 .. UINT - 1 /\ sent' \in Seq(Byte)
<1> DEFINE L == Len(sent)
           T == Len(taken)
<1>1. /\ L \in Nat /\ T \in Nat /\ T <= L /\ L < T + PIPESIZE
      /\ PIPESIZE \in Nat \ {0} /\ UINT \in Nat \ {0}
  <2>1. L \in Nat /\ T \in Nat
    BY DEF TypeOK
  <2>2. PIPESIZE \in Nat \ {0} /\ UINT \in Nat \ {0}
    BY PipeConstants
  <2>3. T <= L /\ L <= T + PIPESIZE
    BY Zenon DEF Ring
  <2>4. L # T + PIPESIZE
    BY Counters, Zenon DEF WriteByte
  <2> QED
    BY <2>1, <2>2, <2>3, <2>4
<1>2. /\ data' = [data EXCEPT ![L % PIPESIZE] = L + 1]
      /\ nwrite' = (L + 1) % UINT
      /\ sent' = Append(sent, L + 1) /\ nread' = nread /\ taken' = taken
  BY Counters, Zenon DEF WriteByte
<1>3. L % PIPESIZE \in 0 .. PIPESIZE - 1 /\ (L + 1) % UINT \in 0 .. UINT - 1
  BY <1>1
<1>4. L + 1 \in Byte
  BY <1>1, PipeConstants DEF WriteByte, Byte
<1>5. sent' \in Seq(Byte) /\ Len(sent') = L + 1
  BY <1>2, <1>4 DEF TypeOK
<1>6. \A k \in 1 .. L + 1 : sent'[k] = k
  BY <1>1, <1>2, <1>4 DEF TypeOK, Ring
<1>7. data' \in [0 .. PIPESIZE - 1 -> Byte \cup {0}]
  BY <1>2, <1>3, <1>4, Zenon DEF TypeOK
<1>8. ASSUME NEW k \in T + 1 .. L + 1
      PROVE  data'[(k - 1) % PIPESIZE] = k
  <2>1. CASE k = L + 1
    <3>1. k - 1 = L
      BY <1>1, <2>1
    <3> QED
      BY <1>2, <1>3, <2>1, <3>1, Zenon DEF TypeOK
  <2>2. CASE k # L + 1
    <3>1. k \in T + 1 .. L
      BY <1>1, <2>2
    <3>2. PICK m \in Nat : m = k - 1 /\ m < L /\ L < m + PIPESIZE /\ m \in Int /\ L \in Int
      BY <1>1, <3>1
    <3>3. m % PIPESIZE # L % PIPESIZE
      BY <1>1, <3>2, ModDiffer, Zenon
    <3>4. m % PIPESIZE \in 0 .. PIPESIZE - 1
      BY <1>1
    <3>5. data[m % PIPESIZE] = k
      BY <3>1, <3>2, Zenon DEF Ring
    <3> QED
      BY <1>2, <3>2, <3>3, <3>4, <3>5, Zenon DEF TypeOK
  <2> QED
    BY <2>1, <2>2, Zenon
<1>9. Ring'
  BY <1>1, <1>2, <1>5, <1>6, <1>8 DEF Ring
<1> QED
  BY <1>2, <1>3, <1>5, <1>7, <1>9, Zenon

(* piperead() takes the oldest byte.                                       *)
LEMMA RingRead ==
  ASSUME TypeOK, Ring, NEW p \in Procs, ReadByte(p)
  PROVE  /\ Ring'
         /\ nread' \in 0 .. UINT - 1 /\ taken' \in Seq(Byte)
<1> DEFINE L == Len(sent)
           T == Len(taken)
<1>1. /\ L \in Nat /\ T \in Nat /\ T < L /\ L <= T + PIPESIZE
      /\ PIPESIZE \in Nat \ {0} /\ UINT \in Nat \ {0} /\ L <= MaxBytes /\ MaxBytes \in Nat
  <2>1. L \in Nat /\ T \in Nat
    BY DEF TypeOK
  <2>2. PIPESIZE \in Nat \ {0} /\ UINT \in Nat \ {0} /\ MaxBytes \in Nat
    BY PipeConstants
  <2>3. T <= L /\ L <= T + PIPESIZE
    BY Zenon DEF Ring
  <2>4. L # T
    BY Counters, Zenon DEF ReadByte
  <2>5. L = 0 \/ L \in Byte
    <3>1. L = 0 \/ L \in 1 .. Len(sent)
      BY <2>1
    <3>2. L = 0 \/ sent[L] \in Byte
      BY <3>1 DEF TypeOK
    <3> QED
      BY <3>1, <3>2, Zenon DEF Ring
  <2> QED
    BY <2>1, <2>2, <2>3, <2>4, <2>5 DEF Byte
<1>2. data[T % PIPESIZE] = T + 1
  <2>1. T + 1 \in T + 1 .. L /\ (T + 1) - 1 = T
    BY <1>1
  <2> QED
    BY <2>1, Zenon DEF Ring
<1>3. /\ taken' = Append(taken, T + 1)
      /\ nread' = (T + 1) % UINT
      /\ data' = data /\ nwrite' = nwrite /\ sent' = sent
  BY <1>2, Counters, Zenon DEF ReadByte
<1>4. T + 1 \in Byte /\ (T + 1) % UINT \in 0 .. UINT - 1
  BY <1>1 DEF Byte
<1>5. taken' \in Seq(Byte) /\ Len(taken') = T + 1
  BY <1>3, <1>4 DEF TypeOK
<1>6. \A k \in 1 .. T + 1 : taken'[k] = k
  BY <1>1, <1>3, <1>4 DEF TypeOK, Ring
<1>7. \A k \in T + 2 .. L : data[(k - 1) % PIPESIZE] = k
  BY <1>1 DEF Ring
<1>8. (T + 1) + 1 = T + 2
  BY <1>1
<1>9. Ring'
  BY <1>1, <1>3, <1>5, <1>6, <1>7, <1>8 DEF Ring
<1> QED
  BY <1>3, <1>4, <1>5, <1>9, Zenon

(* Every step keeps the ring.                                              *)
LEMMA RingStep ==
  ASSUME IInv, Next
  PROVE  Ring'
<1>1. PICK p \in Procs : (\E m \in Sizes : Call(p, m)) \/ InCall(p) \/ Close(p) \/ Kill(p)
  BY Zenon DEF Next
<1>2. CASE WriteByte(p)
  BY <1>2, RingWrite, Zenon DEF IInv
<1>3. CASE ReadByte(p)
  BY <1>3, RingRead, Zenon DEF IInv
<1>4. CASE ~WriteByte(p) /\ ~ReadByte(p)
  <2>1. UNCHANGED <<data, nread, nwrite, sent, taken>>
    BY <1>1, <1>4, Zenon DEF Call, InCall, Acquire, Sleep, pipewrite, piperead, WriteFull, WriteDone,
       ReadEmpty, ReadStart, ReadDone, Close, Kill, Fail, Return, pipe
  <2> QED
    BY <2>1, RingSame, Zenon DEF IInv
<1> QED
  BY <1>2, <1>3, <1>4, Zenon

(* Every variable keeps its type.                                          *)
LEMMA TypeStep ==
  ASSUME IInv, Next
  PROVE  TypeOK'
<1>1. PICK p \in Procs : (\E m \in Sizes : Call(p, m)) \/ InCall(p) \/ Close(p) \/ Kill(p)
  BY Zenon DEF Next
<1> DEFINE Locals == n \in [Procs -> Sizes \cup {0}] /\ i \in [Procs -> Nat]
                     /\ \A q \in Procs : i[q] <= n[q]
           Places == pc \in [Procs -> {"idle", "acquire", "loop", "sleep", "asleep", "copy", "done"}]
<1>2. Sizes \subseteq Nat /\ Locals /\ Places
  BY PipeConstants, Parts, Zenon DEF TypeOK
<1>3. ASSUME Return(p) PROVE Locals'
  BY <1>2, <1>3 DEF Return
<1>4. ASSUME NEW S, NEW l \in {"idle", "sleep"}, WakeAndGoto(S, p, l) PROVE Places'
  BY <1>2, <1>4, Zenon DEF WakeAndGoto
<1>5. ASSUME NEW l \in {"idle", "acquire", "loop", "sleep", "asleep", "copy", "done"}, Goto(p, l)
      PROVE  Places'
  BY <1>2, <1>5, Zenon DEF Goto
<1>6. CASE \E m \in Sizes : Call(p, m)
  <2>1. PICK m \in Sizes : Call(p, m)
    BY <1>6, Zenon
  <2>2. n[p] = 0 /\ i[p] = 0 /\ m \in Nat
    BY <1>2, <2>1, Parts DEF Call, Held
  <2>3. Locals'
    BY <1>2, <2>1, <2>2 DEF Call
  <2> QED
    BY <1>5, <2>1, <2>3, Parts, Zenon DEF Call, TypeOK, pipe
<1>7. CASE Acquire(p) \/ Sleep(p)
  BY <1>5, <1>7, Parts, Zenon DEF Acquire, Sleep, TypeOK, pipe
<1>8. CASE WriteFull(p) \/ WriteDone(p) \/ ReadEmpty(p) \/ ReadStart(p) \/ ReadDone(p)
  <2>1. Places'
    BY <1>4, <1>5, <1>8, Zenon DEF WriteFull, WriteDone, ReadEmpty, ReadStart, ReadDone, Fail
  <2>2. Locals'
    BY <1>2, <1>3, <1>8, Zenon DEF WriteFull, WriteDone, ReadEmpty, ReadStart, ReadDone, Fail
  <2>3. /\ lock' \in {lock, Free}
        /\ UNCHANGED <<pipe, fds, killed, sent, taken>>
    BY <1>8, Zenon DEF WriteFull, WriteDone, ReadEmpty, ReadStart, ReadDone, Fail, Return
  <2> QED
    BY <2>1, <2>2, <2>3, Parts, Zenon DEF TypeOK, pipe
<1>9. CASE WriteByte(p)
  <2>1. i[p] \in Nat /\ n[p] \in Nat /\ i[p] < n[p]
    <3>1. i[p] < n[p]
      BY <1>9, Zenon DEF WriteByte
    <3>2. Sizes \cup {0} \subseteq Nat
      BY PipeConstants
    <3>3. i[p] \in Nat /\ n[p] \in Nat
      BY <1>2, <3>2, Zenon
    <3> QED
      BY <3>1, <3>3, Zenon
  <2>2. Locals'
    BY <1>2, <1>9, <2>1 DEF WriteByte
  <2> QED
    BY <1>9, <2>2, RingWrite, Parts, Zenon DEF WriteByte, TypeOK
<1>10. CASE ReadByte(p)
  <2>1. i[p] \in Nat /\ n[p] \in Nat /\ i[p] < n[p]
    <3>1. i[p] < n[p]
      BY <1>10, Zenon DEF ReadByte
    <3>2. Sizes \cup {0} \subseteq Nat
      BY PipeConstants
    <3>3. i[p] \in Nat /\ n[p] \in Nat
      BY <1>2, <3>2, Zenon
    <3> QED
      BY <3>1, <3>3, Zenon
  <2>2. Locals'
    <3>1. n' = n /\ (i' = i \/ i' = [i EXCEPT ![p] = @ + 1])
      BY <1>10, Zenon DEF ReadByte
    <3> QED
      BY <1>2, <2>1, <3>1
  <2>3. Places'
    BY <1>2, <1>5, <1>10, Zenon DEF ReadByte
  <2> QED
    BY <1>10, <2>2, <2>3, RingRead, Parts, Zenon DEF ReadByte, TypeOK
<1>11. CASE Close(p)
  BY <1>11, Parts, Zenon DEF Close, TypeOK, pipe, WakeAndGoto
<1>12. CASE Kill(p)
  BY <1>12, Parts, Zenon DEF Kill, TypeOK, pipe, Goto
<1> QED
  BY <1>1, <1>6, <1>7, <1>8, <1>9, <1>10, <1>11, <1>12, Zenon DEF InCall, pipewrite, piperead

(* pi->lock is taken and given back with the calls.                        *)
LEMMA HeldStep ==
  ASSUME IInv, Next
  PROVE  Held'
<1>1. PICK p \in Procs : (\E m \in Sizes : Call(p, m)) \/ InCall(p) \/ Close(p) \/ Kill(p)
  BY Zenon DEF Next
<1> USE Parts DEF Held, Goto
<1>2. Free \notin Procs /\ Writers \cap Readers = {} /\ Procs = Writers \cup Readers
  BY PipeConstants, Zenon DEF Procs
<1>3. /\ pc \in [Procs -> {"idle", "acquire", "loop", "sleep", "asleep", "copy", "done"}]
      /\ n \in [Procs -> Sizes \cup {0}]
  BY Zenon DEF TypeOK
<1>4. CASE \E m \in Sizes : Call(p, m)
  BY <1>2, <1>3, <1>4 DEF Call
<1>5. CASE Acquire(p) \/ Sleep(p)
  BY <1>2, <1>3, <1>5 DEF Acquire, Sleep
<1>6. CASE WriteFull(p)
  BY <1>2, <1>3, <1>6 DEF WriteFull, WakeAndGoto, Fail, Return
<1>7. CASE WriteByte(p)
  BY <1>2, <1>3, <1>7, Zenon DEF WriteByte
<1>8. CASE WriteDone(p) \/ ReadDone(p)
  BY <1>2, <1>3, <1>8 DEF WriteDone, ReadDone, WakeAndGoto, Return
<1>9. CASE ReadEmpty(p) \/ ReadStart(p)
  BY <1>2, <1>3, <1>9 DEF ReadEmpty, ReadStart, Fail, Return
<1>10. CASE ReadByte(p)
  BY <1>2, <1>3, <1>10, Zenon DEF ReadByte
<1>11. CASE Close(p)
  BY <1>2, <1>3, <1>11 DEF Close, WakeAndGoto
<1>12. CASE Kill(p)
  BY <1>2, <1>3, <1>12, Zenon DEF Kill
<1> QED
  BY <1>1, <1>4, <1>5, <1>6, <1>7, <1>8, <1>9, <1>10, <1>11, <1>12, Zenon DEF InCall, pipewrite, piperead

(* pipeclose() keeps flags and descriptors together.                       *)
LEMMA EndsStep ==
  ASSUME IInv, Next
  PROVE  Ends'
<1>1. PICK p \in Procs : (\E m \in Sizes : Call(p, m)) \/ InCall(p) \/ Close(p) \/ Kill(p)
  BY Zenon DEF Next
<1>2. Writers \cap Readers = {} /\ Procs = Writers \cup Readers
  BY PipeConstants, Zenon DEF Procs
<1>3. pc \in [Procs -> {"idle", "acquire", "loop", "sleep", "asleep", "copy", "done"}]
  BY Parts, Zenon DEF TypeOK
<1>4. CASE Close(p)
  <2>1. fds' = fds \ {p} /\ pc[p] = "idle" /\ p \in fds
    BY <1>4, Zenon DEF Close
  <2>2. /\ readopen' <=> fds' \cap Readers # {}
        /\ writeopen' <=> fds' \cap Writers # {}
    BY <1>2, <1>4, <2>1, Parts DEF Close, Ends, pipe
  <2>3. freed' <=> ~readopen' /\ ~writeopen'
    <3>1. CASE UNCHANGED pipe
      BY <3>1, Parts, Zenon DEF Ends, pipe
    <3>2. CASE writeopen' = FALSE /\ freed' = ~readopen /\ readopen' = readopen
      BY <3>2, Zenon
    <3>3. CASE readopen' = FALSE /\ freed' = ~writeopen /\ writeopen' = writeopen
      BY <3>3, Zenon
    <3> QED
      BY <1>4, <3>1, <3>2, <3>3, Zenon DEF Close
  <2>4. ASSUME NEW q \in Procs, pc'[q] # "idle" PROVE q \in fds'
    BY <1>3, <1>4, <2>1, <2>4, Parts, Zenon DEF Close, Ends, WakeAndGoto
  <2> QED
    BY <2>2, <2>3, <2>4, Zenon DEF Ends
<1>5. CASE ~Close(p)
  <2>1. UNCHANGED <<readopen, writeopen, freed, fds>>
    BY <1>1, <1>5, Zenon DEF Call, InCall, Acquire, Sleep, pipewrite, piperead, WriteFull, WriteByte, WriteDone,
       ReadEmpty, ReadStart, ReadByte, ReadDone, Kill, Fail, Return, pipe
  <2>2. ASSUME NEW q \in Procs, pc'[q] # "idle" PROVE pc[q] # "idle" \/ (q = p /\ p \in fds)
    BY <1>1, <1>3, <1>5, <2>2, Zenon DEF Call, InCall, Acquire, Sleep, pipewrite, piperead, WriteFull, WriteByte,
       WriteDone, ReadEmpty, ReadStart, ReadByte, ReadDone, Kill, Fail, Goto, WakeAndGoto
  <2> QED
    BY <2>1, <2>2, Parts, Zenon DEF Ends
<1> QED
  BY <1>4, <1>5, Zenon

(* Nobody sleeps beside what they wait for.                                *)
LEMMA SleepersStep ==
  ASSUME IInv, Next
  PROVE  Sleepers'
<1>1. PICK p \in Procs : (\E m \in Sizes : Call(p, m)) \/ InCall(p) \/ Close(p) \/ Kill(p)
  BY Zenon DEF Next
<1> USE Parts DEF Sleepers, Goto
<1>2. Free \notin Procs /\ Writers \cap Readers = {} /\ Procs = Writers \cup Readers
  BY PipeConstants, Zenon DEF Procs
<1>3. /\ pc \in [Procs -> {"idle", "acquire", "loop", "sleep", "asleep", "copy", "done"}]
      /\ killed \in [Procs -> BOOLEAN]
  BY Zenon DEF TypeOK
<1>4. ASSUME UNCHANGED <<nread, nwrite>> PROVE (Full' <=> Full) /\ (Empty' <=> Empty)
  BY <1>4, Zenon DEF Full, Empty
<1>5. /\ \A q \in Procs : pc[q] \in {"loop", "sleep", "copy", "done"} <=> lock = q
      /\ \A q \in Writers : pc[q] \notin {"copy", "done"}
  BY Zenon DEF Held
<1>6. CASE \E m \in Sizes : Call(p, m)
  BY <1>2, <1>3, <1>4, <1>6 DEF Call, pipe
<1>7. CASE Acquire(p)
  BY <1>2, <1>3, <1>4, <1>7, Zenon DEF Acquire, pipe
<1>8. CASE Sleep(p)
  BY <1>2, <1>3, <1>4, <1>8, Zenon DEF Sleep, pipe
<1>9. CASE WriteFull(p)
  <2>1. CASE (~readopen \/ killed[p]) /\ Fail(p)
    BY <1>2, <1>3, <1>4, <1>5, <1>9, <2>1, Zenon DEF WriteFull, Fail, Return, pipe, Ends
  <2>2. CASE ~((~readopen \/ killed[p]) /\ Fail(p))
    <3>1. /\ p \in Writers /\ pc[p] = "loop" /\ Full /\ readopen
          /\ WakeAndGoto(Readers, p, "sleep")
          /\ UNCHANGED <<nread, nwrite, readopen, writeopen, killed>>
      BY <1>9, <2>2, Zenon DEF WriteFull, pipe
    <3>2. Full' /\ readopen' /\ (Empty' <=> Empty)
      BY <1>4, <3>1, Zenon
    <3>3. \A q \in Readers : pc'[q] # "asleep" /\ (pc'[q] = "sleep" => pc[q] = "sleep")
      BY <1>2, <1>3, <3>1, Zenon DEF WakeAndGoto
    <3>4. \A q \in Writers : pc'[q] = "asleep" => pc[q] = "asleep"
      BY <1>2, <1>3, <3>1, Zenon DEF WakeAndGoto
    <3> QED
      BY <3>1, <3>2, <3>3, <3>4, Zenon
  <2> QED
    BY <2>1, <2>2, Zenon
<1>10. CASE WriteByte(p)
  BY <1>2, <1>3, <1>5, <1>10, Zenon DEF WriteByte
<1>11. CASE WriteDone(p)
  BY <1>2, <1>3, <1>4, <1>5, <1>11, Zenon DEF WriteDone, WakeAndGoto, Return, pipe
<1>12. CASE ReadEmpty(p)
  <2>1. /\ p \in Readers /\ pc[p] = "loop" /\ Empty /\ writeopen
        /\ UNCHANGED <<nread, nwrite, readopen, writeopen, killed>>
        /\ pc' = [pc EXCEPT ![p] = "idle"] \/ pc' = [pc EXCEPT ![p] = "sleep"]
    BY <1>12, Zenon DEF ReadEmpty, Fail, Return, pipe
  <2> QED
    BY <1>2, <1>3, <1>4, <1>5, <2>1
<1>13. CASE ReadStart(p)
  BY <1>2, <1>3, <1>4, <1>5, <1>13 DEF ReadStart, pipe
<1>14. CASE ReadByte(p)
  BY <1>2, <1>3, <1>5, <1>14 DEF ReadByte
<1>15. CASE ReadDone(p)
  BY <1>2, <1>3, <1>4, <1>5, <1>15, Zenon DEF ReadDone, WakeAndGoto, Return, pipe
<1>16. CASE Close(p)
  BY <1>2, <1>3, <1>4, <1>5, <1>16 DEF Close, WakeAndGoto, pipe, Ends
<1>17. CASE Kill(p)
  BY <1>2, <1>3, <1>4, <1>5, <1>17, Zenon DEF Kill, pipe
<1> QED
  BY <1>1, <1>6, <1>7, <1>8, <1>9, <1>10, <1>11, <1>12, <1>13, <1>14, <1>15, <1>16, <1>17, Zenon
     DEF InCall, pipewrite, piperead

-----------------------------------------------------------------------------
(* pipewrite(), piperead(), pipeclose(): the invariant holds in every      *)
(* reachable state.                                                        *)
THEOREM Invariance == Spec => []IInv
<1>1. IInv /\ [Next]_vars => IInv'
  <2> SUFFICES ASSUME IInv, [Next]_vars PROVE IInv'
    BY Zenon
  <2>1. CASE Next
    BY <2>1, TypeStep, RingStep, HeldStep, EndsStep, SleepersStep, Zenon DEF IInv
  <2>2. CASE UNCHANGED vars
    BY <2>2 DEF IInv, TypeOK, Ring, Held, Ends, Sleepers, Full, Empty,
           vars, pipe
  <2> QED
    BY <2>1, <2>2, Zenon
<1> QED
  BY <1>1, InitIInv, PTL DEF Spec

(* pipewrite(), piperead(): bytes come out in the order in which they went *)
(* in, for every PIPESIZE that divides the range of the counters.          *)
THEOREM BytesInOrder == Spec => []Fifo
<1>1. IInv => Fifo
  <2> SUFFICES ASSUME IInv PROVE taken = SubSeq(sent, 1, Len(taken))
    BY Zenon DEF Fifo
  <2>1. /\ Len(taken) \in Nat /\ Len(sent) \in Nat /\ Len(taken) <= Len(sent)
        /\ \A k \in 1 .. Len(sent) : sent[k] = k
        /\ \A k \in 1 .. Len(taken) : taken[k] = k
        /\ taken \in Seq(Byte)
    BY Parts DEF TypeOK, Ring
  <2>2. \A k \in 1 .. Len(taken) : taken[k] = sent[k]
    BY <2>1
  <2> QED
    BY <2>1, <2>2
<1> QED
  BY <1>1, Invariance, PTL

(* pipewrite(): the ring never holds more than PIPESIZE bytes, and the     *)
(* test for a full pipe is exact although the counters wrap around.        *)
THEOREM FullIsExact ==
  Spec => [](/\ Len(sent) - Len(taken) <= PIPESIZE
             /\ Full <=> Len(sent) - Len(taken) = PIPESIZE)
<1>1. ASSUME IInv
      PROVE  /\ Len(sent) - Len(taken) <= PIPESIZE
             /\ Full <=> Len(sent) - Len(taken) = PIPESIZE
  <2>1. /\ Len(sent) \in Nat /\ Len(taken) \in Nat /\ Len(sent) <= Len(taken) + PIPESIZE
        /\ Full <=> Len(sent) = Len(taken) + PIPESIZE
    BY <1>1, Counters, Parts DEF TypeOK, Ring
  <2> QED
    BY <2>1, PipeConstants
<1> QED
  BY <1>1, Invariance, PTL

(* pipewrite(), piperead(), pipeclose(): no sleeper misses its wakeup, the *)
(* reader beside a killed writer excepted.                                 *)
THEOREM NoWakeupIsLost == Spec => []NoLostWakeup
<1>1. IInv => NoLostWakeup
  <2>1. Free \notin Procs /\ Procs = Writers \cup Readers
    BY PipeConstants, Zenon DEF Procs
  <2> QED
    BY <2>1, Parts, Zenon DEF Held, Sleepers, NoLostWakeup
<1> QED
  BY <1>1, Invariance, PTL

(* pipeclose(): a freed pipe is in nobody's hands.                         *)
THEOREM FreedIsUnused == Spec => []FreedUnused
<1>1. IInv => FreedUnused
  <2> SUFFICES ASSUME IInv, freed PROVE fds = {} /\ \A p \in Procs : pc[p] = "idle"
    BY Zenon DEF FreedUnused
  <2>1. fds = {}
    BY Parts, Zenon DEF TypeOK, Ends, Procs
  <2> QED
    BY <2>1, Parts, Zenon DEF Ends
<1> QED
  BY <1>1, Invariance, PTL
=============================================================================
