-------------------------------- MODULE Pipe --------------------------------
(***************************************************************************)
(* One pipe (kernel/pipe.c) between processes that hold its write end and  *)
(* processes that hold its read end.  pi->lock is held from the start of a *)
(* call to its return or to sleep(); kill() does not take it and may come  *)
(* between any two steps, the check of killed and the sleep included.      *)
(***************************************************************************)
EXTENDS Integers, Sequences

CONSTANTS Writers, Readers,   \* the processes with an open end, disjoint
          PIPESIZE,
          UINT,        \* number of values of the counters nread and nwrite
          Sizes,       \* the arguments n of the calls, 1 among them
          MaxBytes,    \* bound: bytes written to the pipe
          Killable,    \* processes that kill() is called on
          CopyFails,   \* whether copyin() and copyout() may fail
          Free         \* not a process: pi->lock is free

Procs == Writers \cup Readers
Byte == 1 .. MaxBytes         \* a byte is its place in the stream

ASSUME PipeConstants ==
  /\ Writers \cap Readers = {} /\ Free \notin Procs
  /\ Writers # {} /\ Readers # {}
  /\ PIPESIZE \in Nat \ {0} /\ UINT \in Nat /\ UINT % PIPESIZE = 0 /\ UINT > PIPESIZE
  /\ Sizes \subseteq Nat \ {0} /\ 1 \in Sizes /\ MaxBytes \in Nat
  /\ Killable \subseteq Procs /\ CopyFails \in BOOLEAN

VARIABLES
  data, nread, nwrite, readopen, writeopen,   \* struct pipe
  freed,      \* kfree(pi) has been called
  lock,       \* the holder of pi->lock
  fds,        \* the processes that have not closed their end
  killed,
  pc, n, i,   \* the argument n and the counter i of p's call
  sent,       \* bytes put into the pipe, a history variable
  taken       \* bytes taken out of it, a history variable

pipe == <<data, nread, nwrite, readopen, writeopen, freed>>
vars == <<pipe, lock, fds, killed, pc, n, i, sent, taken>>

(* struct pipe: the wrapping counters, the ring and the locals of          *)
(* pipewrite() and piperead() keep their types.                            *)
TypeOK ==
  /\ data \in [0 .. PIPESIZE - 1 -> Byte \cup {0}]
  /\ nread \in 0 .. UINT - 1 /\ nwrite \in 0 .. UINT - 1
  /\ readopen \in BOOLEAN /\ writeopen \in BOOLEAN /\ freed \in BOOLEAN
  /\ lock \in Procs \cup {Free}
  /\ fds \subseteq Procs
  /\ killed \in [Procs -> BOOLEAN]
  /\ pc \in [Procs -> {"idle", "acquire", "loop", "sleep", "asleep", "copy", "done"}]
  /\ n \in [Procs -> Sizes \cup {0}] /\ i \in [Procs -> Nat] /\ \A p \in Procs : i[p] <= n[p]
  /\ sent \in Seq(Byte) /\ taken \in Seq(Byte)

(* pipealloc(), then fork() of the processes that share the ends.          *)
Init ==
  /\ data = [k \in 0 .. PIPESIZE - 1 |-> 0]
  /\ nread = 0 /\ nwrite = 0
  /\ readopen = TRUE /\ writeopen = TRUE /\ freed = FALSE
  /\ lock = Free
  /\ fds = Procs
  /\ killed = [p \in Procs |-> FALSE]
  /\ pc = [p \in Procs |-> "idle"]
  /\ n = [p \in Procs |-> 0] /\ i = [p \in Procs |-> 0]
  /\ sent = <<>> /\ taken = <<>>

-----------------------------------------------------------------------------
Goto(p, l) == pc' = [pc EXCEPT ![p] = l]
(* Variant: full one byte too late.                                        *)
FullLate == nwrite = (nread + PIPESIZE + 1) % UINT

Full == nwrite = (nread + PIPESIZE) % UINT
Empty == nread = nwrite

(* wakeup(chan) while p goes on to l: the readers sleep on &pi->nread, the *)
(* writers on &pi->nwrite; a woken process reacquires pi->lock.            *)
WakeAndGoto(Sleepers, p, l) ==
  pc' = [q \in Procs |-> IF q = p THEN l
                         ELSE IF q \in Sleepers /\ pc[q] = "asleep" THEN "acquire"
                         ELSE pc[q]]

(* read() or write() of m bytes reaches piperead() or pipewrite().         *)
Call(p, m) ==
  /\ pc[p] = "idle" /\ p \in fds /\ ~killed[p]
  /\ n' = [n EXCEPT ![p] = m]
  /\ Goto(p, "acquire")
  /\ UNCHANGED <<pipe, lock, fds, killed, i, sent, taken>>

Acquire(p) ==
  /\ pc[p] = "acquire" /\ lock = Free
  /\ lock' = p
  /\ Goto(p, "loop")
  /\ UNCHANGED <<pipe, fds, killed, n, i, sent, taken>>

(* release(&pi->lock) and return; the locals are dead from here on.        *)
Return(p) ==
  /\ lock' = Free
  /\ n' = [n EXCEPT ![p] = 0]
  /\ i' = [i EXCEPT ![p] = 0]
  /\ UNCHANGED <<pipe, fds, killed, sent, taken>>

(* Return without a wakeup: the reader is gone, or p was killed.           *)
Fail(p) == Return(p) /\ Goto(p, "idle")

(* release(&pi->lock) and SLEEPING, in sleep().                            *)
Sleep(p) ==
  /\ pc[p] = "sleep"
  /\ lock' = Free
  /\ Goto(p, "asleep")
  /\ UNCHANGED <<pipe, fds, killed, n, i, sent, taken>>

-----------------------------------------------------------------------------
(* Variant: the readers are not woken.                                     *)
WriteFullQuietly(p) ==
  /\ p \in Writers /\ pc[p] = "loop" /\ i[p] < n[p] /\ Full
  /\ \/ (~readopen \/ killed[p]) /\ Fail(p)
     \/ /\ readopen /\ ~killed[p]
        /\ Goto(p, "sleep")
        /\ UNCHANGED <<pipe, lock, fds, killed, n, i, sent, taken>>

(* pipewrite(): a full pipe, ...                                           *)
WriteFull(p) ==
  /\ p \in Writers /\ pc[p] = "loop" /\ i[p] < n[p] /\ Full
  /\ \/ (~readopen \/ killed[p]) /\ Fail(p)
     \/ /\ readopen /\ ~killed[p]
        /\ WakeAndGoto(Readers, p, "sleep")
        /\ UNCHANGED <<pipe, lock, fds, killed, n, i, sent, taken>>

(* ... one byte, ...                                                       *)
WriteByte(p) ==
  /\ p \in Writers /\ pc[p] = "loop" /\ i[p] < n[p] /\ ~Full
  /\ Len(sent) < MaxBytes
  /\ data' = [data EXCEPT ![nwrite % PIPESIZE] = Len(sent) + 1]
  /\ sent' = Append(sent, Len(sent) + 1)
  /\ nwrite' = (nwrite + 1) % UINT
  /\ i' = [i EXCEPT ![p] = @ + 1]
  /\ UNCHANGED <<nread, readopen, writeopen, freed, lock, fds, killed, pc, n, taken>>

(* ... and the end, after n bytes or a byte that copyin() cannot read.     *)
WriteDone(p) ==
  /\ p \in Writers /\ pc[p] = "loop"
  /\ i[p] = n[p] \/ (CopyFails /\ ~Full) \/ (Len(sent) = MaxBytes /\ ~Full)
  /\ WakeAndGoto(Readers, p, "idle")
  /\ Return(p)

-----------------------------------------------------------------------------
(* piperead(): an empty pipe that can still be written to, ...             *)
ReadEmpty(p) ==
  /\ p \in Readers /\ pc[p] = "loop" /\ Empty /\ writeopen
  /\ \/ killed[p] /\ Fail(p)
     \/ /\ ~killed[p]
        /\ Goto(p, "sleep")
        /\ UNCHANGED <<pipe, lock, fds, killed, n, i, sent, taken>>

ReadStart(p) ==
  /\ p \in Readers /\ pc[p] = "loop" /\ (~Empty \/ ~writeopen)
  /\ Goto(p, "copy")
  /\ UNCHANGED <<pipe, lock, fds, killed, n, i, sent, taken>>

(* Variant: the next byte is taken.                                        *)
ReadByteAhead(p) ==
  /\ pc[p] = "copy" /\ i[p] < n[p] /\ ~Empty
  /\ taken' = Append(taken, data[(nread + 1) % PIPESIZE])
  /\ nread' = (nread + 1) % UINT
  /\ i' = [i EXCEPT ![p] = @ + 1]
  /\ UNCHANGED <<data, nwrite, readopen, writeopen, freed, lock, fds, killed, pc, n, sent>>

(* ... one byte, which is gone from the pipe also when copyout() fails,    *)
(* ...                                                                     *)
ReadByte(p) ==
  /\ pc[p] = "copy" /\ i[p] < n[p] /\ ~Empty
  /\ taken' = Append(taken, data[nread % PIPESIZE])
  /\ nread' = (nread + 1) % UINT
  /\ \/ i' = [i EXCEPT ![p] = @ + 1] /\ UNCHANGED pc
     \/ CopyFails /\ Goto(p, "done") /\ UNCHANGED i
  /\ UNCHANGED <<data, nwrite, readopen, writeopen, freed, lock, fds, killed, n, sent>>

(* ... and the end.                                                        *)
ReadDone(p) ==
  /\ pc[p] = "done" \/ (pc[p] = "copy" /\ (i[p] = n[p] \/ Empty))
  /\ WakeAndGoto(Writers, p, "idle")
  /\ Return(p)

-----------------------------------------------------------------------------
(* Variants: pipeclose() frees a pipe whose other end is open; it wakes    *)
(* nobody.                                                                 *)
CloseFrees(p) ==
  /\ pc[p] = "idle" /\ p \in fds /\ lock = Free
  /\ fds' = fds \ {p}
  /\ freed' = (fds' \cap Writers = {} \/ fds' \cap Readers = {})
  /\ writeopen' = (fds' \cap Writers # {})
  /\ readopen' = (fds' \cap Readers # {})
  /\ WakeAndGoto(IF p \in Writers THEN Readers ELSE Writers, p, "idle")
  /\ UNCHANGED <<data, nread, nwrite, lock, killed, n, i, sent, taken>>

CloseQuietly(p) ==
  /\ pc[p] = "idle" /\ p \in fds /\ lock = Free
  /\ fds' = fds \ {p}
  /\ writeopen' = (fds' \cap Writers # {})
  /\ readopen' = (fds' \cap Readers # {})
  /\ freed' = (fds' = {})
  /\ UNCHANGED <<data, nread, nwrite, lock, killed, pc, n, i, sent, taken>>

(* close(), by the program or by exit(); the last holder of an end calls   *)
(* pipeclose(), which wakes the other end and frees a pipe closed twice.   *)
Close(p) ==
  /\ pc[p] = "idle" /\ p \in fds /\ lock = Free
  /\ fds' = fds \ {p}
  /\ \/ /\ fds' \cap (IF p \in Writers THEN Writers ELSE Readers) # {}
        /\ UNCHANGED <<pipe, pc>>
     \/ /\ p \in Writers /\ fds' \cap Writers = {}
        /\ writeopen' = FALSE
        /\ freed' = ~readopen
        /\ WakeAndGoto(Readers, p, "idle")
        /\ UNCHANGED <<data, nread, nwrite, readopen>>
     \/ /\ p \in Readers /\ fds' \cap Readers = {}
        /\ readopen' = FALSE
        /\ freed' = ~writeopen
        /\ WakeAndGoto(Writers, p, "idle")
        /\ UNCHANGED <<data, nread, nwrite, writeopen>>
  /\ UNCHANGED <<lock, killed, n, i, sent, taken>>

(* kill(): p->killed, and RUNNABLE if p is SLEEPING.                       *)
Kill(p) ==
  /\ p \in Killable /\ ~killed[p]
  /\ killed' = [killed EXCEPT ![p] = TRUE]
  /\ Goto(p, IF pc[p] = "asleep" THEN "acquire" ELSE pc[p])
  /\ UNCHANGED <<pipe, lock, fds, n, i, sent, taken>>

pipewrite(p) == WriteFull(p) \/ WriteByte(p) \/ WriteDone(p)
piperead(p) == ReadEmpty(p) \/ ReadStart(p) \/ ReadByte(p) \/ ReadDone(p)
InCall(p) == Acquire(p) \/ Sleep(p) \/ pipewrite(p) \/ piperead(p)

Next == \E p \in Procs : \/ \E m \in Sizes : Call(p, m)
                         \/ InCall(p) \/ Close(p) \/ Kill(p)

Spec == Init /\ [][Next]_vars

-----------------------------------------------------------------------------
(* Properties.                                                             *)

(* pipewrite(), piperead(): the bytes come out in the order in which they  *)
(* went in, none twice, none skipped, also when the counters wrap around.  *)
Fifo == taken = SubSeq(sent, 1, Len(taken))

(* pipewrite(): the counters tell how many bytes are in the ring, and the  *)
(* ring never holds more than PIPESIZE.                                    *)
Occupancy ==
  /\ (nwrite - nread) % UINT = Len(sent) - Len(taken)
  /\ Len(sent) - Len(taken) <= PIPESIZE

(* pipewrite(), piperead(), pipeclose(): while nobody is inside a call, a  *)
(* writer sleeps only beside a full pipe with a read end, and a reader     *)
(* only beside an empty pipe with a write end.  The exception is a writer  *)
(* that was killed: it returns from a full pipe without wakeup(), and its  *)
(* bytes lie beside a sleeping reader until the next write or close.       *)
NoLostWakeup ==
  lock = Free =>
    /\ \A p \in Writers : pc[p] = "asleep" => Full /\ readopen
    /\ \A p \in Readers : pc[p] = "asleep" =>
         writeopen /\ (Empty \/ \E w \in Writers : killed[w])

(* pipeclose(): the pipe is freed only when no process is in a call or     *)
(* will ever make one.                                                     *)
FreedUnused == freed => fds = {} /\ \A p \in Procs : pc[p] = "idle"

-----------------------------------------------------------------------------
(* The inductive invariant.                                                *)

(* The wrapping counters stand for the numbers of bytes; the ring holds    *)
(* the bytes sent and not taken, each at its place.                        *)
Ring ==
  /\ \A k \in 1 .. Len(sent) : sent[k] = k
  /\ \A k \in 1 .. Len(taken) : taken[k] = k
  /\ Len(taken) <= Len(sent) /\ Len(sent) <= Len(taken) + PIPESIZE
  /\ nwrite = Len(sent) % UINT /\ nread = Len(taken) % UINT
  /\ \A k \in Len(taken) + 1 .. Len(sent) : data[(k - 1) % PIPESIZE] = k

(* pi->lock is held in a call, except in sleep(); outside of a call the    *)
(* locals are dead.                                                        *)
Held ==
  /\ \A p \in Procs : pc[p] \in {"loop", "sleep", "copy", "done"} <=> lock = p
  /\ \A p \in Writers : pc[p] \notin {"copy", "done"}
  /\ \A p \in Procs : pc[p] = "idle" => n[p] = 0

(* The flags of the ends and the descriptors.                              *)
Ends ==
  /\ readopen <=> fds \cap Readers # {}
  /\ writeopen <=> fds \cap Writers # {}
  /\ freed <=> ~readopen /\ ~writeopen
  /\ \A p \in Procs : pc[p] # "idle" => p \in fds

(* What a sleeper waits for, or who has the lock and will call wakeup().   *)
Sleepers ==
  /\ \A p \in Writers : pc[p] = "sleep" => Full /\ readopen
  /\ \A p \in Readers : pc[p] = "sleep" => Empty /\ writeopen
  /\ \A p \in Writers : pc[p] = "asleep" =>
       readopen /\ (Full \/ \E r \in Readers : pc[r] \in {"copy", "done"})
  /\ \A p \in Readers : pc[p] = "asleep" =>
       /\ writeopen
       /\ Empty \/ (\E w \in Writers : killed[w]) \/ (\E w \in Writers : pc[w] = "loop")

(* pipewrite(), piperead(), pipeclose(): counters, ring, lock, flags and   *)
(* sleepers agree after any calls, closes and kills.                       *)
IInv == TypeOK /\ Ring /\ Held /\ Ends /\ Sleepers

(* Processes in a call run, and a free pi->lock is acquired in the end;    *)
(* readers read again and again; writers close their end in the end.       *)
Fairness ==
  /\ \A p \in Procs : SF_vars(InCall(p))
  /\ \A p \in Readers : SF_vars(Call(p, 1))
  /\ \A p \in Writers : SF_vars(Close(p))

FairSpec == Spec /\ Fairness

(* With readers that read and writers that close, every byte that is sent  *)
(* is taken, unless the readers close their end.                           *)
AllDelivered == <>[](taken = sent \/ ~readopen)

(* pipewrite(), piperead(): every call returns.                            *)
CallsReturn == \A p \in Procs : pc[p] # "idle" ~> pc[p] = "idle"
=============================================================================
