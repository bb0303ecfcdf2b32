------------------------------ MODULE Console -------------------------------
(***************************************************************************)
(* The console, kernel/console.c, and the serial line under it,            *)
(* kernel/uart.c: readers, writers and the interrupt handler share cons    *)
(* under cons.lock and the transmit ring under uart_tx_lock, beside a UART *)
(* that receives, sends and interrupts.  The indices of cons are uints     *)
(* that wrap.                                                              *)
(***************************************************************************)
EXTENDS Integers, Sequences

CONSTANTS Readers, Writers,
          INPUT_BUF, UART_TX_BUF_SIZE,
          UINT,                           \* number of values of a uint
          Chars,
          NL, CR, NUL, EOF, ERASE, KILL, DUMP, \* '\n', '\r', 0, ^D, ^H or '\x7f', ^U, ^P
          NoHolder

ASSUME BufAssumption ==
  /\ INPUT_BUF \in Nat \ {0} /\ UART_TX_BUF_SIZE \in Nat \ {0}
  /\ UINT \in Nat /\ \E k \in 2 .. UINT : UINT = k * INPUT_BUF
ASSUME CharAssumption ==
  /\ {NL, CR, NUL, EOF, ERASE, KILL, DUMP} \subseteq Chars
  /\ NL # EOF /\ CR \notin {NL, EOF} /\ NUL \notin {NL, CR, EOF}
  /\ ERASE # KILL /\ DUMP \notin {ERASE, KILL} /\ {NL, CR, NUL, EOF} \cap {ERASE, KILL, DUMP} = {}

VARIABLES
  cons,         \* [buf, r, w, e]
  text, line,   \* what was typed: whole lines not yet read, the line being edited (history)
  conslock,     \* the writer that holds cons.lock over uartputc(), or NoHolder
  rd, killed,   \* rd[p]: [pc, n, got, bad, reads]
  wr,           \* wr[p]: the characters write() has yet to put out
  tx,           \* the transmit ring: [buf, w, r]
  out, put,     \* sent by the UART, handed to uartputc() (history)
  thrIdle, rx, typed,  \* LSR_TX_IDLE, the receive FIFO, the keys still to come
  uirq, uintr,         \* interrupt pending; uartintr() in progress
  schedPanic           \* sched() was called with a lock held

consVars == <<cons, text, line, conslock, rd, killed, wr, tx, out, put, thrIdle, rx, typed,
              uirq, uintr, schedPanic>>

ConsInit(reads, writes, keys) ==
  /\ cons = [buf |-> [i \in 0 .. INPUT_BUF - 1 |-> NL], r |-> 0, w |-> 0, e |-> 0]
  /\ text = <<>> /\ line = <<>>
  /\ conslock = NoHolder
  /\ rd = [p \in Readers |-> [pc |-> "idle", n |-> 0, got |-> <<>>, bad |-> FALSE, reads |-> reads[p]]]
  /\ killed = {}
  /\ wr = writes
  /\ tx = [buf |-> [i \in 0 .. UART_TX_BUF_SIZE - 1 |-> NL], w |-> 0, r |-> 0]
  /\ out = <<>> /\ put = <<>>
  /\ thrIdle = TRUE /\ rx = <<>> /\ typed = keys
  /\ uirq = FALSE /\ uintr = FALSE /\ schedPanic = FALSE

-----------------------------------------------------------------------------
Plus(i, k) == (i + k) % UINT
Dist(i, j) == (j - i) % UINT
Window(i, j) == [k \in 1 .. Dist(i, j) |-> cons.buf[Plus(i, k - 1) % INPUT_BUF]]

(* Variant: a newline does not end the copy.                               *)
CopiesPastLine(s, n, k) == k = IF Len(s) < n THEN Len(s) ELSE n

(* One pass over the buffer copies k characters: up to n, up to and with a *)
(* newline, up to and without a ^D.                                        *)
Copies(s, n, k) ==
  /\ k <= n
  /\ \A i \in 1 .. k : s[i] # EOF /\ (s[i] = NL => i = k)
  /\ k < n /\ k < Len(s) => s[k + 1] = EOF \/ (k > 0 /\ s[k] = NL)

(* Variant: a ^D met after some characters is consumed with them.          *)
EofTakenAlways(got) == 1

(* A ^D after some characters is put back (cons.r--) for the next read.    *)
EofTaken(got) == IF got = <<>> THEN 1 ELSE 0

Return(p) == [rd[p] EXCEPT !.pc = "idle"]

(* consoleread() while it holds the lock: it returns, or finds the buffer  *)
(* empty and returns -1 if killed, or sleeps.                              *)
Pass(p, k) ==
  LET s == Window(cons.r, cons.w)
      got == rd[p].got \o SubSeq(s, 1, k)
      eof == k < rd[p].n /\ k < Len(s) /\ s[k + 1] = EOF
      more == k < rd[p].n /\ ~eof /\ ~(k > 0 /\ s[k] = NL)
      taken == IF rd[p].bad /\ k > 0 THEN 1 ELSE k + (IF eof THEN EofTaken(got) ELSE 0)
      reader == IF rd[p].bad /\ k > 0 THEN Return(p)
                ELSE [rd[p] EXCEPT !.pc = IF more /\ p \notin killed THEN "sleep" ELSE "idle",
                                   !.n = @ - k, !.got = got]
  IN  /\ Copies(s, rd[p].n, k)
      /\ cons' = [cons EXCEPT !.r = Plus(@, taken)]
      /\ text' = SubSeq(text, taken + 1, Len(text))
      /\ rd' = [rd EXCEPT ![p] = reader]

consoleread(p) ==
  /\ rd[p].pc = "start" /\ conslock = NoHolder
  /\ \E k \in 0 .. Len(Window(cons.r, cons.w)) : Pass(p, k)
  /\ UNCHANGED <<line, conslock, killed, wr, tx, out, put, thrIdle, rx, typed, uirq, uintr, schedPanic>>

read_call(p) ==
  /\ rd[p].pc = "idle" /\ rd[p].reads # <<>> /\ p \notin killed
  /\ \E job \in {Head(rd[p].reads)} :
       rd' = [rd EXCEPT ![p] = [pc |-> "start", n |-> job.n, got |-> <<>>, bad |-> job.bad,
                                reads |-> Tail(rd[p].reads)]]
  /\ UNCHANGED <<cons, text, line, conslock, killed, wr, tx, out, put, thrIdle, rx, typed, uirq,
                 uintr, schedPanic>>

(* Variant: nobody is woken.                                               *)
WakeNoReader(r) == r

(* wakeup(&cons.r)                                                         *)
WakeReaders(r) == [p \in Readers |-> IF r[p].pc = "sleep" THEN [r[p] EXCEPT !.pc = "start"] ELSE r[p]]

cons_kill(p) ==
  /\ p \notin killed /\ rd[p].pc # "idle"
  /\ killed' = killed \cup {p}
  /\ rd' = [rd EXCEPT ![p].pc = "start"]
  /\ UNCHANGED <<cons, text, line, conslock, wr, tx, out, put, thrIdle, rx, typed, uirq, uintr,
                 schedPanic>>

-----------------------------------------------------------------------------
(* consoleintr(c): edit the line, or store the character if there is room, *)
(* and hand over the line when it is complete or the buffer is full.  The  *)
(* echo waits for the transmitter, then keeps it busy.                     *)
Erase(k) ==
  /\ cons' = [cons EXCEPT !.e = Plus(@, -k)]
  /\ line' = SubSeq(line, 1, Len(line) - k)
  /\ k > 0 => thrIdle
  /\ thrIdle' = (k = 0 /\ thrIdle)
  /\ UNCHANGED <<text, rd>>

(* Variant: one character too many.                                        *)
RoomForOneMore == Dist(cons.r, cons.e) <= INPUT_BUF

Room == Dist(cons.r, cons.e) < INPUT_BUF

(* Variant: only a newline or ^D hands over the line.                      *)
CompleteLine(c, e) == c \in {NL, EOF}

Complete(c, e) == c \in {NL, EOF} \/ e = Plus(cons.r, INPUT_BUF)

Store(c, e) ==
  /\ cons' = [buf |-> [cons.buf EXCEPT ![cons.e % INPUT_BUF] = c], r |-> cons.r, e |-> e,
              w |-> IF Complete(c, e) THEN e ELSE cons.w]
  /\ IF c \in {NL, EOF} \/ Len(text \o line) + 1 = INPUT_BUF
     THEN text' = text \o Append(line, c) /\ line' = <<>>
     ELSE line' = Append(line, c) /\ UNCHANGED text
  /\ rd' = IF Complete(c, e) THEN WakeReaders(rd) ELSE rd
  /\ thrIdle /\ thrIdle' = FALSE

(* ^U erases k characters of the edited line s: to its start or a newline. *)
Kills(s, k) ==
  /\ \A i \in Len(s) - k + 1 .. Len(s) : s[i] # NL
  /\ k < Len(s) => s[Len(s) - k] = NL

(* ^P only prints, character by character like the echo.                   *)
procdump == thrIdle /\ thrIdle' = FALSE /\ UNCHANGED <<cons, text, line, rd>>

Stored(c) == IF c = CR THEN NL ELSE c

consoleintr(c) ==
  /\ conslock = NoHolder
  /\ CASE c = DUMP -> procdump
       [] c = KILL -> \E k \in 0 .. Dist(cons.w, cons.e) : Kills(Window(cons.w, cons.e), k) /\ Erase(k)
       [] c = ERASE -> Erase(IF cons.e # cons.w THEN 1 ELSE 0)
       [] c \notin {DUMP, KILL, ERASE, NUL} /\ Room -> Store(Stored(c), Plus(cons.e, 1))
       [] OTHER -> UNCHANGED <<cons, text, line, rd, thrIdle>>

(* The n oldest characters of the transmit ring.                           *)
Queue(t, n) == [k \in 1 .. n |-> t.buf[(t.r + (k - 1)) % UART_TX_BUF_SIZE]]

(* uartstart(): give the UART the oldest character of the ring if it is    *)
(* idle, and the next one each time it has sent the last, and interrupted, *)
(* before the loop comes around.  wakeup(&uart_tx_r) finds nobody: where a *)
(* writer would sleep, sched() panics.                                     *)
uartstart(t) ==
  \E k \in 0 .. (t.w - t.r) % UART_TX_BUF_SIZE :
    /\ k = 0 <=> t.w = t.r \/ ~thrIdle
    /\ tx' = [t EXCEPT !.r = (@ + k) % UART_TX_BUF_SIZE]
    /\ out' = out \o Queue(t, k)
    /\ thrIdle' = (thrIdle /\ k = 0)
    /\ uirq' = (uirq \/ k > 1)

(* devintr() has claimed UART0_IRQ: uartintr() takes what was received ... *)
uart_begin ==
  /\ uirq /\ ~uintr
  /\ uintr' = TRUE /\ uirq' = FALSE
  /\ UNCHANGED <<cons, text, line, conslock, rd, killed, wr, tx, out, put, thrIdle, rx, typed, schedPanic>>

uart_char ==
  /\ uintr /\ rx # <<>>
  /\ consoleintr(Head(rx))
  /\ rx' = Tail(rx)
  /\ UNCHANGED <<conslock, killed, wr, tx, out, put, typed, uirq, uintr, schedPanic>>

(* Variant: the handler does not look at the transmit ring.                *)
Resend(t) == tx' = t /\ UNCHANGED <<out, thrIdle, uirq>>

Restart(t) == uartstart(t)

(* ... and sends what waits.                                               *)
uart_end ==
  /\ uintr /\ rx = <<>>
  /\ Restart(tx)
  /\ uintr' = FALSE
  /\ UNCHANGED <<cons, text, line, conslock, rd, killed, wr, put, rx, typed, schedPanic>>

uartintr == uart_begin \/ uart_char \/ uart_end

(* consolewrite() holds cons.lock while uartputc() puts out each character *)
(* of the caller's; where the ring is full uartputc() sleeps, and sched()  *)
(* panics because cons.lock is still held.                                 *)
write_begin(p) ==
  /\ conslock = NoHolder /\ wr[p] # <<>>
  /\ conslock' = p
  /\ UNCHANGED <<cons, text, line, rd, killed, wr, tx, out, put, thrIdle, rx, typed, uirq, uintr, schedPanic>>

(* Variant: the ring may be filled to the last place.                      *)
FullAtLast == FALSE

Full == (tx.w + 1) % UART_TX_BUF_SIZE = tx.r

uartputc(p) ==
  /\ conslock = p /\ wr[p] # <<>>
  /\ IF Full
     THEN schedPanic' = TRUE /\ UNCHANGED <<wr, tx, out, put, thrIdle, uirq>>
     ELSE /\ uartstart([buf |-> [tx.buf EXCEPT ![tx.w] = Head(wr[p])],
                        w |-> (tx.w + 1) % UART_TX_BUF_SIZE, r |-> tx.r])
          /\ put' = Append(put, Head(wr[p]))
          /\ wr' = [wr EXCEPT ![p] = Tail(@)]
          /\ UNCHANGED schedPanic
  /\ UNCHANGED <<cons, text, line, conslock, rd, killed, rx, typed, uintr>>

write_end(p) ==
  /\ conslock = p /\ wr[p] = <<>>
  /\ conslock' = NoHolder
  /\ UNCHANGED <<cons, text, line, rd, killed, wr, tx, out, put, thrIdle, rx, typed, uirq, uintr, schedPanic>>

(* The UART (external): a key arrives, a character is sent.                *)
uart_rx ==
  /\ typed # <<>>
  /\ rx' = Append(rx, Head(typed)) /\ typed' = Tail(typed)
  /\ uirq' = TRUE
  /\ UNCHANGED <<cons, text, line, conslock, rd, killed, wr, tx, out, put, thrIdle, uintr, schedPanic>>

uart_sent ==
  /\ ~thrIdle
  /\ thrIdle' = TRUE /\ uirq' = TRUE
  /\ UNCHANGED <<cons, text, line, conslock, rd, killed, wr, tx, out, put, rx, typed, uintr, schedPanic>>

ConsNext ==
  /\ ~schedPanic
  /\ \/ \E p \in Readers : read_call(p) \/ consoleread(p) \/ cons_kill(p)
     \/ \E p \in Writers : write_begin(p) \/ uartputc(p) \/ write_end(p)
     \/ uartintr \/ uart_rx \/ uart_sent

-----------------------------------------------------------------------------
(* The ring and its three wrapping indices are the plain sequences of what *)
(* was typed: the unread lines between r and w, the edited line between w  *)
(* and e, nothing lost, overwritten or handed over half edited             *)
(* (consoleintr(), consoleread()).                                         *)
LineBuffer ==
  /\ Window(cons.r, cons.w) = text
  /\ Window(cons.w, cons.e) = line
  /\ Len(text) + Len(line) <= INPUT_BUF

(* A buffer full of a line without newline can still be read: the console  *)
(* never refuses keys and readers at once (consoleintr() hands over a full *)
(* buffer).                                                                *)
FullReadable == ~Room => cons.r # cons.w

(* A reader sleeps on cons.r only while there is nothing to read           *)
(* (wakeup(&cons.r) is not lost).                                          *)
ReadersWait == \A p \in Readers : rd[p].pc = "sleep" => cons.r = cons.w /\ p \notin killed

(* What a read returns is at most one line: a newline only at its end and  *)
(* no ^D (consoleread()).                                                  *)
OneLine ==
  \A p \in Readers : \A i \in 1 .. Len(rd[p].got) :
    rd[p].got[i] # EOF /\ (rd[p].got[i] = NL => i = Len(rd[p].got))

(* A ^D is read alone: the read that takes it returns 0 bytes, so that the *)
(* caller sees the end of file (consoleread() saves a ^D that follows      *)
(* characters for the next read).                                          *)
EofAlone ==
  [][(\E i \in 1 .. Len(text) - Len(text') : text[i] = EOF)
       => \E p \in Readers : rd[p].pc = "start" /\ rd'[p].pc = "idle" /\ rd'[p].got = <<>>]_consVars

(* The characters of write() leave the UART in the order they were put in  *)
(* and none is lost between the ring and uartstart(), which runs from both *)
(* uartputc() and uartintr().                                              *)
TxFifo == put = out \o Queue(tx, (tx.w - tx.r) % UART_TX_BUF_SIZE)

(* What waits in the transmit ring is sent without another write(): the    *)
(* transmitter is busy and will interrupt, or the interrupt that restarts  *)
(* it is on its way (uartstart(), uartintr()).                             *)
TxRestarts == tx.w # tx.r => ~thrIdle \/ uirq \/ uintr

(* "blocks if the output buffer is full" (uart.c:80): write() waits, the   *)
(* kernel does not panic.                                                  *)
PutcBlocks == ~schedPanic

(* consoleread(), consoleintr(), uartputc(), uartstart(): what is typed is *)
(* read, line by line, and what is written is sent, in order and once, and *)
(* nobody waits beside it.                                                 *)
ConsoleExact == LineBuffer /\ OneLine /\ TxFifo /\ ReadersWait /\ FullReadable /\ TxRestarts

-----------------------------------------------------------------------------
(* The inductive invariant.                                                *)

Reads == [n : Nat, bad : BOOLEAN]
RdRecs == [pc : {"idle", "start", "sleep"}, n : Nat, got : Seq(Chars), bad : BOOLEAN, reads : Seq(Reads)]
Uint == 0 .. UINT - 1
TxPlaces == 0 .. UART_TX_BUF_SIZE - 1

(* cons, the transmit ring and the locals of the calls keep their types.   *)
ConsTypeOK ==
  /\ cons \in [buf : [0 .. INPUT_BUF - 1 -> Chars], r : Uint, w : Uint, e : Uint]
  /\ text \in Seq(Chars) /\ line \in Seq(Chars)
  /\ rd \in [Readers -> RdRecs] /\ wr \in [Writers -> Seq(Chars)]
  /\ tx \in [buf : [TxPlaces -> Chars], w : TxPlaces, r : TxPlaces]
  /\ out \in Seq(Chars) /\ put \in Seq(Chars) /\ rx \in Seq(Chars) /\ typed \in Seq(Chars)

(* A read that goes on has met neither a newline nor a ^D.                 *)
ReadsOn == \A p \in Readers : rd[p].pc # "idle" => \A i \in 1 .. Len(rd[p].got) : rd[p].got[i] # NL

(* A full buffer has been handed over.                                     *)
Handed == Len(text) + Len(line) = INPUT_BUF => text # <<>>

ConsInv == ConsTypeOK /\ LineBuffer /\ OneLine /\ ReadsOn /\ Handed /\ TxFifo /\ ReadersWait /\ TxRestarts
=============================================================================
