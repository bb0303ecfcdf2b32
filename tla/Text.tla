-------------------------------- MODULE Text --------------------------------
(***************************************************************************)
(* The string algorithms of the kernel and of the user programs, each      *)
(* beside a definition of what it should compute: the pattern matcher and  *)
(* the reading loop of user/grep.c, the path elements of kernel/fs.c, the  *)
(* copies and comparisons of kernel/string.c and user/ulib.c, the numbers  *)
(* of the two printf.c.  A string is a sequence of characters; its end is  *)
(* the NUL.  A state is one input; only grep() takes steps, one per read() *)
(* of as much as the file yields.                                          *)
(***************************************************************************)
EXTENDS Integers, Sequences, FiniteSets, SequencesExt

CONSTANTS Regexps, Texts,   \* patterns and lines for match()
          Files, BUFSIZE,   \* files for grep(), the size of its buffer
          Paths, DIRSIZ,    \* paths, the length of a name
          CELLS,            \* the size of the memory for memmove()
          INTS              \* the number of values of an int

VARIABLE txt   \* the input, and for grep() its progress

Drop(s, n) == SubSeq(s, n + 1, Len(s))
Seqs(S, n) == UNION {[1 .. k -> S] : k \in 0 .. n}

-----------------------------------------------------------------------------
(* Variant: ".*" repeats only a dot.                                       *)
RepeatsLiteral(c, t) == t # <<>> /\ c = t[1]

Repeats(c, t) == t # <<>> /\ c \in {t[1], "."}

(* matchhere() and matchstar(): re, or c*re, at the beginning of the text. *)
RECURSIVE matchhere(_, _)
RECURSIVE matchstar(_, _, _)
matchhere(re, t) ==
  \/ re = <<>>
  \/ Len(re) > 1 /\ re[2] = "*" /\ matchstar(re[1], Drop(re, 2), t)
  \/ re = <<"$">> /\ t = <<>>
  \/ /\ Len(re) > 0 /\ ~(Len(re) > 1 /\ re[2] = "*") /\ re # <<"$">>
     /\ t # <<>> /\ re[1] \in {".", t[1]}
     /\ matchhere(Tail(re), Tail(t))

matchstar(c, re, t) == matchhere(re, t) \/ (Repeats(c, t) /\ matchstar(c, re, Tail(t)))

match(re, t) ==
  IF re # <<>> /\ re[1] = "^" THEN matchhere(Tail(re), t)
  ELSE \E i \in 0 .. Len(t) : matchhere(re, Drop(t, i))

(* The items of a pattern, and what it means that they match: the text     *)
(* splits into consecutive pieces, one for each.                           *)
RECURSIVE Items(_)
Items(re) ==
  IF re = <<>> THEN <<>>
  ELSE IF Len(re) > 1 /\ re[2] = "*" THEN <<[c |-> re[1], star |-> TRUE]>> \o Items(Drop(re, 2))
  ELSE <<[c |-> re[1], star |-> FALSE]>> \o Items(Tail(re))

ItemMatches(item, piece) ==
  /\ item.star \/ Len(piece) = 1
  /\ item.c = "." \/ \A i \in 1 .. Len(piece) : piece[i] = item.c

Matches(re, t) ==
  LET anchored == re # <<>> /\ re[1] = "^"
      all == Items(IF anchored THEN Tail(re) ELSE re)
      toEnd == all # <<>> /\ Last(all) = [c |-> "$", star |-> FALSE]
      items == IF toEnd THEN Front(all) ELSE all
  IN  \E cut \in [0 .. Len(items) -> 0 .. Len(t)] :
        /\ anchored => cut[0] = 0
        /\ toEnd => cut[Len(items)] = Len(t)
        /\ \A i \in 1 .. Len(items) :
             cut[i - 1] <= cut[i] /\ ItemMatches(items[i], SubSeq(t, cut[i - 1] + 1, cut[i]))

-----------------------------------------------------------------------------
(* The complete lines of a text, and what follows the last.                *)
RECURSIVE Lines(_)
Lines(s) ==
  IF "nl" \notin Range(s) THEN <<>>
  ELSE LET i == CHOOSE i \in 1 .. Len(s) : s[i] = "nl" /\ \A j \in 1 .. i - 1 : s[j] # "nl"
       IN  <<SubSeq(s, 1, i - 1)>> \o Lines(Drop(s, i))
RECURSIVE Remainder(_)
Remainder(s) == IF "nl" \notin Range(s) THEN s ELSE Remainder(Tail(s))

(* Variant: what follows the last newline is dropped.                      *)
CarriedNot(s) == <<>>

(* The unfinished line is moved to the front of the buffer.                *)
Carried(s) == Remainder(s)

Selected(re, lines) == SelectSeq(lines, LAMBDA l : match(re, l))

(* One round of grep(): read() returns n bytes of what fits.               *)
grep(n) ==
  /\ txt.kind = "grep" /\ ~txt.done
  /\ n <= BUFSIZE - Len(txt.buf) - 1 /\ n <= Len(txt.rest)
  /\ \E s \in {txt.buf \o SubSeq(txt.rest, 1, n)} :
       txt' = [txt EXCEPT !.rest = Drop(@, n), !.buf = Carried(s),
                          !.out = @ \o Selected(txt.re, Lines(s))]

(* read() returns 0: at the end of the file, or when the buffer is full.   *)
grep_end ==
  /\ txt.kind = "grep" /\ ~txt.done
  /\ BUFSIZE - Len(txt.buf) - 1 = 0 \/ txt.rest = <<>>
  /\ txt' = [txt EXCEPT !.done = TRUE]

-----------------------------------------------------------------------------
(* Variant: the slashes after the element stay.                            *)
RestWithSlash(s) == s

RECURSIVE NoSlash(_)
NoSlash(s) == IF s # <<>> /\ s[1] = "/" THEN NoSlash(Tail(s)) ELSE s

Rest(s) == NoSlash(s)

ElemLen(s) == IF \E i \in 1 .. Len(s) : s[i] = "/"
              THEN (CHOOSE i \in 1 .. Len(s) : s[i] = "/" /\ \A j \in 1 .. i - 1 : s[j] # "/") - 1
              ELSE Len(s)

(* skipelem(): <<name, rest>>, or <<>> if there is no element.             *)
skipelem(path) ==
  LET s == NoSlash(path)
      len == ElemLen(s)
  IN  IF s = <<>> THEN <<>>
      ELSE <<SubSeq(s, 1, IF len >= DIRSIZ THEN DIRSIZ ELSE len), Rest(Drop(s, len))>>

(* What namex() walks: the elements, and for each whether it took it for   *)
(* the last one (nothing follows).                                         *)
RECURSIVE Walk(_)
Walk(path) ==
  LET r == skipelem(path)
  IN  IF r = <<>> THEN <<>> ELSE <<[name |-> r[1], last |-> r[2] = <<>>]>> \o Walk(r[2])

(* The maximal runs without a slash, in order.                             *)
Runs(path) ==
  {<<i, j>> \in (1 .. Len(path)) \X (1 .. Len(path)) :
     /\ i <= j /\ \A k \in i .. j : path[k] # "/"
     /\ i = 1 \/ path[i - 1] = "/"
     /\ j = Len(path) \/ path[j + 1] = "/"}
Elements(path) == SetToSortSeq(Runs(path), LAMBDA a, b : a[1] < b[1])

-----------------------------------------------------------------------------
(* Copying n bytes from s to d, upwards or downwards, one at a time.       *)
Upwards(m, d, s, n) == FoldLeft(LAMBDA a, i : [a EXCEPT ![d + i] = a[s + i]], m, [i \in 1 .. n |-> i - 1])
Downwards(m, d, s, n) == FoldLeft(LAMBDA a, i : [a EXCEPT ![d + i] = a[s + i]], m, [i \in 1 .. n |-> n - i])

(* Variant: always upwards.                                                *)
memmove_up(m, d, s, n) == Upwards(m, d, s, n)

(* memmove() of kernel/string.c and of user/ulib.c.                        *)
memmove(m, d, s, n) == IF s < d /\ s + n > d THEN Downwards(m, d, s, n) ELSE Upwards(m, d, s, n)
memmove_user(m, d, s, n) == IF s > d THEN Upwards(m, d, s, n) ELSE Downwards(m, d, s, n)

(* The characters of a string, and the NUL behind them.                    *)
At(s, i) == IF i <= Len(s) THEN s[i] ELSE "nul"

(* strncpy(): a field of n bytes, padded with NULs.                        *)
strncpy(t, n) == [i \in 1 .. n |-> At(t, i)]

(* Variant: the loop may copy n bytes.                                     *)
safestrcpy_all(s, t, n) == [i \in DOMAIN s |-> IF i <= n /\ i <= Len(t) + 2 THEN At(t, i) ELSE s[i]]

(* safestrcpy(): at most n - 1 bytes, up to and including the NUL, and a   *)
(* NUL after them; the rest of s stays.                                    *)
safestrcpy(s, t, n) ==
  LET k == IF n - 1 < Len(t) + 1 THEN n - 1 ELSE Len(t) + 1
  IN  IF n <= 0 THEN s
      ELSE [i \in DOMAIN s |-> IF i <= k THEN At(t, i) ELSE IF i = k + 1 THEN "nul" ELSE s[i]]

(* Variant: the comparison ignores n.                                      *)
strncmp_all(p, q, n) == \A i \in 1 .. Len(p) + Len(q) + 1 : At(p, i) = At(q, i)

(* strncmp() = 0: no difference before n bytes or a common end.            *)
strncmp(p, q, n) ==
  \A i \in 1 .. n : At(p, i) = At(q, i) \/ \E j \in 1 .. i - 1 : At(p, j) = "nul" /\ At(q, j) = "nul"

(* Digits, least significant first; do ... while prints a zero.            *)
(* Variant: while ... do.                                                  *)
RECURSIVE DigitsNone(_, _)
DigitsNone(x, base) == IF x = 0 THEN <<>> ELSE <<x % base>> \o DigitsNone(x \div base, base)

RECURSIVE Digits(_, _)
Digits(x, base) == <<x % base>> \o (IF x \div base = 0 THEN <<>> ELSE Digits(x \div base, base))

(* printint(): x = -xx in unsigned arithmetic.                             *)
printint(xx, base, sign) ==
  LET neg == sign /\ xx < 0
  IN  [neg |-> neg, digits |-> Reverse(Digits(IF neg THEN -xx ELSE xx % INTS, base))]

(* atoi() of digits.                                                       *)
atoi(ds) == FoldLeft(LAMBDA n, d : n * 10 + d, 0, ds)

-----------------------------------------------------------------------------
TextInit ==
  \/ \E re \in Regexps, t \in Texts : txt = [kind |-> "match", re |-> re, t |-> t]
  \/ \E f \in Files, re \in {<<"a">>, <<"^", "$">>} :
       txt = [kind |-> "grep", re |-> re, file |-> f, rest |-> f, buf |-> <<>>, out |-> <<>>, done |-> FALSE]
  \/ \E p \in Paths : txt = [kind |-> "path", path |-> p]
  \/ \E s, d \in 1 .. CELLS, n \in 0 .. CELLS :
       s + n <= CELLS + 1 /\ d + n <= CELLS + 1 /\ txt = [kind |-> "move", s |-> s, d |-> d, n |-> n]
  \/ \E x \in (-INTS) \div 2 .. INTS - 1 : x < INTS \div 2 /\ txt = [kind |-> "print", x |-> x]

TextNext == (\E n \in 1 .. BUFSIZE : grep(n)) \/ grep_end

(* match() finds a pattern of ^ . * $ exactly where one is: its recursion  *)
(* and its early returns agree with splitting the text among the items.    *)
MatchExact == txt.kind = "match" => (match(txt.re, txt.t) <=> Matches(txt.re, txt.t))

(* grep() prints exactly the complete lines that match, however read()     *)
(* cuts the file, and stops before the end only at a line that fills its   *)
(* buffer.                                                                 *)
GrepExact ==
  txt.kind = "grep" =>
    LET seen == SubSeq(txt.file, 1, Len(txt.file) - Len(txt.rest))
    IN  /\ txt.out = Selected(txt.re, Lines(seen))
        /\ txt.buf = Remainder(seen)
        /\ txt.done => txt.rest = <<>> \/ Len(Remainder(seen)) = BUFSIZE - 1

(* skipelem() walks the elements of a path one by one, truncated to DIRSIZ *)
(* bytes, and namex() takes only the last for the last, whatever slashes   *)
(* surround them.                                                          *)
PathSplit ==
  txt.kind = "path" =>
    \E runs \in {Elements(txt.path)} :
      Walk(txt.path) =
        [k \in 1 .. Len(runs) |->
           [name |-> SubSeq(txt.path, runs[k][1],
                            IF runs[k][2] - runs[k][1] >= DIRSIZ THEN runs[k][1] + DIRSIZ - 1 ELSE runs[k][2]),
            last |-> k = Len(runs)]]

(* Both memmove()s copy overlapping areas as if through a third.           *)
CopyExact ==
  txt.kind = "move" =>
    \E m \in {[i \in 1 .. CELLS |-> i]} :
      \A r \in {memmove(m, txt.d, txt.s, txt.n), memmove_user(m, txt.d, txt.s, txt.n)} :
        r = [i \in 1 .. CELLS |-> IF i \in txt.d .. txt.d + txt.n - 1 THEN txt.s + i - txt.d ELSE i]

(* A name written by dirlink() (strncpy()) is found again by dirlookup()   *)
(* (strncmp()), and only names with the same DIRSIZ bytes are taken for    *)
(* it, although a name of DIRSIZ bytes has no NUL.                         *)
NamesKept ==
  txt.kind = "path" =>
    \A q \in Paths : strncmp(txt.path, strncpy(q, DIRSIZ), DIRSIZ)
                       <=> strncpy(txt.path, DIRSIZ) = strncpy(q, DIRSIZ)

(* The string that safestrcpy() leaves is as much of t as fits n bytes     *)
(* with a NUL (the name of a process, of exec() and fork()), and no byte   *)
(* of s after those n is written.                                          *)
Terminated ==
  txt.kind = "path" =>
    \A n \in 0 .. CELLS : \E s \in {[i \in 1 .. CELLS |-> "old"]} :
      \E r \in {safestrcpy(s, txt.path, n)} :
        /\ \A i \in n + 1 .. CELLS : r[i] = s[i]
        /\ n > 0 => \E end \in 1 .. n :
             /\ r[end] = "nul"
             /\ SubSeq(r, 1, end - 1) = SubSeq(txt.path, 1, end - 1)
             /\ end = n \/ end = Len(txt.path) + 1

(* printint() prints the value, also of zero and of the least int, whose   *)
(* negation does not fit an int; atoi() reads a printed number back.       *)
PrintsValue ==
  txt.kind = "print" =>
    /\ \E r \in {printint(txt.x, 10, TRUE)} :
         txt.x = (IF r.neg THEN -1 ELSE 1) * atoi(r.digits) /\ r.digits # <<>>
    /\ \E r \in {printint(txt.x, 16, FALSE)} :
         txt.x % INTS = FoldLeft(LAMBDA n, d : n * 16 + d, 0, r.digits) /\ r.digits # <<>>

(* The string algorithms compute what their reference definitions say, on  *)
(* every small input: match(), grep(), skipelem(), memmove(), strncpy(),   *)
(* strncmp(), safestrcpy(), printint(), atoi().                            *)
TextExact ==
  MatchExact /\ GrepExact /\ PathSplit /\ CopyExact /\ NamesKept /\ Terminated /\ PrintsValue
=============================================================================
