--------------------------- MODULE ConsoleProofs ----------------------------
(***************************************************************************)
(* The console and the serial line, for any numbers of readers and         *)
(* writers, any sizes of the two rings and any width of the indices.       *)
(***************************************************************************)
EXTENDS Console, Numbers

(* What the proofs need of the constants.                                  *)
LEMMA ConsConstants ==
  /\ INPUT_BUF \in Nat \ {0} /\ UINT \in Nat \ {0} /\ UART_TX_BUF_SIZE \in Nat \ {0}
  /\ UINT % INPUT_BUF = 0 /\ INPUT_BUF < UINT
<1>1. PICK k \in 2 .. UINT : UINT = k * INPUT_BUF
  BY BufAssumption, Zenon
<1>2. k \in Int /\ k >= 2 /\ INPUT_BUF \in Nat \ {0} /\ UINT \in Nat
  BY BufAssumption
<1>3. INPUT_BUF < UINT
  BY <1>1, <1>2
<1>4. UINT = INPUT_BUF * k + 0 /\ 0 \in 0 .. INPUT_BUF - 1 /\ UINT \in Int
  BY <1>1, <1>2
<1>5. UINT % INPUT_BUF = 0
  BY <1>2, <1>4, ModUnique, Zenon
<1> QED
  BY <1>2, <1>3, <1>5, BufAssumption

-----------------------------------------------------------------------------
(* The first n and the rest of a sequence.                                 *)
LEMMA Parts ==
  ASSUME NEW S, NEW s \in Seq(S), NEW n \in 0 .. Len(s)
  PROVE  /\ SubSeq(s, 1, n) \in Seq(S) /\ Len(SubSeq(s, 1, n)) = n
         /\ \A i \in 1 .. n : SubSeq(s, 1, n)[i] = s[i]
         /\ SubSeq(s, n + 1, Len(s)) \in Seq(S) /\ Len(SubSeq(s, n + 1, Len(s))) = Len(s) - n
         /\ \A i \in 1 .. Len(s) - n : SubSeq(s, n + 1, Len(s))[i] = s[n + i]
<1>1. SubSeq(s, 1, n) \in Seq(S)
  OBVIOUS
<1>2. Len(SubSeq(s, 1, n)) = n
  OBVIOUS
<1>3. \A i \in 1 .. n : SubSeq(s, 1, n)[i] = s[i]
  OBVIOUS
<1>4. SubSeq(s, n + 1, Len(s)) \in Seq(S)
  OBVIOUS
<1>5. Len(SubSeq(s, n + 1, Len(s))) = Len(s) - n
  OBVIOUS
<1>6. \A i \in 1 .. Len(s) - n : SubSeq(s, n + 1, Len(s))[i] = s[n + i]
  OBVIOUS
<1> QED
  BY <1>1, <1>2, <1>3, <1>4, <1>5, <1>6, Zenon

(* Two sequences one after the other.                                      *)
LEMMA Joined ==
  ASSUME NEW S, NEW t \in Seq(S), NEW l \in Seq(S)
  PROVE  /\ t \o l \in Seq(S) /\ Len(t \o l) = Len(t) + Len(l)
         /\ \A i \in 1 .. Len(t) : (t \o l)[i] = t[i]
         /\ \A i \in 1 .. Len(l) : (t \o l)[Len(t) + i] = l[i]
  OBVIOUS

(* The end of a sequence is the end of what it is appended to.             *)
LEMMA JoinAppend ==
  ASSUME NEW t \in Seq(Chars), NEW l \in Seq(Chars), NEW x \in Chars
  PROVE  Append(t \o l, x) = t \o Append(l, x)
  OBVIOUS

(* Sequences that agree everywhere are the same.                           *)
LEMMA SameSeq ==
  ASSUME NEW S, NEW s \in Seq(S), NEW t \in Seq(S), Len(s) = Len(t),
         \A i \in 1 .. Len(s) : s[i] = t[i]
  PROVE  s = t
  OBVIOUS

(* The front of t \o l, when only characters of l are missing.             *)
LEMMA JoinFront ==
  ASSUME NEW S, NEW t \in Seq(S), NEW l \in Seq(S), NEW n \in 0 .. Len(l)
  PROVE  t \o SubSeq(l, 1, n) = SubSeq(t \o l, 1, Len(t) + n)
<1>1. PICK s, u, v, x : s = t \o l /\ u = SubSeq(l, 1, n) /\ v = SubSeq(s, 1, Len(t) + n) /\ x = t \o u
  BY Zenon
<1>2. PICK T, L : T = Len(t) /\ L = Len(l)
  BY Zenon
<1>3. T \in Nat /\ L \in Nat /\ n \in 0 .. L
  BY <1>2
<1>4. u \in Seq(S) /\ Len(u) = n /\ \A i \in 1 .. n : u[i] = l[i]
  BY <1>1, Parts, Zenon
<1>5. /\ s \in Seq(S) /\ Len(s) = T + L
      /\ \A i \in 1 .. T : s[i] = t[i]
      /\ \A i \in 1 .. L : s[T + i] = l[i]
  BY <1>1, <1>2, Joined
<1>6. T + n \in 0 .. Len(s)
  BY <1>3, <1>5
<1>7. v \in Seq(S) /\ Len(v) = T + n /\ \A i \in 1 .. T + n : v[i] = s[i]
  BY <1>1, <1>2, <1>5, <1>6, Parts, Zenon
<1>8. /\ x \in Seq(S) /\ Len(x) = T + n
      /\ \A i \in 1 .. T : x[i] = t[i]
      /\ \A i \in 1 .. n : x[T + i] = u[i]
  <2>1. /\ t \o u \in Seq(S) /\ Len(t \o u) = Len(t) + Len(u)
        /\ \A i \in 1 .. Len(t) : (t \o u)[i] = t[i]
        /\ \A i \in 1 .. Len(u) : (t \o u)[Len(t) + i] = u[i]
    <3>1. u \in Seq(S)
      BY <1>4, Zenon
    <3> QED
      BY <3>1, Joined
  <2> QED
    BY <1>1, <1>2, <1>4, <2>1, Zenon
<1>9. ASSUME NEW i \in 1 .. T + n PROVE x[i] = v[i]
  <2>1. CASE i \in 1 .. T
    BY <1>5, <1>7, <1>8, <2>1, Zenon
  <2>2. CASE i \notin 1 .. T
    <3>1. i - T \in 1 .. n /\ i = T + (i - T) /\ i - T \in 1 .. L
      BY <1>3, <2>2
    <3>2. PICK j \in 1 .. n : i = T + j /\ j \in 1 .. L
      BY <3>1, Zenon
    <3> QED
      BY <1>4, <1>5, <1>7, <1>8, <3>2, Zenon
  <2> QED
    BY <2>1, <2>2, Zenon
<1>10. x = v
  BY <1>7, <1>8, <1>9, SameSeq, Zenon
<1> QED
  BY <1>1, <1>10, Zenon

(* The rest of t \o l, when only characters of t are missing.              *)
LEMMA JoinRest ==
  ASSUME NEW S, NEW t \in Seq(S), NEW l \in Seq(S), NEW n \in 0 .. Len(t)
  PROVE  SubSeq(t, n + 1, Len(t)) \o l = SubSeq(t \o l, n + 1, Len(t \o l))
<1>1. PICK s, u, v, x : /\ s = t \o l /\ u = SubSeq(t, n + 1, Len(t))
                        /\ v = SubSeq(s, n + 1, Len(s)) /\ x = u \o l
  BY Zenon
<1>2. PICK T, L, U : T = Len(t) /\ L = Len(l) /\ U = Len(u)
  BY Zenon
<1>3. T \in Nat /\ L \in Nat /\ n \in 0 .. T
  BY <1>2
<1>4. u \in Seq(S) /\ U = T - n /\ \A i \in 1 .. T - n : u[i] = t[n + i]
  BY <1>1, <1>2, Parts, Zenon
<1>5. /\ s \in Seq(S) /\ Len(s) = T + L
      /\ \A i \in 1 .. T : s[i] = t[i]
      /\ \A i \in 1 .. L : s[T + i] = l[i]
  BY <1>1, <1>2, Joined
<1>6. n \in 0 .. Len(s)
  BY <1>3, <1>5
<1>7. v \in Seq(S) /\ Len(v) = Len(s) - n /\ \A i \in 1 .. Len(s) - n : v[i] = s[n + i]
  BY <1>1, <1>5, <1>6, Parts, Zenon
<1>8. /\ x \in Seq(S) /\ Len(x) = U + L
      /\ \A i \in 1 .. U : x[i] = u[i]
      /\ \A i \in 1 .. L : x[U + i] = l[i]
  <2>1. u \in Seq(S)
    BY <1>4, Zenon
  <2>2. /\ u \o l \in Seq(S) /\ Len(u \o l) = Len(u) + Len(l)
        /\ \A i \in 1 .. Len(u) : (u \o l)[i] = u[i]
        /\ \A i \in 1 .. Len(l) : (u \o l)[Len(u) + i] = l[i]
    BY <2>1, Joined
  <2> QED
    BY <1>1, <1>2, <2>2, Zenon
<1>9. Len(x) = Len(v) /\ Len(s) - n = Len(x)
  BY <1>3, <1>4, <1>5, <1>7, <1>8
<1>10. ASSUME NEW i \in 1 .. Len(x) PROVE x[i] = v[i]
  <2>0. v[i] = s[n + i]
    BY <1>7, <1>9, Zenon
  <2>1. CASE i \in 1 .. U
    <3>1. i \in 1 .. T - n /\ n + i \in 1 .. T
      BY <1>3, <1>4, <2>1
    <3> QED
      BY <1>4, <1>5, <1>8, <2>0, <2>1, <3>1, Zenon
  <2>2. CASE i \notin 1 .. U
    <3>1. i - U \in 1 .. L /\ i = U + (i - U) /\ n + i = T + (i - U)
      BY <1>3, <1>4, <1>8, <2>2
    <3>2. PICK j \in 1 .. L : i = U + j /\ n + i = T + j
      BY <3>1, Zenon
    <3> QED
      BY <1>5, <1>8, <2>0, <3>2, Zenon
  <2> QED
    BY <2>1, <2>2, Zenon
<1>11. x = v
  BY <1>7, <1>8, <1>9, <1>10, SameSeq, Zenon
<1> QED
  BY <1>1, <1>11, Zenon

-----------------------------------------------------------------------------
(* The ring b of m places holds s from place i on.                         *)
Holds(b, m, i, s) == \A k \in 1 .. Len(s) : s[k] = b[(i + (k - 1)) % m]

(* The sequence of n characters from place i on.                           *)
Contents(b, m, i, n) == [k \in 1 .. n |-> b[(i + (k - 1)) % m]]

(* What a ring contains is what it holds.                                  *)
LEMMA ContentsHeld ==
  ASSUME NEW m \in Nat \ {0}, NEW b \in [0 .. m - 1 -> Chars], NEW i \in Int, NEW n \in Nat
  PROVE  /\ Contents(b, m, i, n) \in Seq(Chars)
         /\ Len(Contents(b, m, i, n)) = n
         /\ Holds(b, m, i, Contents(b, m, i, n))
         /\ \A s \in Seq(Chars) : Len(s) = n /\ Holds(b, m, i, s) => s = Contents(b, m, i, n)
<1>1. \A k \in 1 .. n : (i + (k - 1)) % m \in 0 .. m - 1
  <2> SUFFICES ASSUME NEW k \in 1 .. n PROVE (i + (k - 1)) % m \in 0 .. m - 1
    BY Zenon
  <2>1. PICK x \in Int : x = i + (k - 1)
    OBVIOUS
  <2>2. x % m \in 0 .. m - 1
    BY DivMod, Zenon
  <2> QED
    BY <2>1, <2>2, Zenon
<1>2. PICK c : c = Contents(b, m, i, n)
  BY Zenon
<1>3. c \in [1 .. n -> Chars] /\ \A k \in 1 .. n : c[k] = b[(i + (k - 1)) % m]
  BY <1>1, <1>2, Zenon DEF Contents
<1>4. c \in Seq(Chars) /\ Len(c) = n
  BY <1>3
<1>5. Holds(b, m, i, c)
  BY <1>3, <1>4, Zenon DEF Holds
<1>6. ASSUME NEW s \in Seq(Chars), Len(s) = n, Holds(b, m, i, s) PROVE s = c
  <2>1. \A k \in 1 .. n : s[k] = c[k]
    BY <1>3, <1>6, Zenon DEF Holds
  <2> QED
    BY <1>4, <1>6, <2>1
<1> QED
  BY <1>2, <1>4, <1>5, <1>6, Zenon

(* The places of a ring, less than its size apart, are different.          *)
LEMMA RingPlaces ==
  ASSUME NEW m \in Nat \ {0}, NEW i \in Int, NEW k \in Int
  PROVE  /\ (i + k) % m \in 0 .. m - 1
         /\ \A l \in Int : k < l /\ l < k + m => (i + k) % m # (i + l) % m
<1>1. PICK x \in Int : x = i + k
  OBVIOUS
<1>2. x % m \in 0 .. m - 1
  BY DivMod, Zenon
<1>3. ASSUME NEW l \in Int, k < l, l < k + m PROVE (i + k) % m # (i + l) % m
  <2>1. PICK y \in Int : y = i + l
    OBVIOUS
  <2>2. x < y /\ y < x + m
    BY <1>1, <1>3, <2>1
  <2>3. x % m # y % m
    BY <2>2, ModDiffer, Zenon
  <2> QED
    BY <1>1, <2>1, <2>3, Zenon
<1> QED
  BY <1>1, <1>2, <1>3, Zenon

(* Places that are the same stay the same.                                 *)
LEMMA SamePlaces ==
  ASSUME NEW m \in Nat \ {0}, NEW i \in Int, NEW j \in Int, i % m = j % m, NEW k \in Int
  PROVE  (i + k) % m = (j + k) % m
<1>1. PICK l \in Int : j = i + m * l
  BY ModSame, Zenon
<1>2. PICK x \in Int, y \in Int : x = i + k /\ y = j + k
  OBVIOUS
<1>3. y = x + m * l
  <2>1. PICK z \in Int : z = m * l
    OBVIOUS
  <2> QED
    BY <1>1, <1>2, <2>1
<1>4. y % m = x % m
  BY <1>3, ModShift, Zenon
<1> QED
  BY <1>2, <1>4, Zenon

(* Only place g of the ring changes.                                       *)
SameBut(a, b, m, g) == \A j \in 0 .. m - 1 : j # g => b[j] = a[j]

(* A character is stored behind s: s is still there, ...                   *)
LEMMA HoldsKept ==
  ASSUME NEW m \in Nat \ {0}, NEW a, NEW b, NEW i \in Int, NEW s \in Seq(Chars), NEW n \in Nat,
         Len(s) <= n, n < m, Holds(a, m, i, s), NEW g, g = (i + n) % m,
         SameBut(a, b, m, g)
  PROVE  Holds(b, m, i, s)
<1> SUFFICES ASSUME NEW k \in 1 .. Len(s) PROVE s[k] = b[(i + (k - 1)) % m]
  BY Zenon DEF Holds
<1>1. k - 1 \in Int /\ k - 1 < n /\ n < (k - 1) + m /\ n \in Int
  OBVIOUS
<1>2. (i + (k - 1)) % m \in 0 .. m - 1 /\ (i + (k - 1)) % m # (i + n) % m
  BY <1>1, RingPlaces, Zenon
<1> QED
  BY <1>2, Zenon DEF Holds, SameBut

(* ... and is followed by it.                                              *)
LEMMA HoldsMore ==
  ASSUME NEW m \in Nat \ {0}, NEW a, NEW b, NEW i \in Int, NEW s \in Seq(Chars), NEW c \in Chars,
         Len(s) < m, Holds(a, m, i, s), NEW g, g = (i + Len(s)) % m, b[g] = c,
         SameBut(a, b, m, g)
  PROVE  Holds(b, m, i, Append(s, c))
<1>1. Holds(b, m, i, s)
  BY HoldsKept
<1> SUFFICES ASSUME NEW k \in 1 .. Len(s) + 1 PROVE Append(s, c)[k] = b[(i + (k - 1)) % m]
  BY DEF Holds
<1>2. CASE k = Len(s) + 1
  <2>1. k - 1 = Len(s) /\ Append(s, c)[k] = c
    BY <1>2
  <2> QED
    BY <2>1, Zenon
<1>3. CASE k # Len(s) + 1
  <2>1. k \in 1 .. Len(s) /\ Append(s, c)[k] = s[k]
    BY <1>3
  <2> QED
    BY <1>1, <2>1, Zenon DEF Holds
<1> QED
  BY <1>2, <1>3, Zenon

(* What follows s is held behind it.                                       *)
LEMMA HoldsBoth ==
  ASSUME NEW m \in Nat \ {0}, NEW b, NEW i \in Int, NEW j \in Int,
         NEW s \in Seq(Chars), NEW t \in Seq(Chars),
         Holds(b, m, i, s), Holds(b, m, j, t), (i + Len(s)) % m = j % m
  PROVE  Holds(b, m, i, s \o t)
<1>len. Len(s \o t) = Len(s) + Len(t)
  OBVIOUS
<1> SUFFICES ASSUME NEW k \in 1 .. Len(s) + Len(t) PROVE (s \o t)[k] = b[(i + (k - 1)) % m]
  BY <1>len, Zenon DEF Holds
<1>1. CASE k <= Len(s)
  <2>1. k \in 1 .. Len(s) /\ (s \o t)[k] = s[k]
    BY <1>1
  <2> QED
    BY <2>1, Zenon DEF Holds
<1>2. CASE k > Len(s)
  <2>1. PICK l \in 1 .. Len(t) : l = k - Len(s) /\ (s \o t)[k] = t[l]
    BY <1>2
  <2>0. i + Len(s) \in Int
    OBVIOUS
  <2>2. PICK x \in Int : x = i + Len(s)
    BY <2>0, Zenon
  <2>3. l - 1 \in Int /\ x % m = j % m
    BY <2>2
  <2>4. (x + (l - 1)) % m = (j + (l - 1)) % m
    BY <2>3, SamePlaces, Zenon
  <2>5. x + (l - 1) = i + (k - 1)
    BY <2>1, <2>2
  <2>6. t[l] = b[(j + (l - 1)) % m]
    BY Zenon DEF Holds
  <2> QED
    BY <2>1, <2>4, <2>5, <2>6, Zenon
<1> QED
  BY <1>1, <1>2

(* The first n characters are read, the last n erased.                     *)
LEMMA HoldsRest ==
  ASSUME NEW m \in Nat \ {0}, NEW b, NEW i \in Int, NEW s \in Seq(Chars), NEW n \in 0 .. Len(s),
         Holds(b, m, i, s)
  PROVE  /\ Holds(b, m, i, SubSeq(s, 1, Len(s) - n))
         /\ \A j \in Int : j % m = (i + n) % m => Holds(b, m, j, SubSeq(s, n + 1, Len(s)))
<1>1. Holds(b, m, i, SubSeq(s, 1, Len(s) - n))
  <2>1. Len(SubSeq(s, 1, Len(s) - n)) = Len(s) - n
    OBVIOUS
  <2>2. \A k \in 1 .. Len(s) - n : SubSeq(s, 1, Len(s) - n)[k] = s[k] /\ k \in 1 .. Len(s)
    OBVIOUS
  <2> QED
    BY <2>1, <2>2, Zenon DEF Holds
<1>2. ASSUME NEW j \in Int, j % m = (i + n) % m PROVE Holds(b, m, j, SubSeq(s, n + 1, Len(s)))
  <2>1. Len(SubSeq(s, n + 1, Len(s))) = Len(s) - n
    OBVIOUS
  <2> SUFFICES ASSUME NEW k \in 1 .. Len(s) - n
               PROVE  SubSeq(s, n + 1, Len(s))[k] = b[(j + (k - 1)) % m]
    BY <2>1, Zenon DEF Holds
  <2>0. Len(s) \in Nat /\ n + k \in 1 .. Len(s) /\ SubSeq(s, n + 1, Len(s))[k] = s[n + k]
    OBVIOUS
  <2>2. PICK l \in 1 .. Len(s) : l = n + k /\ SubSeq(s, n + 1, Len(s))[k] = s[l]
    BY <2>0, Zenon
  <2>3. PICK x \in Int : x = i + n
    OBVIOUS
  <2>4. k - 1 \in Int /\ x % m = j % m
    BY <1>2, <2>3
  <2>5. (x + (k - 1)) % m = (j + (k - 1)) % m
    BY <2>4, SamePlaces, Zenon
  <2>6. x + (k - 1) = i + (l - 1)
    BY <2>2, <2>3
  <2>7. s[l] = b[(i + (l - 1)) % m]
    BY Zenon DEF Holds
  <2> QED
    BY <2>2, <2>5, <2>6, <2>7, Zenon
<1> QED
  BY <1>1, <1>2, Zenon

-----------------------------------------------------------------------------
ConsRecs == [buf : [0 .. INPUT_BUF - 1 -> Chars], r : Uint, w : Uint, e : Uint]

(* The buffer c holds the lines t, then the line l, from c.r on.           *)
Pictured(c, t, l) ==
  /\ Len(t) + Len(l) <= INPUT_BUF
  /\ c.w = Plus(c.r, Len(t))
  /\ c.e = Plus(c.r, Len(t) + Len(l))
  /\ Holds(c.buf, INPUT_BUF, c.r, t \o l)

(* An index that wraps points to the same place of the buffer: the size of *)
(* the buffer divides the number of uints.                                 *)
LEMMA WrappedPlace ==
  ASSUME NEW i \in Int, NEW k \in Int
  PROVE  Plus(i, k) \in Uint /\ Plus(i, k) \in Int /\ Plus(i, k) % INPUT_BUF = (i + k) % INPUT_BUF
<1>1. PICK x \in Int : x = i + k
  OBVIOUS
<1>2. (x % UINT) % INPUT_BUF = x % INPUT_BUF
  BY ConsConstants, ModMod, Zenon
<1>3. x % UINT \in 0 .. UINT - 1
  BY ConsConstants, DivMod
<1> QED
  BY <1>1, <1>2, <1>3, ConsConstants DEF Plus, Uint

(* The steps of an index add up.                                           *)
LEMMA PlusPlus ==
  ASSUME NEW i \in Int, NEW k \in Int, NEW l \in Int
  PROVE  Plus(Plus(i, k), l) = Plus(i, k + l)
<1>1. PICK x \in Int : x = i + k
  OBVIOUS
<1>2. ((x % UINT) + l) % UINT = (x + l) % UINT
  BY ConsConstants, ModStep, Zenon
<1>3. x + l = i + (k + l)
  BY <1>1
<1> QED
  BY <1>1, <1>2, <1>3, Zenon DEF Plus

(* An index that is a uint is itself.                                      *)
LEMMA PlusZero ==
  ASSUME NEW i \in Uint
  PROVE  Plus(i, 0) = i
<1>1. i + 0 = i /\ i % UINT = i
  BY ConsConstants, ModSmall DEF Uint
<1> QED
  BY <1>1, Zenon DEF Plus

(* The distance to the k-th index behind i is k.                           *)
LEMMA DistIs ==
  ASSUME NEW i \in Uint, NEW k \in Uint
  PROVE  Dist(i, Plus(i, k)) = k
<1>0. i \in Int /\ k \in Int /\ k % UINT = k /\ -i \in Int
  BY ConsConstants, ModSmall DEF Uint
<1>1. PICK x \in Int : x = i + k
  BY <1>0
<1>2. ((x % UINT) + (-i)) % UINT = (x + (-i)) % UINT
  BY <1>0, ConsConstants, ModStep, Zenon
<1>3. x + (-i) = k
  BY <1>0, <1>1
<1>4. PICK y \in Int : y = x % UINT
  BY ConsConstants
<1>5. y - i = y + (-i)
  BY <1>0, <1>4, Zenon
<1> QED
  BY <1>0, <1>1, <1>2, <1>3, <1>4, <1>5, Zenon DEF Plus, Dist

(* j is Dist(i, j) behind i.                                               *)
LEMMA PlusDist ==
  ASSUME NEW i \in Uint, NEW j \in Uint
  PROVE  Dist(i, j) \in Uint /\ Dist(i, j) \in Nat /\ Plus(i, Dist(i, j)) = j
<1>0. i \in Int /\ j \in Int /\ j % UINT = j
  BY ConsConstants, ModSmall DEF Uint
<1>1. (j - i) % UINT \in 0 .. UINT - 1 /\ (i + ((j - i) % UINT)) % UINT = j % UINT
  BY <1>0, ConsConstants, Distance, Zenon
<1> QED
  BY <1>0, <1>1, ConsConstants DEF Plus, Dist, Uint

(* Window() over wrapping indices is what the buffer contains.             *)
LEMMA WindowIs ==
  ASSUME NEW b, NEW i \in Uint, NEW n \in Nat
  PROVE  [k \in 1 .. n |-> b[Plus(i, k - 1) % INPUT_BUF]] = Contents(b, INPUT_BUF, i, n)
<1>1. \A k \in 1 .. n : Plus(i, k - 1) % INPUT_BUF = (i + (k - 1)) % INPUT_BUF
  <2> SUFFICES ASSUME NEW k \in 1 .. n
               PROVE  Plus(i, k - 1) % INPUT_BUF = (i + (k - 1)) % INPUT_BUF
    BY Zenon
  <2>1. k - 1 \in Int /\ i \in Int
    BY DEF Uint
  <2> QED
    BY <2>1, WrappedPlace, Zenon
<1> QED
  BY <1>1, Zenon DEF Contents

(* LineBuffer says the same with the buffer as one sequence.               *)
LEMMA PictureIs ==
  ASSUME NEW c \in ConsRecs, NEW t \in Seq(Chars), NEW l \in Seq(Chars)
  PROVE  (/\ [k \in 1 .. Dist(c.r, c.w) |-> c.buf[Plus(c.r, k - 1) % INPUT_BUF]] = t
          /\ [k \in 1 .. Dist(c.w, c.e) |-> c.buf[Plus(c.w, k - 1) % INPUT_BUF]] = l
          /\ Len(t) + Len(l) <= INPUT_BUF) <=> Pictured(c, t, l)
<1>1. PICK b, r, w, e : b = c.buf /\ r = c.r /\ w = c.w /\ e = c.e
  BY Zenon
<1>2. b \in [0 .. INPUT_BUF - 1 -> Chars] /\ r \in Uint /\ w \in Uint /\ e \in Uint
  BY <1>1, Zenon DEF ConsRecs
<1>3. PICK m \in Nat, n \in Nat : m = Dist(r, w) /\ n = Dist(w, e)
  BY <1>2, PlusDist, Zenon
<1>4. PICK T \in Nat, L \in Nat : T = Len(t) /\ L = Len(l)
  OBVIOUS
<1>5. r \in Int /\ w \in Int /\ T \in Int /\ L \in Int /\ m \in Int /\ n \in Int
  BY <1>2, <1>3 DEF Uint
<1>6. Plus(r, m) = w /\ Plus(w, n) = e
  BY <1>2, <1>3, PlusDist, Zenon
<1>7. (t \o l) \in Seq(Chars) /\ Len(t \o l) = T + L
  BY <1>4
<1>13. /\ INPUT_BUF \in Nat \ {0} /\ b \in [0 .. INPUT_BUF - 1 -> Chars]
       /\ r \in Int /\ w \in Int /\ m \in Nat /\ n \in Nat
  BY <1>2, <1>5, ConsConstants, Zenon
<1>8. ASSUME Contents(b, INPUT_BUF, r, m) = t, Contents(b, INPUT_BUF, w, n) = l,
             T + L <= INPUT_BUF
      PROVE  Pictured(c, t, l)
  <2>1. T = m /\ Holds(b, INPUT_BUF, r, t)
    <3>1. /\ Len(Contents(b, INPUT_BUF, r, m)) = m
          /\ Holds(b, INPUT_BUF, r, Contents(b, INPUT_BUF, r, m))
      BY <1>13, ContentsHeld
    <3> QED
      BY <1>4, <1>8, <3>1, Zenon
  <2>2. L = n /\ Holds(b, INPUT_BUF, w, l)
    <3>1. /\ Len(Contents(b, INPUT_BUF, w, n)) = n
          /\ Holds(b, INPUT_BUF, w, Contents(b, INPUT_BUF, w, n))
      BY <1>13, ContentsHeld
    <3> QED
      BY <1>4, <1>8, <3>1, Zenon
  <2>3. w = Plus(r, T) /\ e = Plus(r, T + L)
    BY <1>5, <1>6, <2>1, <2>2, PlusPlus
  <2>4. w % INPUT_BUF = (r + T) % INPUT_BUF
    BY <1>5, <2>3, WrappedPlace, Zenon
  <2>5. Holds(b, INPUT_BUF, r, t \o l)
    BY <1>4, <1>5, <2>1, <2>2, <2>4, HoldsBoth, ConsConstants, Zenon
  <2> QED
    BY <1>1, <1>4, <1>8, <2>3, <2>5, Zenon DEF Pictured
<1>9. ASSUME Pictured(c, t, l)
      PROVE  /\ Contents(b, INPUT_BUF, r, m) = t /\ Contents(b, INPUT_BUF, w, n) = l
             /\ T + L <= INPUT_BUF
  <2>1. w = Plus(r, T) /\ e = Plus(r, T + L) /\ Holds(b, INPUT_BUF, r, t \o l) /\ T + L <= INPUT_BUF
    BY <1>1, <1>4, <1>9, Zenon DEF Pictured
  <2>2. e = Plus(w, L)
    BY <1>5, <2>1, PlusPlus
  <2>3. T \in Uint /\ L \in Uint
    BY <2>1, ConsConstants DEF Uint
  <2>4. m = T /\ n = L
    BY <1>2, <1>3, <2>1, <2>2, <2>3, DistIs
  <2>5. L \in 0 .. Len(t \o l) /\ T \in 0 .. Len(t \o l) /\ Len(t \o l) - L = T
    BY <1>7
  <2>6. SubSeq(t \o l, 1, T) = t /\ SubSeq(t \o l, T + 1, T + L) = l
    BY <1>4
  <2>7. Holds(b, INPUT_BUF, r, t)
    <3>1. Holds(b, INPUT_BUF, r, SubSeq(t \o l, 1, Len(t \o l) - L))
      BY <1>5, <1>7, <2>1, <2>5, HoldsRest, ConsConstants, Zenon
    <3> QED
      BY <2>5, <2>6, <3>1, Zenon
  <2>8. w % INPUT_BUF = (r + T) % INPUT_BUF
    BY <1>5, <2>1, WrappedPlace, Zenon
  <2>9. Holds(b, INPUT_BUF, w, l)
    <3>1. Holds(b, INPUT_BUF, w, SubSeq(t \o l, T + 1, Len(t \o l)))
      BY <1>5, <1>7, <2>1, <2>5, <2>8, HoldsRest, ConsConstants, Zenon
    <3> QED
      BY <1>7, <2>6, <3>1, Zenon
  <2>10. t = Contents(b, INPUT_BUF, r, m)
    BY <1>4, <1>13, <2>4, <2>7, ContentsHeld, Zenon
  <2>11. l = Contents(b, INPUT_BUF, w, n)
    BY <1>4, <1>13, <2>4, <2>9, ContentsHeld, Zenon
  <2> QED
    BY <2>1, <2>10, <2>11, Zenon
<1>10. /\ [k \in 1 .. m |-> b[Plus(r, k - 1) % INPUT_BUF]] = Contents(b, INPUT_BUF, r, m)
       /\ [k \in 1 .. n |-> b[Plus(w, k - 1) % INPUT_BUF]] = Contents(b, INPUT_BUF, w, n)
  BY <1>2, WindowIs, Zenon
<1>11. (/\ Contents(b, INPUT_BUF, r, m) = t /\ Contents(b, INPUT_BUF, w, n) = l
         /\ T + L <= INPUT_BUF) <=> Pictured(c, t, l)
  BY <1>8, <1>9, Zenon
<1>12. (/\ [k \in 1 .. m |-> b[Plus(r, k - 1) % INPUT_BUF]] = t
         /\ [k \in 1 .. n |-> b[Plus(w, k - 1) % INPUT_BUF]] = l
         /\ T + L <= INPUT_BUF) <=> Pictured(c, t, l)
  BY <1>10, <1>11, Zenon
<1> QED
  BY <1>1, <1>3, <1>4, <1>12, Zenon

(* What the indices say: how much there is to read, to edit and in all.    *)
LEMMA PictureSays ==
  ASSUME NEW c \in ConsRecs, NEW t \in Seq(Chars), NEW l \in Seq(Chars), Pictured(c, t, l)
  PROVE  /\ Dist(c.r, c.w) = Len(t) /\ Dist(c.w, c.e) = Len(l)
         /\ Dist(c.r, c.e) = Len(t) + Len(l)
         /\ c.r = c.w <=> Len(t) = 0
         /\ c.w = c.e <=> Len(l) = 0
         /\ c.e % INPUT_BUF = (c.r + (Len(t) + Len(l))) % INPUT_BUF
<1>1. PICK r, w, e : r = c.r /\ w = c.w /\ e = c.e
  BY Zenon
<1>2. r \in Uint /\ w \in Uint /\ e \in Uint
  BY <1>1, Zenon DEF ConsRecs
<1>3. PICK T \in Nat, L \in Nat : T = Len(t) /\ L = Len(l)
  OBVIOUS
<1>4. T + L <= INPUT_BUF /\ w = Plus(r, T) /\ e = Plus(r, T + L)
  BY <1>1, <1>3, Zenon DEF Pictured
<1>5. T \in Uint /\ L \in Uint /\ T + L \in Uint /\ r \in Int /\ T \in Int /\ L \in Int /\ T + L \in Int
  BY <1>2, <1>4, ConsConstants DEF Uint
<1>6. e = Plus(w, L)
  BY <1>4, <1>5, PlusPlus
<1>7. Dist(r, w) = T /\ Dist(w, e) = L /\ Dist(r, e) = T + L
  BY <1>2, <1>4, <1>5, <1>6, DistIs
<1>8. Dist(r, r) = 0 /\ Dist(w, w) = 0
  <2>1. 0 \in Uint
    BY ConsConstants DEF Uint
  <2> QED
    BY <1>2, <2>1, DistIs, PlusZero
<1>9. T = 0 => w = r
  BY <1>2, <1>4, PlusZero, Zenon
<1>10. L = 0 => e = w
  BY <1>2, <1>6, PlusZero, Zenon
<1>11. e % INPUT_BUF = (r + (T + L)) % INPUT_BUF
  BY <1>4, <1>5, WrappedPlace, Zenon
<1> QED
  BY <1>1, <1>3, <1>7, <1>8, <1>9, <1>10, <1>11, Zenon

(* consoleintr() stores a character: it hands over the line with it, or    *)
(* goes on editing the line.                                               *)
LEMMA PictureStore ==
  ASSUME NEW c \in ConsRecs, NEW t \in Seq(Chars), NEW l \in Seq(Chars), Pictured(c, t, l),
         Len(t) + Len(l) < INPUT_BUF, NEW x \in Chars,
         NEW d \in ConsRecs, d.r = c.r, d.e = Plus(c.e, 1),
         d.buf[c.e % INPUT_BUF] = x,
         \A j \in 0 .. INPUT_BUF - 1 : j # c.e % INPUT_BUF => d.buf[j] = c.buf[j]
  PROVE  /\ d.w = d.e => Pictured(d, t \o Append(l, x), <<>>)
         /\ d.w = c.w => Pictured(d, t, Append(l, x))
<1>1. PICK r : r = c.r
  BY Zenon
<1>2. r \in Uint /\ r \in Int
  BY <1>1 DEF ConsRecs, Uint
<1>3. PICK s : s = t \o l
  BY Zenon
<1>4. PICK n : n = Len(s)
  BY Zenon
<1>14. s \in Seq(Chars) /\ n = Len(t) + Len(l) /\ n \in Nat
  BY <1>3, <1>4, Joined
<1>5. c.e = Plus(r, n) /\ c.w = Plus(r, Len(t)) /\ Holds(c.buf, INPUT_BUF, r, s)
  BY <1>1, <1>3, <1>14, Zenon DEF Pictured
<1>6. d.e = Plus(r, n + 1)
  BY <1>2, <1>5, <1>14, PlusPlus
<1>7. PICK g : g = c.e % INPUT_BUF
  BY Zenon
<1>8. g = (r + n) % INPUT_BUF
  BY <1>2, <1>5, <1>7, <1>14, WrappedPlace
<1>9. Holds(d.buf, INPUT_BUF, r, Append(s, x))
  <2>1. PICK a, b : a = c.buf /\ b = d.buf
    BY Zenon
  <2>2. INPUT_BUF \in Nat \ {0} /\ Len(s) < INPUT_BUF /\ g = (r + Len(s)) % INPUT_BUF
    BY <1>4, <1>8, <1>14, ConsConstants, Zenon
  <2>3. b[g] = x /\ SameBut(a, b, INPUT_BUF, g)
    BY <1>7, <2>1, Zenon DEF SameBut
  <2>4. r \in Int /\ s \in Seq(Chars) /\ Holds(a, INPUT_BUF, r, s) /\ x \in Chars
    BY <1>2, <1>5, <1>14, <2>1, Zenon
  <2>5. Holds(b, INPUT_BUF, r, Append(s, x))
    BY <2>2, <2>3, <2>4, HoldsMore, Zenon
  <2> QED
    BY <2>1, <2>5, Zenon
<1>10. /\ t \o Append(l, x) = Append(s, x)
       /\ (t \o Append(l, x)) \o <<>> = Append(s, x)
       /\ Len(t \o Append(l, x)) = n + 1
       /\ Len(<<>>) = 0 /\ Len(Append(l, x)) = Len(l) + 1
  BY <1>3, <1>14
<1>11. n + 1 <= INPUT_BUF /\ n + 1 + 0 = n + 1 /\ Len(t) + (Len(l) + 1) = n + 1
  BY <1>14, ConsConstants
<1>12. ASSUME d.w = d.e PROVE Pictured(d, t \o Append(l, x), <<>>)
  BY <1>1, <1>6, <1>9, <1>10, <1>11, <1>12, Zenon DEF Pictured
<1>13. ASSUME d.w = c.w PROVE Pictured(d, t, Append(l, x))
  BY <1>1, <1>5, <1>6, <1>9, <1>10, <1>11, <1>13, Zenon DEF Pictured
<1> QED
  BY <1>12, <1>13, Zenon

(* consoleintr() erases the last k characters of the line.                 *)
LEMMA PictureErase ==
  ASSUME NEW c \in ConsRecs, NEW t \in Seq(Chars), NEW l \in Seq(Chars), Pictured(c, t, l),
         NEW k \in 0 .. Len(l),
         NEW d \in ConsRecs, d.buf = c.buf, d.r = c.r, d.w = c.w, d.e = Plus(c.e, -k)
  PROVE  Pictured(d, t, SubSeq(l, 1, Len(l) - k))
<1>1. PICK r, s, T, L, u : r = c.r /\ s = t \o l /\ T = Len(t) /\ L = Len(l) /\ u = SubSeq(l, 1, L - k)
  BY Zenon
<1>2. r \in Int
  BY <1>1 DEF ConsRecs, Uint
<1>3. T \in Nat /\ L \in Nat /\ k \in 0 .. L /\ L - k \in 0 .. L
  BY <1>1
<1>4. s \in Seq(Chars) /\ Len(s) = T + L
  BY <1>1, Joined, Zenon
<1>5. /\ c.e = Plus(r, T + L) /\ c.w = Plus(r, T) /\ Holds(c.buf, INPUT_BUF, r, s)
      /\ T + L <= INPUT_BUF
  BY <1>1, Zenon DEF Pictured
<1>13. T + L \in Int /\ -k \in Int /\ (T + L) + (-k) = T + (L - k)
  BY <1>3
<1>14. k \in 0 .. Len(s) /\ Len(s) - k = T + (L - k)
  BY <1>3, <1>4
<1>15. T + (L - k) <= INPUT_BUF
  BY <1>3, <1>5, ConsConstants
<1>6. /\ T + L \in Int /\ -k \in Int /\ (T + L) + (-k) = T + (L - k) /\ k \in 0 .. Len(s)
      /\ Len(s) - k = T + (L - k) /\ T + (L - k) <= INPUT_BUF
  BY <1>13, <1>14, <1>15, Zenon
<1>7. d.e = Plus(r, T + (L - k))
  <2>1. Plus(Plus(r, T + L), -k) = Plus(r, (T + L) + (-k))
    BY <1>2, <1>6, PlusPlus, Zenon
  <2> QED
    BY <1>5, <1>6, <2>1, Zenon
<1>8. Holds(c.buf, INPUT_BUF, r, SubSeq(s, 1, Len(s) - k))
  BY <1>2, <1>4, <1>5, <1>6, HoldsRest, ConsConstants, Zenon
<1>9. t \o u = SubSeq(s, 1, T + (L - k))
  <2>1. L - k \in 0 .. Len(l)
    BY <1>1, <1>3, Zenon
  <2>2. t \o SubSeq(l, 1, L - k) = SubSeq(t \o l, 1, Len(t) + (L - k))
    BY <2>1, JoinFront, Zenon
  <2> QED
    BY <1>1, <2>2, Zenon
<1>10. Len(u) = L - k
  BY <1>1, <1>3, Parts
<1>11. Holds(d.buf, INPUT_BUF, d.r, t \o u)
  BY <1>1, <1>6, <1>8, <1>9, Zenon
<1>12. Pictured(d, t, u)
  BY <1>1, <1>5, <1>6, <1>7, <1>10, <1>11, Zenon DEF Pictured
<1> QED
  BY <1>1, <1>12, Zenon

(* consoleread() takes the first k characters.                             *)
LEMMA PictureTake ==
  ASSUME NEW c \in ConsRecs, NEW t \in Seq(Chars), NEW l \in Seq(Chars), Pictured(c, t, l),
         NEW k \in 0 .. Len(t),
         NEW d \in ConsRecs, d.buf = c.buf, d.w = c.w, d.e = c.e, d.r = Plus(c.r, k)
  PROVE  Pictured(d, SubSeq(t, k + 1, Len(t)), l)
<1>1. PICK r, s, T, L, u : /\ r = c.r /\ s = t \o l /\ T = Len(t) /\ L = Len(l)
                           /\ u = SubSeq(t, k + 1, Len(t))
  BY Zenon
<1>2. r \in Int /\ k \in Int
  BY <1>1 DEF ConsRecs, Uint
<1>3. T \in Nat /\ L \in Nat /\ k \in 0 .. T
  BY <1>1
<1>4. s \in Seq(Chars) /\ Len(s) = T + L
  BY <1>1, Joined, Zenon
<1>5. /\ c.e = Plus(r, T + L) /\ c.w = Plus(r, T) /\ Holds(c.buf, INPUT_BUF, r, s)
      /\ T + L <= INPUT_BUF
  BY <1>1, Zenon DEF Pictured
<1>6. Len(u) = T - k
  BY <1>1, <1>3, Parts, Zenon
<1>7. /\ T - k \in Int /\ k + (T - k) = T /\ (T - k) + L \in Int /\ k + ((T - k) + L) = T + L
      /\ (T - k) + L <= INPUT_BUF /\ k \in 0 .. Len(s)
  BY <1>3, <1>4, <1>5, ConsConstants
<1>8. Plus(Plus(r, k), T - k) = Plus(r, T) /\ Plus(Plus(r, k), (T - k) + L) = Plus(r, T + L)
  <2>1. Plus(Plus(r, k), T - k) = Plus(r, k + (T - k))
    BY <1>2, <1>7, PlusPlus, Zenon
  <2>2. Plus(Plus(r, k), (T - k) + L) = Plus(r, k + ((T - k) + L))
    BY <1>2, <1>7, PlusPlus, Zenon
  <2> QED
    BY <1>7, <2>1, <2>2, Zenon
<1>9. d.r \in Int /\ d.r % INPUT_BUF = (r + k) % INPUT_BUF
  BY <1>1, <1>2, WrappedPlace, Zenon
<1>10. Holds(c.buf, INPUT_BUF, d.r, SubSeq(s, k + 1, Len(s)))
  BY <1>2, <1>4, <1>5, <1>7, <1>9, HoldsRest, ConsConstants, Zenon
<1>11. u \o l = SubSeq(s, k + 1, Len(s))
  BY <1>1, JoinRest, Zenon
<1>12. Holds(d.buf, INPUT_BUF, d.r, u \o l)
  BY <1>10, <1>11, Zenon
<1>13. Pictured(d, u, l)
  BY <1>1, <1>5, <1>6, <1>7, <1>8, <1>12, Zenon DEF Pictured
<1> QED
  BY <1>1, <1>13, Zenon

(* consoleintr() finds the buffer full exactly when it is.                 *)
LEMMA FullIs ==
  ASSUME NEW c \in ConsRecs, NEW t \in Seq(Chars), NEW l \in Seq(Chars), Pictured(c, t, l),
         Len(t) + Len(l) < INPUT_BUF
  PROVE  Plus(c.e, 1) = Plus(c.r, INPUT_BUF) <=> Len(t) + Len(l) + 1 = INPUT_BUF
<1>1. PICK r, n : r = c.r /\ n = Len(t) + Len(l)
  BY Zenon
<1>2. r \in Int /\ n \in Nat /\ n < INPUT_BUF /\ n \in Int /\ n + 1 \in Int /\ INPUT_BUF \in Int
  BY <1>1, ConsConstants DEF ConsRecs, Uint
<1>3. Plus(c.e, 1) = Plus(r, n + 1)
  <2>1. c.e = Plus(r, n) /\ 1 \in Int
    BY <1>1 DEF Pictured
  <2>2. Plus(Plus(r, n), 1) = Plus(r, n + 1)
    BY <1>2, PlusPlus
  <2> QED
    BY <2>1, <2>2, Zenon
<1>4. ASSUME n + 1 # INPUT_BUF PROVE Plus(r, n + 1) # Plus(r, INPUT_BUF)
  <2>1. n + 1 < INPUT_BUF /\ INPUT_BUF < (n + 1) + UINT /\ UINT \in Nat \ {0}
    BY <1>2, <1>4, ConsConstants
  <2>2. (r + (n + 1)) % UINT # (r + INPUT_BUF) % UINT
    BY <1>2, <2>1, RingPlaces, Zenon
  <2> QED
    BY <2>2, Zenon DEF Plus
<1>5. Plus(c.e, 1) = Plus(r, INPUT_BUF) <=> n + 1 = INPUT_BUF
  BY <1>3, <1>4, Zenon
<1> QED
  BY <1>1, <1>5, Zenon

-----------------------------------------------------------------------------
TxRecs == [buf : [TxPlaces -> Chars], w : TxPlaces, r : TxPlaces]

(* The transmit ring t holds what of p is not yet in o.                    *)
Queued(t, o, p) ==
  \E ring \in Seq(Chars) :
    /\ p = o \o ring
    /\ Len(ring) = (t.w - t.r) % UART_TX_BUF_SIZE
    /\ Holds(t.buf, UART_TX_BUF_SIZE, t.r, ring)

(* TxFifo says the same.                                                   *)
LEMMA QueuedIs ==
  ASSUME NEW t \in TxRecs, NEW o \in Seq(Chars), NEW p \in Seq(Chars)
  PROVE  p = o \o Queue(t, (t.w - t.r) % UART_TX_BUF_SIZE) <=> Queued(t, o, p)
<1>1. PICK b, r, n : b = t.buf /\ r = t.r /\ n = (t.w - t.r) % UART_TX_BUF_SIZE
  BY Zenon
<1>2. /\ b \in [0 .. UART_TX_BUF_SIZE - 1 -> Chars] /\ r \in Int /\ n \in Nat
      /\ UART_TX_BUF_SIZE \in Nat \ {0}
  <2>1. t.w \in Int /\ t.r \in Int
    BY ConsConstants DEF TxRecs, TxPlaces
  <2>2. n \in 0 .. UART_TX_BUF_SIZE - 1
    BY <1>1, <2>1, Distance, ConsConstants, Zenon
  <2> QED
    BY <1>1, <2>1, <2>2, ConsConstants DEF TxRecs, TxPlaces
<1>3. PICK c : c = Contents(b, UART_TX_BUF_SIZE, r, n)
  BY Zenon
<1>4. /\ c \in Seq(Chars) /\ Len(c) = n /\ Holds(b, UART_TX_BUF_SIZE, r, c)
      /\ \A s \in Seq(Chars) : Len(s) = n /\ Holds(b, UART_TX_BUF_SIZE, r, s) => s = c
  BY <1>2, <1>3, ContentsHeld
<1>5. Queue(t, n) = c
  BY <1>1, <1>3, Zenon DEF Contents, Queue
<1>6. p = o \o c <=> Queued(t, o, p)
  BY <1>1, <1>4, Zenon DEF Queued
<1> QED
  BY <1>1, <1>5, <1>6, Zenon

(* A character goes into a ring that is not full.                          *)
LEMMA RingPush ==
  ASSUME NEW m \in Nat \ {0}, NEW w \in 0 .. m - 1, NEW r \in 0 .. m - 1, NEW v \in 0 .. m - 1,
         v = (w + 1) % m, v # r
  PROVE  (v - r) % m = ((w - r) % m) + 1 /\ ((w - r) % m) + 1 < m /\ w = (r + ((w - r) % m)) % m
<1>2. w \in Int /\ r \in Int /\ v \in Int /\ w + 1 \in Int
  OBVIOUS
<1>4. PICK n : n = (w - r) % m
  BY Zenon
<1>5. n \in 0 .. m - 1 /\ (r + n) % m = w
  <2>1. w % m = w
    BY ModSmall, Zenon
  <2>2. (w - r) % m \in 0 .. m - 1 /\ (r + ((w - r) % m)) % m = w % m
    BY <1>2, Distance, Zenon
  <2> QED
    BY <1>4, <2>1, <2>2, Zenon
<1>7. n + 1 < m
  <2> SUFFICES ASSUME ~(n + 1 < m) PROVE FALSE
    BY Zenon
  <2>0. 1 \in Int
    OBVIOUS
  <2>1. n = m - 1
    BY <1>2, <1>5
  <2>2. PICK y \in Int : y = r + n
    BY <1>2, <1>5
  <2>3. ((y % m) + 1) % m = (y + 1) % m
    BY <1>2, <2>0, ModStep, Zenon
  <2>4. y % m = w
    BY <1>5, <2>2, Zenon
  <2>5. y + 1 = r + m * 1 /\ y + 1 \in Int
    BY <1>2, <2>1, <2>2
  <2>6. (y + 1) % m = r % m
    BY <1>2, <2>0, <2>5, ModShift, Zenon
  <2>7. r % m = r
    BY ModSmall, Zenon
  <2> QED
    BY <2>3, <2>4, <2>6, <2>7, Zenon
<1>8. (v - r) % m = ((w - r) % m) + 1
  <2>1. v % m = v
    BY ModSmall, Zenon
  <2>2. v % m = (w + 1) % m /\ ((w - r) % m) + 1 < m
    BY <1>4, <1>7, <2>1, Zenon
  <2>3. /\ m \in Nat \ {0} /\ w \in Int /\ r \in Int /\ v \in Int
        /\ v % m = (w + 1) % m /\ ((w - r) % m) + 1 < m
    BY <1>2, <2>2, Zenon
  <2> QED
    BY <2>3, Farther, Zenon
<1> QED
  BY <1>4, <1>5, <1>7, <1>8, Zenon

(* uartputc() puts a character into a ring that is not full.               *)
LEMMA QueuedPush ==
  ASSUME NEW t \in TxRecs, NEW o \in Seq(Chars), NEW p, Queued(t, o, p),
         (t.w + 1) % UART_TX_BUF_SIZE # t.r, NEW x \in Chars,
         NEW u \in TxRecs, u.r = t.r, u.w = (t.w + 1) % UART_TX_BUF_SIZE, u.buf[t.w] = x,
         \A j \in TxPlaces : j # t.w => u.buf[j] = t.buf[j]
  PROVE  Queued(u, o, Append(p, x))
<1>1. PICK m, w, r, v, a, b : /\ m = UART_TX_BUF_SIZE /\ w = t.w /\ r = t.r /\ v = u.w
                              /\ a = t.buf /\ b = u.buf
  BY Zenon
<1>2. m \in Nat \ {0} /\ w \in 0 .. m - 1 /\ r \in 0 .. m - 1 /\ v \in 0 .. m - 1 /\ r \in Int
  BY <1>1, ConsConstants DEF TxRecs, TxPlaces
<1>3. PICK ring \in Seq(Chars) : p = o \o ring /\ Len(ring) = (w - r) % m /\ Holds(a, m, r, ring)
  BY <1>1, Zenon DEF Queued
<1>4. v = (w + 1) % m /\ v # r
  BY <1>1, Zenon
<1>5. (v - r) % m = Len(ring) + 1 /\ Len(ring) < m /\ w = (r + Len(ring)) % m
  <2>1. (v - r) % m = ((w - r) % m) + 1 /\ ((w - r) % m) + 1 < m /\ w = (r + ((w - r) % m)) % m
    BY <1>2, <1>4, RingPush, Zenon
  <2> QED
    BY <1>2, <1>3, <2>1
<1>6. b[w] = x /\ SameBut(a, b, m, w)
  BY <1>1, Zenon DEF TxPlaces, SameBut
<1>7. /\ Holds(b, m, r, Append(ring, x)) /\ Append(ring, x) \in Seq(Chars)
      /\ Len(Append(ring, x)) = Len(ring) + 1
      /\ Append(o \o ring, x) = o \o Append(ring, x)
  <2>1. /\ m \in Nat \ {0} /\ r \in Int /\ o \in Seq(Chars) /\ ring \in Seq(Chars) /\ x \in Chars
        /\ Len(ring) < m /\ w = (r + Len(ring)) % m /\ Holds(a, m, r, ring) /\ b[w] = x
        /\ SameBut(a, b, m, w)
    BY <1>2, <1>3, <1>5, <1>6, Zenon
  <2>2. Holds(b, m, r, Append(ring, x))
    BY <2>1, HoldsMore, Zenon
  <2>3. Append(ring, x) \in Seq(Chars) /\ Len(Append(ring, x)) = Len(ring) + 1
    BY <2>1
  <2>4. Append(o \o ring, x) = o \o Append(ring, x)
    BY <2>1, JoinAppend, Zenon
  <2> QED
    BY <2>2, <2>3, <2>4, Zenon
<1>8. PICK more : more = Append(ring, x)
  BY Zenon
<1>9. more \in Seq(Chars) /\ Append(p, x) = o \o more /\ Len(more) = (v - r) % m /\ Holds(b, m, r, more)
  BY <1>3, <1>5, <1>7, <1>8, Zenon
<1> QED
  BY <1>1, <1>9, Zenon DEF Queued

(* k characters leave the transmit ring.                                   *)
LEMMA RingPop ==
  ASSUME NEW t \in TxRecs, NEW k \in 0 .. (t.w - t.r) % UART_TX_BUF_SIZE
  PROVE  (t.w - ((t.r + k) % UART_TX_BUF_SIZE)) % UART_TX_BUF_SIZE
         = ((t.w - t.r) % UART_TX_BUF_SIZE) - k
<1>1. UART_TX_BUF_SIZE \in Nat \ {0} /\ t.w \in Int /\ t.r \in Int
  BY ConsConstants DEF TxRecs, TxPlaces
<1> QED
  BY <1>1, NearerBy, Zenon

(* The first k of a sequence, and the rest behind them.                    *)
LEMMA PartsJoined ==
  ASSUME NEW s \in Seq(Chars), NEW k \in 0 .. Len(s)
  PROVE  SubSeq(s, 1, k) \o SubSeq(s, k + 1, Len(s)) = s
<1>1. PICK front, rest, L : /\ front = SubSeq(s, 1, k) /\ rest = SubSeq(s, k + 1, Len(s)) /\ L = Len(s)
  BY Zenon
<1>2. L \in Nat /\ k \in Nat /\ k <= L
  BY <1>1
<1>3. /\ front \in Seq(Chars) /\ Len(front) = k /\ \A i \in 1 .. k : front[i] = s[i]
      /\ rest \in Seq(Chars) /\ Len(rest) = L - k /\ \A i \in 1 .. L - k : rest[i] = s[k + i]
  BY <1>1, Parts, Zenon
<1>4. PICK z : z = front \o rest
  BY Zenon
<1>5. /\ z \in Seq(Chars) /\ Len(z) = Len(front) + Len(rest)
      /\ \A i \in 1 .. Len(front) : z[i] = front[i]
      /\ \A i \in 1 .. Len(rest) : z[Len(front) + i] = rest[i]
  <2>1. front \in Seq(Chars) /\ rest \in Seq(Chars)
    BY <1>3, Zenon
  <2>2. /\ front \o rest \in Seq(Chars) /\ Len(front \o rest) = Len(front) + Len(rest)
        /\ \A i \in 1 .. Len(front) : (front \o rest)[i] = front[i]
        /\ \A i \in 1 .. Len(rest) : (front \o rest)[Len(front) + i] = rest[i]
    BY <2>1, Joined
  <2> QED
    BY <1>4, <2>2, Zenon
<1>6. /\ Len(z) = L
      /\ \A i \in 1 .. k : z[i] = s[i]
      /\ \A i \in 1 .. L - k : z[k + i] = s[k + i]
  <2>1. k + (L - k) = L
    BY <1>2
  <2> QED
    BY <1>3, <1>5, <2>1, Zenon
<1>7. ASSUME NEW i \in 1 .. L PROVE z[i] = s[i]
  <2>1. CASE i \in 1 .. k
    BY <1>6, <2>1, Zenon
  <2>2. CASE i \notin 1 .. k
    <3>1. i - k \in 1 .. L - k /\ i = k + (i - k)
      BY <1>2, <2>2
    <3> QED
      BY <1>6, <3>1, Zenon
  <2> QED
    BY <2>1, <2>2, Zenon
<1>8. z = s
  BY <1>1, <1>5, <1>6, <1>7, SameSeq, Zenon
<1> QED
  BY <1>1, <1>4, <1>8, Zenon

(* Three sequences one after the other.                                    *)
LEMMA JoinTwice ==
  ASSUME NEW o \in Seq(Chars), NEW s \in Seq(Chars), NEW t \in Seq(Chars)
  PROVE  o \o s \in Seq(Chars) /\ (o \o s) \o t = o \o (s \o t)
  OBVIOUS

(* The first k of s go behind o, the rest stay.                            *)
LEMMA PartsMoved ==
  ASSUME NEW o \in Seq(Chars), NEW s \in Seq(Chars), NEW k \in 0 .. Len(s)
  PROVE  /\ o \o SubSeq(s, 1, k) \in Seq(Chars)
         /\ (o \o SubSeq(s, 1, k)) \o SubSeq(s, k + 1, Len(s)) = o \o s
         /\ SubSeq(s, k + 1, Len(s)) \in Seq(Chars) /\ Len(SubSeq(s, k + 1, Len(s))) = Len(s) - k
<1>1. PICK front, rest : front = SubSeq(s, 1, k) /\ rest = SubSeq(s, k + 1, Len(s))
  BY Zenon
<1>2. front \in Seq(Chars) /\ rest \in Seq(Chars) /\ Len(rest) = Len(s) - k
  BY <1>1, Parts, Zenon
<1>3. front \o rest = s
  BY <1>1, PartsJoined, Zenon
<1>4. o \o front \in Seq(Chars) /\ (o \o front) \o rest = o \o (front \o rest)
  BY <1>2, JoinTwice, Zenon
<1> QED
  BY <1>1, <1>2, <1>3, <1>4, Zenon

(* The first k characters that the ring holds.                             *)
LEMMA QueueIs ==
  ASSUME NEW t \in TxRecs, NEW s \in Seq(Chars), Holds(t.buf, UART_TX_BUF_SIZE, t.r, s),
         NEW k \in 0 .. Len(s)
  PROVE  Queue(t, k) = SubSeq(s, 1, k)
<1>1. PICK front, q : front = SubSeq(s, 1, k) /\ q = Queue(t, k)
  BY Zenon
<1>2. front \in Seq(Chars) /\ Len(front) = k /\ \A i \in 1 .. k : front[i] = s[i]
  BY <1>1, Parts, Zenon
<1>3. \A i \in 1 .. k : i \in 1 .. Len(s)
  OBVIOUS
<1>4. DOMAIN q = 1 .. k /\ \A i \in 1 .. k : q[i] = t.buf[(t.r + (i - 1)) % UART_TX_BUF_SIZE]
  BY <1>1, Zenon DEF Queue
<1>5. \A i \in 1 .. k : q[i] = front[i]
  BY <1>2, <1>3, <1>4, Zenon DEF Holds
<1>6. front = [i \in 1 .. k |-> front[i]]
  BY <1>2
<1>7. q = [i \in 1 .. k |-> q[i]]
  BY <1>1, Zenon DEF Queue
<1> QED
  BY <1>1, <1>5, <1>6, <1>7, Zenon

(* What uartstart() gives the UART are the oldest k characters.            *)
LEMMA QueuedPop ==
  ASSUME NEW t \in TxRecs, NEW o \in Seq(Chars), NEW p, Queued(t, o, p),
         NEW k \in 0 .. (t.w - t.r) % UART_TX_BUF_SIZE,
         NEW u \in TxRecs, u.buf = t.buf, u.w = t.w, u.r = (t.r + k) % UART_TX_BUF_SIZE
  PROVE  o \o Queue(t, k) \in Seq(Chars) /\ Queued(u, o \o Queue(t, k), p)
<1>1. PICK ring \in Seq(Chars) : /\ p = o \o ring /\ Len(ring) = (t.w - t.r) % UART_TX_BUF_SIZE
                                /\ Holds(t.buf, UART_TX_BUF_SIZE, t.r, ring)
  BY Zenon DEF Queued
<1>2. k \in 0 .. Len(ring)
  BY <1>1, Zenon
<1>3. PICK rest : rest = SubSeq(ring, k + 1, Len(ring))
  BY Zenon
<1>4. /\ o \o Queue(t, k) \in Seq(Chars) /\ p = (o \o Queue(t, k)) \o rest
      /\ rest \in Seq(Chars) /\ Len(rest) = Len(ring) - k
  <2>1. Queue(t, k) = SubSeq(ring, 1, k)
    BY <1>1, <1>2, QueueIs, Zenon
  <2>2. /\ o \o SubSeq(ring, 1, k) \in Seq(Chars)
        /\ (o \o SubSeq(ring, 1, k)) \o SubSeq(ring, k + 1, Len(ring)) = o \o ring
        /\ SubSeq(ring, k + 1, Len(ring)) \in Seq(Chars)
        /\ Len(SubSeq(ring, k + 1, Len(ring))) = Len(ring) - k
    BY <1>2, PartsMoved, Zenon
  <2> QED
    BY <1>1, <1>3, <2>1, <2>2, Zenon
<1>5. t.w \in Int /\ t.r \in Int /\ u.r \in Int /\ UART_TX_BUF_SIZE \in Nat \ {0}
  BY ConsConstants DEF TxRecs, TxPlaces
<1>6. (u.w - u.r) % UART_TX_BUF_SIZE = ((t.w - t.r) % UART_TX_BUF_SIZE) - k
  BY RingPop, Zenon
<1>7. u.r % UART_TX_BUF_SIZE = (t.r + k) % UART_TX_BUF_SIZE
  <2>1. u.r \in 0 .. UART_TX_BUF_SIZE - 1
    BY Zenon DEF TxRecs, TxPlaces
  <2> QED
    BY <1>5, <2>1, ModSmall, Zenon
<1>8. Holds(t.buf, UART_TX_BUF_SIZE, u.r, rest)
  BY <1>1, <1>2, <1>3, <1>5, <1>7, HoldsRest, Zenon
<1> QED
  BY <1>1, <1>4, <1>6, <1>8, Zenon DEF Queued

(* uartstart() sends in order, and leaves the transmitter idle only with   *)
(* the ring empty.                                                         *)
LEMMA Starts ==
  ASSUME NEW t \in TxRecs, NEW p, out \in Seq(Chars), Queued(t, out, p), uartstart(t)
  PROVE  /\ tx' \in TxRecs /\ out' \in Seq(Chars) /\ Queued(tx', out', p)
         /\ tx'.w # tx'.r => ~thrIdle'
<1>1. PICK k \in 0 .. (t.w - t.r) % UART_TX_BUF_SIZE :
        /\ k = 0 <=> t.w = t.r \/ ~thrIdle
        /\ tx' = [t EXCEPT !.r = (t.r + k) % UART_TX_BUF_SIZE]
        /\ out' = out \o Queue(t, k)
        /\ thrIdle' = (thrIdle /\ k = 0)
  BY Zenon DEF uartstart
<1>2. PICK u, q : u = [t EXCEPT !.r = (t.r + k) % UART_TX_BUF_SIZE] /\ q = (t.r + k) % UART_TX_BUF_SIZE
  BY Zenon
<1>3. t.r \in Int /\ t.w \in Int /\ t.r \in 0 .. UART_TX_BUF_SIZE - 1 /\ UART_TX_BUF_SIZE \in Nat \ {0}
  BY ConsConstants DEF TxRecs, TxPlaces
<1>4. k \in Int
  BY <1>3, DivMod
<1>5. q \in TxPlaces /\ (k = 0 => q = t.r)
  <2>1. PICK y \in Int : y = t.r + k
    BY <1>3, <1>4
  <2>2. y % UART_TX_BUF_SIZE \in 0 .. UART_TX_BUF_SIZE - 1
    BY <1>3, DivMod, Zenon
  <2>3. t.r % UART_TX_BUF_SIZE = t.r
    BY <1>3, ModSmall, Zenon
  <2>4. k = 0 => y = t.r
    BY <1>3, <2>1
  <2> QED
    BY <1>2, <2>1, <2>2, <2>3, <2>4, Zenon DEF TxPlaces
<1>6. u \in TxRecs /\ u.buf = t.buf /\ u.w = t.w /\ u.r = q
  BY <1>2, <1>5, Zenon DEF TxRecs
<1>7. out \o Queue(t, k) \in Seq(Chars) /\ Queued(u, out \o Queue(t, k), p)
  BY <1>2, <1>6, QueuedPop, Zenon
<1> QED
  BY <1>1, <1>2, <1>5, <1>6, <1>7, Zenon

-----------------------------------------------------------------------------
(* The inductive invariant again, by the variables it is about.            *)

(* What a read has got.                                                    *)
Line(q) ==
  \A i \in 1 .. Len(q.got) : /\ q.got[i] # EOF
                             /\ q.got[i] = NL => i = Len(q.got) /\ q.pc = "idle"

InSide ==
  /\ cons \in ConsRecs /\ text \in Seq(Chars) /\ line \in Seq(Chars)
  /\ rd \in [Readers -> RdRecs]
  /\ Pictured(cons, text, line)
  /\ \A p \in Readers : Line(rd[p])
  /\ Len(text) + Len(line) = INPUT_BUF => Len(text) # 0
  /\ \A p \in Readers : rd[p].pc = "sleep" => Len(text) = 0 /\ p \notin killed

OutSide ==
  /\ wr \in [Writers -> Seq(Chars)] /\ tx \in TxRecs
  /\ out \in Seq(Chars) /\ put \in Seq(Chars)
  /\ Queued(tx, out, put)

KeySide == rx \in Seq(Chars) /\ typed \in Seq(Chars)

(* The sides follow from the invariant, ...                                *)
LEMMA Sides ==
  ASSUME ConsInv
  PROVE  InSide /\ OutSide /\ KeySide /\ TxRestarts
<1>1. /\ cons \in ConsRecs /\ text \in Seq(Chars) /\ line \in Seq(Chars)
      /\ rd \in [Readers -> RdRecs] /\ wr \in [Writers -> Seq(Chars)] /\ tx \in TxRecs
      /\ out \in Seq(Chars) /\ put \in Seq(Chars)
  BY Zenon DEF ConsInv, ConsTypeOK, ConsRecs, TxRecs
<1>2. Pictured(cons, text, line)
  <2>1. Window(cons.r, cons.w) = text /\ Window(cons.w, cons.e) = line
        /\ Len(text) + Len(line) <= INPUT_BUF
    BY Zenon DEF ConsInv, LineBuffer
  <2>2. /\ [k \in 1 .. Dist(cons.r, cons.w) |-> cons.buf[Plus(cons.r, k - 1) % INPUT_BUF]] = text
        /\ [k \in 1 .. Dist(cons.w, cons.e) |-> cons.buf[Plus(cons.w, k - 1) % INPUT_BUF]] = line
    BY <2>1, Zenon DEF Window
  <2> QED
    BY <1>1, <2>1, <2>2, PictureIs, Zenon
<1>3. Queued(tx, out, put)
  BY <1>1, QueuedIs, Zenon DEF ConsInv, TxFifo
<1>4. \A p \in Readers : Line(rd[p])
  BY Zenon DEF ConsInv, OneLine, ReadsOn, Line
<1>5. Len(text) + Len(line) = INPUT_BUF => Len(text) # 0
  BY <1>1 DEF ConsInv, Handed
<1>6. \A p \in Readers : rd[p].pc = "sleep" => Len(text) = 0 /\ p \notin killed
  BY <1>1, <1>2, PictureSays, Zenon DEF ConsInv, ReadersWait
<1>7. KeySide /\ TxRestarts
  BY Zenon DEF ConsInv, ConsTypeOK, KeySide
<1> QED
  BY <1>1, <1>2, <1>3, <1>4, <1>5, <1>6, <1>7, Zenon DEF InSide, OutSide

(* ... and the invariant of the next state from its sides.                 *)
LEMMA SidesNext ==
  ASSUME InSide', OutSide', KeySide', TxRestarts'
  PROVE  ConsInv'
<1>1. /\ cons' \in ConsRecs /\ text' \in Seq(Chars) /\ line' \in Seq(Chars)
      /\ rd' \in [Readers -> RdRecs] /\ Pictured(cons', text', line')
  BY Zenon DEF InSide
<1>2. /\ wr' \in [Writers -> Seq(Chars)] /\ tx' \in TxRecs
      /\ out' \in Seq(Chars) /\ put' \in Seq(Chars) /\ Queued(tx', out', put')
  BY Zenon DEF OutSide
<1>3. ConsTypeOK'
  BY <1>1, <1>2, Zenon DEF KeySide, ConsTypeOK, ConsRecs, TxRecs
<1>4. LineBuffer'
  BY <1>1, PictureIs, Zenon DEF LineBuffer, Window
<1>5. TxFifo'
  BY <1>2, QueuedIs, Zenon DEF TxFifo
<1>6. OneLine' /\ ReadsOn'
  BY Zenon DEF InSide, Line, OneLine, ReadsOn
<1>7. Handed'
  BY <1>1, Zenon DEF InSide, Handed
<1>8. ReadersWait'
  <2>1. cons'.r = cons'.w <=> Len(text') = 0
    BY <1>1, PictureSays, Zenon
  <2> QED
    BY <2>1, Zenon DEF InSide, ReadersWait
<1> QED
  BY <1>3, <1>4, <1>5, <1>6, <1>7, <1>8, Zenon DEF ConsInv

(* A step that leaves a side alone.                                        *)
LEMMA InAlike ==
  ASSUME InSide, UNCHANGED <<cons, text, line, rd, killed>>
  PROVE  InSide'
  BY Zenon DEF InSide, Line

(* The same of the transmitter's side.                                     *)
LEMMA OutAlike ==
  ASSUME OutSide, UNCHANGED <<wr, tx, out, put>>
  PROVE  OutSide'
  BY Zenon DEF OutSide

(* A read that goes on has got no end of a line, and a pass copies one at  *)
(* its end.                                                                *)
NoEnd(g) == \A i \in 1 .. Len(g) : g[i] # EOF /\ g[i] # NL
EndsAt(t, k) == \A i \in 1 .. k : t[i] # EOF /\ (t[i] = NL => i = k)
Ended(h, t, k) ==
  \A i \in 1 .. Len(h) : h[i] # EOF /\ (h[i] = NL => i = Len(h) /\ k > 0 /\ t[k] = NL)

(* What a read has got is one line when a pass is added to it.             *)
LEMMA LineJoin ==
  ASSUME NEW g \in Seq(Chars), NEW t \in Seq(Chars), NEW k \in 0 .. Len(t),
         NoEnd(g), EndsAt(t, k), NEW h, h = g \o SubSeq(t, 1, k)
  PROVE  h \in Seq(Chars) /\ Ended(h, t, k)
<1>1. PICK u, G : u = SubSeq(t, 1, k) /\ G = Len(g)
  BY Zenon
<1>2. u \in Seq(Chars) /\ Len(u) = k /\ \A i \in 1 .. k : u[i] = t[i]
  BY <1>1, Parts, Zenon
<1>3. G \in Nat /\ k \in Nat
  BY <1>1
<1>4. /\ h \in Seq(Chars) /\ Len(h) = G + k
      /\ \A i \in 1 .. G : h[i] = g[i]
      /\ \A i \in 1 .. k : h[G + i] = u[i]
  <2>1. u \in Seq(Chars)
    BY <1>2, Zenon
  <2>2. /\ g \o u \in Seq(Chars) /\ Len(g \o u) = Len(g) + Len(u)
        /\ \A i \in 1 .. Len(g) : (g \o u)[i] = g[i]
        /\ \A i \in 1 .. Len(u) : (g \o u)[Len(g) + i] = u[i]
    BY <2>1, Joined
  <2>3. h = g \o u
    BY <1>1, Zenon
  <2> QED
    BY <1>1, <1>2, <2>2, <2>3, Zenon
<1>5. ASSUME NEW i \in 1 .. G + k
      PROVE  h[i] # EOF /\ (h[i] = NL => i = G + k /\ k > 0 /\ t[k] = NL)
  <2>1. CASE i \in 1 .. G
    BY <1>1, <1>4, <2>1, Zenon DEF NoEnd
  <2>2. CASE i \notin 1 .. G
    <3>1. i - G \in 1 .. k /\ i = G + (i - G)
      BY <1>3, <2>2
    <3>2. PICK j \in 1 .. k : i = G + j
      BY <3>1, Zenon
    <3>3. h[i] = t[j] /\ t[j] # EOF /\ (t[j] = NL => j = k)
      BY <1>2, <1>4, <3>2, Zenon DEF EndsAt
    <3>4. k > 0
      BY <1>3
    <3> QED
      BY <3>2, <3>3, <3>4, Zenon
  <2> QED
    BY <2>1, <2>2, Zenon
<1> QED
  BY <1>1, <1>4, <1>5, Zenon DEF Ended

(* What one pass of consoleread() does: it takes some of the text, has got *)
(* a line, sleeps only when it took all there was, and returns without a   *)
(* character when it took a ^D.                                            *)
LEMMA PassIs ==
  ASSUME InSide, NEW p \in Readers, rd[p].pc = "start",
         NEW kk \in 0 .. Len(Window(cons.r, cons.w)), Pass(p, kk)
  PROVE  \E q \in RdRecs, n \in 0 .. Len(text) :
           /\ cons' = [cons EXCEPT !.r = Plus(cons.r, n)]
           /\ text' = SubSeq(text, n + 1, Len(text))
           /\ rd' = [rd EXCEPT ![p] = q]
           /\ Line(q)
           /\ q.pc = "sleep" => n = Len(text) /\ p \notin killed
           /\ \A i \in 1 .. n : text[i] = EOF => q.pc = "idle" /\ q.got = <<>>
<1> DEFINE s == Window(cons.r, cons.w)
           gg == rd[p].got \o SubSeq(s, 1, kk)
           ee == kk < rd[p].n /\ kk < Len(s) /\ s[kk + 1] = EOF
           mm == kk < rd[p].n /\ ~ee /\ ~(kk > 0 /\ s[kk] = NL)
           tt == IF rd[p].bad /\ kk > 0 THEN 1 ELSE kk + (IF ee THEN EofTaken(gg) ELSE 0)
           qq == IF rd[p].bad /\ kk > 0 THEN Return(p)
                 ELSE [rd[p] EXCEPT !.pc = IF mm /\ p \notin killed THEN "sleep" ELSE "idle",
                                    !.n = @ - kk, !.got = gg]
<1>1. /\ cons' = [cons EXCEPT !.r = Plus(cons.r, tt)]
      /\ text' = SubSeq(text, tt + 1, Len(text))
      /\ rd' = [rd EXCEPT ![p] = qq]
  <2>1. cons' = [cons EXCEPT !.r = Plus(cons.r, tt)]
    BY Zenon DEF Pass
  <2>2. text' = SubSeq(text, tt + 1, Len(text))
    BY Zenon DEF Pass
  <2>3. rd' = [rd EXCEPT ![p] = qq]
    BY Zenon DEF Pass
  <2> QED
    BY <2>1, <2>2, <2>3, Zenon
<1>2. s = text
  BY PictureIs, Zenon DEF InSide, Window
<1>3. PICK me, k, g, n, q : me = rd[p] /\ k = kk /\ g = gg /\ n = tt /\ q = qq
  BY Zenon
<1>4. PICK e \in BOOLEAN, m \in BOOLEAN : (e <=> ee) /\ (m <=> mm)
  BY Zenon
<1>5. /\ me \in RdRecs /\ me.n \in Nat /\ me.got \in Seq(Chars) /\ text \in Seq(Chars)
      /\ me.pc = "start" /\ Line(me)
  BY <1>3, Zenon DEF InSide, RdRecs
<1>6. Copies(text, me.n, k) /\ k \in 0 .. Len(text) /\ g = me.got \o SubSeq(text, 1, k)
  BY <1>2, <1>3, Zenon DEF Pass
<1>7. e <=> k < me.n /\ k < Len(text) /\ text[k + 1] = EOF
  BY <1>2, <1>3, <1>4, Zenon
<1>8. m <=> k < me.n /\ ~e /\ ~(k > 0 /\ text[k] = NL)
  BY <1>2, <1>3, <1>4, Zenon
<1>9. n = IF me.bad /\ k > 0 THEN 1 ELSE k + (IF e THEN EofTaken(g) ELSE 0)
  BY <1>3, <1>4, Zenon
<1>10. q = IF me.bad /\ k > 0 THEN [me EXCEPT !.pc = "idle"]
           ELSE [me EXCEPT !.pc = IF m /\ p \notin killed THEN "sleep" ELSE "idle",
                           !.n = me.n - k, !.got = g]
  BY <1>3, <1>4, Zenon DEF Return
<1> HIDE DEF s, gg, ee, mm, tt, qq
<1>11. /\ k \in 0 .. Len(text) /\ k <= me.n
       /\ \A i \in 1 .. k : text[i] # EOF /\ (text[i] = NL => i = k)
       /\ k < me.n /\ k < Len(text) => text[k + 1] = EOF \/ (k > 0 /\ text[k] = NL)
  BY <1>6, Zenon DEF Copies
<1>12. /\ g \in Seq(Chars)
       /\ \A i \in 1 .. Len(g) : g[i] # EOF /\ (g[i] = NL => i = Len(g) /\ k > 0 /\ text[k] = NL)
  <2>1. PICK had : had = me.got
    BY Zenon
  <2>2. NoEnd(had) /\ had \in Seq(Chars)
    BY <1>5, <2>1, Zenon DEF Line, NoEnd
  <2>3. EndsAt(text, k)
    BY <1>11, Zenon DEF EndsAt
  <2>4. text \in Seq(Chars) /\ k \in 0 .. Len(text) /\ g = had \o SubSeq(text, 1, k)
    BY <1>5, <1>6, <1>11, <2>1, Zenon
  <2>5. g \in Seq(Chars) /\ Ended(g, text, k)
    BY <2>2, <2>3, <2>4, LineJoin, Zenon
  <2> QED
    BY <2>5, Zenon DEF Ended
<1>13. m => k = Len(text)
  BY <1>5, <1>7, <1>8, <1>11
<1>14. Len(text) \in Nat /\ k \in Nat
  BY <1>5, <1>11
<1>15. CASE me.bad /\ k > 0
  <2>1. n = 1 /\ q = [me EXCEPT !.pc = "idle"]
    BY <1>9, <1>10, <1>15, Zenon
  <2>2. q \in RdRecs /\ q.pc = "idle" /\ q.got = me.got
    BY <1>5, <2>1, Zenon DEF RdRecs
  <2>3. n \in 0 .. Len(text) /\ \A i \in 1 .. n : text[i] # EOF
    BY <1>11, <1>14, <1>15, <2>1
  <2>4. Line(q)
    BY <1>5, <2>2, Zenon DEF Line
  <2> QED
    BY <1>1, <1>3, <2>2, <2>3, <2>4, Zenon
<1>16. CASE ~(me.bad /\ k > 0)
  <2>1. n = k + (IF e THEN EofTaken(g) ELSE 0)
    BY <1>9, <1>16, Zenon
  <2>2. PICK pc : pc = IF m /\ p \notin killed THEN "sleep" ELSE "idle"
    BY Zenon
  <2>3. q = [me EXCEPT !.pc = pc, !.n = me.n - k, !.got = g]
    BY <1>10, <1>16, <2>2, Zenon
  <2>4. pc \in {"sleep", "idle"} /\ (pc = "sleep" => m /\ p \notin killed)
    BY <2>2, Zenon
  <2>5. me.n - k \in Nat
    BY <1>5, <1>11, <1>14
  <2>6. q \in RdRecs /\ q.pc = pc /\ q.got = g
    <3>1. PICK left : left = me.n - k
      BY Zenon
    <3>2. q = [me EXCEPT !.pc = pc, !.n = left, !.got = g] /\ left \in Nat
      BY <2>3, <2>5, <3>1, Zenon
    <3>3. /\ q = [pc |-> pc, n |-> left, got |-> g, bad |-> me.bad, reads |-> me.reads]
          /\ me.bad \in BOOLEAN /\ me.reads \in Seq(Reads)
      BY <1>5, <3>2, Zenon DEF RdRecs
    <3>4. q \in RdRecs
      BY <1>12, <2>4, <3>2, <3>3, Zenon DEF RdRecs
    <3> QED
      BY <3>3, <3>4, Zenon
  <2>7. pc = "sleep" => ~(k > 0 /\ text[k] = NL) /\ ~e
    BY <1>8, <2>4, Zenon
  <2>8. Line(q)
    <3>1. k > 0 /\ text[k] = NL => pc = "idle"
      BY <2>4, <2>7, Zenon
    <3> QED
      BY <1>12, <2>6, <3>1, Zenon DEF Line
  <2>9. n \in 0 .. Len(text) /\ (n = k \/ (e /\ n = k + 1 /\ g = <<>>))
    <3>1. CASE e /\ g = <<>>
      <4>1. n = k + 1
        BY <2>1, <3>1, Zenon DEF EofTaken
      <4> QED
        BY <1>7, <1>11, <1>14, <3>1, <4>1
    <3>2. CASE e /\ g # <<>>
      <4>1. n = k + 0
        BY <2>1, <3>2, Zenon DEF EofTaken
      <4> QED
        BY <1>11, <1>14, <4>1
    <3>3. CASE ~e
      <4>1. n = k + 0
        BY <2>1, <3>3, Zenon
      <4> QED
        BY <1>11, <1>14, <4>1
    <3> QED
      BY <3>1, <3>2, <3>3, Zenon
  <2>10. pc = "sleep" => n = Len(text) /\ p \notin killed
    BY <1>13, <2>4, <2>7, <2>9, Zenon
  <2>11. ASSUME NEW i \in 1 .. n, text[i] = EOF PROVE q.pc = "idle" /\ q.got = <<>>
    <3>1. i \notin 1 .. k
      BY <1>11, <2>11, Zenon
    <3>2. e /\ g = <<>>
      BY <1>14, <2>9, <3>1, Zenon
    <3>3. pc = "idle"
      BY <2>4, <2>7, <3>2, Zenon
    <3> QED
      BY <2>6, <3>2, <3>3, Zenon
  <2> QED
    BY <1>1, <1>3, <2>6, <2>8, <2>9, <2>10, <2>11, Zenon
<1> QED
  BY <1>15, <1>16, Zenon

-----------------------------------------------------------------------------
(* The steps on the input side.                                            *)

(* consoleread() takes a prefix of the text.                               *)
LEMMA ReadStep ==
  ASSUME InSide, NEW p \in Readers, consoleread(p)
  PROVE  InSide'
<1>1. PICK q \in RdRecs, n \in 0 .. Len(text) :
           /\ cons' = [cons EXCEPT !.r = Plus(cons.r, n)]
           /\ text' = SubSeq(text, n + 1, Len(text))
           /\ rd' = [rd EXCEPT ![p] = q]
           /\ Line(q)
           /\ q.pc = "sleep" => n = Len(text) /\ p \notin killed
  <2>1. rd[p].pc = "start" /\ \E k \in 0 .. Len(Window(cons.r, cons.w)) : Pass(p, k)
    BY Zenon DEF consoleread
  <2> QED
    BY <2>1, PassIs, Zenon
<1>2. line' = line /\ killed' = killed
  BY Zenon DEF consoleread
<1>3. /\ cons \in ConsRecs /\ text \in Seq(Chars) /\ line \in Seq(Chars) /\ Pictured(cons, text, line)
      /\ rd \in [Readers -> RdRecs]
  BY Zenon DEF InSide
<1>4. cons.r \in Int /\ n \in Int
  BY <1>3 DEF ConsRecs, Uint
<1>5. PICK i : i = Plus(cons.r, n)
  BY Zenon
<1>6. i \in Uint
  BY <1>4, <1>5, WrappedPlace, Zenon
<1>7. cons' \in ConsRecs /\ cons'.buf = cons.buf /\ cons'.w = cons.w /\ cons'.e = cons.e /\ cons'.r = i
  BY <1>1, <1>3, <1>5, <1>6, Zenon DEF ConsRecs
<1>8. Pictured(cons', text', line')
  BY <1>1, <1>2, <1>3, <1>5, <1>7, PictureTake, Zenon
<1>9. text' \in Seq(Chars) /\ Len(text') = Len(text) - n
  BY <1>1, <1>3, Parts, Zenon
<1>10. Len(text) \in Nat /\ Len(line) \in Nat
  BY <1>3
<1>11. Len(text') + Len(line') = INPUT_BUF => Len(text') # 0
  <2>1. Len(text) + Len(line) <= INPUT_BUF
    BY <1>3, Zenon DEF Pictured
  <2>2. Len(text) + Len(line) = INPUT_BUF => Len(text) # 0
    BY Zenon DEF InSide
  <2> QED
    BY <1>2, <1>9, <1>10, <2>1, <2>2, ConsConstants
<1>12. rd' \in [Readers -> RdRecs] /\ \A t \in Readers : Line(rd'[t])
  BY <1>1, <1>3, Zenon DEF InSide
<1>13. ASSUME NEW t \in Readers, rd'[t].pc = "sleep" PROVE Len(text') = 0 /\ t \notin killed'
  <2>1. CASE t = p
    BY <1>1, <1>2, <1>3, <1>9, <1>10, <1>13, <2>1
  <2>2. CASE t # p
    <3>1. rd[t].pc = "sleep"
      BY <1>1, <1>3, <1>13, <2>2, Zenon
    <3>2. Len(text) = 0 /\ t \notin killed
      BY <3>1, Zenon DEF InSide
    <3>3. n = 0
      BY <3>2
    <3> QED
      BY <1>2, <1>9, <3>2, <3>3
  <2> QED
    BY <2>1, <2>2, Zenon
<1>14. line' \in Seq(Chars)
  BY <1>2, <1>3, Zenon
<1> QED
  BY <1>7, <1>8, <1>9, <1>11, <1>12, <1>13, <1>14, Zenon DEF InSide

(* consoleintr() erases characters of the line.                            *)
LEMMA EraseStep ==
  ASSUME InSide, NEW k \in 0 .. Len(line), Erase(k), killed' = killed
  PROVE  InSide'
<1>1. /\ cons' = [cons EXCEPT !.e = Plus(cons.e, -k)]
      /\ line' = SubSeq(line, 1, Len(line) - k)
      /\ text' = text /\ rd' = rd
  BY Zenon DEF Erase
<1>2. /\ cons \in ConsRecs /\ text \in Seq(Chars) /\ line \in Seq(Chars) /\ Pictured(cons, text, line)
      /\ rd \in [Readers -> RdRecs]
  BY Zenon DEF InSide
<1>3. cons.e \in Int /\ -k \in Int
  BY <1>2 DEF ConsRecs, Uint
<1>4. PICK i : i = Plus(cons.e, -k)
  BY Zenon
<1>5. i \in Uint
  BY <1>3, <1>4, WrappedPlace, Zenon
<1>6. cons' \in ConsRecs /\ cons'.buf = cons.buf /\ cons'.w = cons.w /\ cons'.r = cons.r /\ cons'.e = i
  BY <1>1, <1>2, <1>4, <1>5, Zenon DEF ConsRecs
<1>7. Pictured(cons', text', line')
  BY <1>1, <1>2, <1>4, <1>6, PictureErase, Zenon
<1>8. Len(text) \in Nat /\ Len(line) \in Nat /\ Len(line) - k \in 0 .. Len(line)
  BY <1>2
<1>9. line' \in Seq(Chars) /\ Len(line') = Len(line) - k
  BY <1>1, <1>2, <1>8, Parts
<1>10. Len(text') + Len(line') = INPUT_BUF => Len(text') # 0
  <2>1. Len(text) + Len(line) <= INPUT_BUF
    BY <1>2, Zenon DEF Pictured
  <2>2. Len(text) + Len(line) = INPUT_BUF => Len(text) # 0
    BY Zenon DEF InSide
  <2> QED
    BY <1>1, <1>8, <1>9, <2>1, <2>2, ConsConstants
<1>11. \A p \in Readers : Line(rd'[p]) /\ (rd'[p].pc = "sleep" => Len(text') = 0 /\ p \notin killed')
  BY <1>1, Zenon DEF InSide
<1> QED
  BY <1>1, <1>2, <1>6, <1>7, <1>9, <1>10, <1>11, Zenon DEF InSide

(* wakeup() changes no more than the state of the sleepers.                *)
LEMMA WakesReaders ==
  ASSUME InSide, rd' = WakeReaders(rd)
  PROVE  /\ rd' \in [Readers -> RdRecs]
         /\ \A p \in Readers : Line(rd'[p]) /\ rd'[p].pc # "sleep"
<1>1. ASSUME NEW p \in Readers PROVE rd'[p] \in RdRecs /\ Line(rd'[p]) /\ rd'[p].pc # "sleep"
  <2>1. PICK me : me = rd[p]
    BY Zenon
  <2>2. me \in RdRecs /\ Line(me)
    BY <2>1, Zenon DEF InSide
  <2>3. CASE me.pc = "sleep"
    <3>1. rd'[p] = [me EXCEPT !.pc = "start"]
      BY <2>1, <2>3, Zenon DEF WakeReaders
    <3>2. PICK q : q = [me EXCEPT !.pc = "start"]
      BY Zenon
    <3>3. q \in RdRecs /\ q.pc = "start" /\ q.got = me.got
      BY <2>2, <3>2, Zenon DEF RdRecs
    <3>4. Line(q)
      BY <2>2, <2>3, <3>3, Zenon DEF Line
    <3> QED
      BY <3>1, <3>2, <3>3, <3>4, Zenon
  <2>4. CASE me.pc # "sleep"
    <3>1. rd'[p] = me
      BY <2>1, <2>4, Zenon DEF WakeReaders
    <3> QED
      BY <2>2, <2>4, <3>1, Zenon
  <2> QED
    BY <2>3, <2>4, Zenon
<1>2. rd' = [p \in Readers |-> rd'[p]]
  BY Zenon DEF WakeReaders
<1> QED
  BY <1>1, <1>2, Zenon

(* consoleintr() stores a character.                                       *)
LEMMA StoreStep ==
  ASSUME InSide, NEW c \in Chars, Room, Store(c, Plus(cons.e, 1)), killed' = killed
  PROVE  InSide'
<1>1. /\ cons \in ConsRecs /\ text \in Seq(Chars) /\ line \in Seq(Chars) /\ Pictured(cons, text, line)
      /\ rd \in [Readers -> RdRecs]
  BY Zenon DEF InSide
<1>2. PICK T, L : T = Len(text) /\ L = Len(line)
  BY Zenon
<1>3. T \in Nat /\ L \in Nat /\ Len(text \o line) = T + L
  BY <1>1, <1>2, Joined
<1>4. T + L < INPUT_BUF
  BY <1>1, <1>2, PictureSays, Zenon DEF Room
<1>5. PICK full \in BOOLEAN : full <=> c \in {NL, EOF} \/ T + L + 1 = INPUT_BUF
  BY Zenon
<1>6. PICK e, g : e = Plus(cons.e, 1) /\ g = cons.e % INPUT_BUF
  BY Zenon
<1>7. Complete(c, e) <=> full
  <2>1. Plus(cons.e, 1) = Plus(cons.r, INPUT_BUF) <=> Len(text) + Len(line) + 1 = INPUT_BUF
    BY <1>1, <1>2, <1>4, FullIs, Zenon
  <2> QED
    BY <1>2, <1>5, <1>6, <2>1, Zenon DEF Complete
<1>8. e \in Uint /\ g \in 0 .. INPUT_BUF - 1
  <2>1. cons.e \in Int /\ 1 \in Int
    BY <1>1 DEF ConsRecs, Uint
  <2> QED
    <3>1. e \in Uint
      BY <1>6, <2>1, WrappedPlace, Zenon
    <3>2. PICK x \in Int : x = cons.e
      BY <2>1, Zenon
    <3>3. x % INPUT_BUF \in 0 .. INPUT_BUF - 1
      BY DivMod, ConsConstants
    <3> QED
      BY <1>6, <3>1, <3>2, <3>3, Zenon
<1>9. PICK b, w : b = [cons.buf EXCEPT ![g] = c] /\ w = (IF full THEN e ELSE cons.w)
  BY Zenon
<1>10. cons' = [buf |-> b, r |-> cons.r, e |-> e, w |-> w]
  BY <1>6, <1>7, <1>9, Zenon DEF Store
<1>11. b \in [0 .. INPUT_BUF - 1 -> Chars] /\ w \in Uint /\ cons.r \in Uint
  BY <1>1, <1>8, <1>9, Zenon DEF ConsRecs
<1>12. /\ cons' \in ConsRecs /\ cons'.buf = b /\ cons'.r = cons.r /\ cons'.e = e /\ cons'.w = w
  BY <1>8, <1>10, <1>11, Zenon DEF ConsRecs
<1>13. b[g] = c /\ \A j \in 0 .. INPUT_BUF - 1 : j # g => b[j] = cons.buf[j]
  BY <1>1, <1>8, <1>9, Zenon DEF ConsRecs
<1>14. /\ cons'.w = cons'.e => Pictured(cons', text \o Append(line, c), <<>>)
       /\ cons'.w = cons.w => Pictured(cons', text, Append(line, c))
  <2>1. PICK d : d = cons'
    BY Zenon
  <2>2. /\ d \in ConsRecs /\ d.r = cons.r /\ d.e = Plus(cons.e, 1)
        /\ d.buf[cons.e % INPUT_BUF] = c
        /\ \A j \in 0 .. INPUT_BUF - 1 : j # cons.e % INPUT_BUF => d.buf[j] = cons.buf[j]
    BY <1>6, <1>12, <1>13, <2>1, Zenon
  <2>3. Len(text) + Len(line) < INPUT_BUF
    BY <1>2, <1>4, Zenon
  <2>4. /\ d.w = d.e => Pictured(d, text \o Append(line, c), <<>>)
        /\ d.w = cons.w => Pictured(d, text, Append(line, c))
    BY <1>1, <2>2, <2>3, PictureStore, Zenon
  <2> QED
    BY <2>1, <2>4, Zenon
<1>15. CASE full
  <2>1. text' = text \o Append(line, c) /\ line' = <<>> /\ rd' = WakeReaders(rd)
    BY <1>3, <1>5, <1>6, <1>7, <1>15, Zenon DEF Store
  <2>2. text' \in Seq(Chars) /\ line' \in Seq(Chars) /\ Len(text') = T + L + 1
    BY <1>1, <1>2, <2>1
  <2>3. Pictured(cons', text', line')
    BY <1>9, <1>12, <1>14, <1>15, <2>1, Zenon
  <2>4. rd' \in [Readers -> RdRecs] /\ \A p \in Readers : Line(rd'[p]) /\ rd'[p].pc # "sleep"
    BY <2>1, WakesReaders, Zenon
  <2>5. Len(text') # 0
    BY <1>3, <2>2
  <2> QED
    BY <1>12, <2>2, <2>3, <2>4, <2>5, Zenon DEF InSide
<1>16. CASE ~full
  <2>1. text' = text /\ line' = Append(line, c) /\ rd' = rd
    BY <1>3, <1>5, <1>6, <1>7, <1>16, Zenon DEF Store
  <2>2. text' \in Seq(Chars) /\ line' \in Seq(Chars) /\ Len(line') = L + 1
    BY <1>1, <1>2, <2>1
  <2>3. Pictured(cons', text', line')
    BY <1>9, <1>12, <1>14, <1>16, <2>1, Zenon
  <2>4. Len(text') + Len(line') # INPUT_BUF
    BY <1>2, <1>3, <1>5, <1>16, <2>1, <2>2
  <2>5. \A p \in Readers : Line(rd'[p]) /\ (rd'[p].pc = "sleep" => Len(text') = 0 /\ p \notin killed')
    BY <2>1, Zenon DEF InSide
  <2> QED
    BY <1>1, <1>12, <2>1, <2>2, <2>3, <2>4, <2>5, Zenon DEF InSide
<1> QED
  BY <1>15, <1>16, Zenon

(* consoleintr()                                                           *)
LEMMA CharStep ==
  ASSUME InSide, NEW c \in Chars, consoleintr(c), killed' = killed
  PROVE  InSide'
<1>1. Dist(cons.w, cons.e) = Len(line) /\ (cons.w = cons.e <=> Len(line) = 0)
  BY PictureSays, Zenon DEF InSide
<1>2. Len(line) \in Nat
  BY DEF InSide
<1>3. CASE c = KILL
  <2>1. c # DUMP /\ c # ERASE
    BY <1>3, CharAssumption, Zenon
  <2>2. \E k \in 0 .. Dist(cons.w, cons.e) : Kills(Window(cons.w, cons.e), k) /\ Erase(k)
    BY <1>3, <2>1, Zenon DEF consoleintr
  <2>3. PICK k \in 0 .. Dist(cons.w, cons.e) : Erase(k)
    BY <2>2, Zenon
  <2> QED
    BY <1>1, <2>3, EraseStep, Zenon
<1>4. CASE c = ERASE
  <2>1. c # KILL /\ c # DUMP
    BY <1>4, CharAssumption, Zenon
  <2>2. Erase(IF cons.e # cons.w THEN 1 ELSE 0)
    BY <1>4, <2>1, Zenon DEF consoleintr
  <2>3. PICK k : k = IF cons.e # cons.w THEN 1 ELSE 0
    BY Zenon
  <2>4. k \in 0 .. Len(line)
    BY <1>1, <1>2, <2>3
  <2> QED
    BY <2>2, <2>3, <2>4, EraseStep, Zenon
<1>5. CASE c \notin {DUMP, KILL, ERASE, NUL} /\ Room
  <2>1. PICK d : d = Stored(c)
    BY Zenon
  <2>2. d \in Chars
    BY <2>1, CharAssumption, Zenon DEF Stored
  <2>3. Store(d, Plus(cons.e, 1))
    BY <1>5, <2>1, Zenon DEF consoleintr
  <2> QED
    BY <1>5, <2>2, <2>3, StoreStep, Zenon
<1>6. CASE c = DUMP \/ (c \notin {DUMP, KILL, ERASE} /\ (c = NUL \/ ~Room))
  <2>1. CASE c = DUMP
    <3>1. c # KILL /\ c # ERASE
      BY <2>1, CharAssumption, Zenon
    <3>2. procdump
      BY <2>1, <3>1, Zenon DEF consoleintr
    <3> QED
      BY <3>2, InAlike, Zenon DEF procdump
  <2>2. CASE c \notin {DUMP, KILL, ERASE} /\ (c = NUL \/ ~Room)
    <3>1. UNCHANGED <<cons, text, line, rd>>
      BY <2>2, Zenon DEF consoleintr
    <3> QED
      BY <3>1, InAlike, Zenon
  <2> QED
    BY <1>6, <2>1, <2>2, Zenon
<1> QED
  BY <1>3, <1>4, <1>5, <1>6, Zenon

(* read() begins.                                                          *)
LEMMA CallStep ==
  ASSUME InSide, NEW p \in Readers, read_call(p)
  PROVE  InSide'
<1>1. PICK me : me = rd[p]
  BY Zenon
<1>2. me \in RdRecs /\ me.reads # <<>> /\ me.reads \in Seq(Reads)
  BY <1>1, Zenon DEF InSide, read_call, RdRecs
<1>3. PICK job, rest : job = Head(me.reads) /\ rest = Tail(me.reads)
  BY Zenon
<1>4. job \in Reads /\ rest \in Seq(Reads)
  BY <1>2, <1>3
<1>5. PICK q : q = [pc |-> "start", n |-> job.n, got |-> <<>>, bad |-> job.bad, reads |-> rest]
  BY Zenon
<1>6. rd' = [rd EXCEPT ![p] = q]
  BY <1>1, <1>3, <1>5, Zenon DEF read_call
<1>7. q \in RdRecs
  BY <1>4, <1>5 DEF RdRecs, Reads
<1>8. q.pc = "start" /\ q.got = <<>>
  BY <1>5, Zenon
<1>9. Line(q)
  BY <1>8 DEF Line
<1>10. UNCHANGED <<cons, text, line, killed>>
  BY Zenon DEF read_call
<1>11. /\ rd' \in [Readers -> RdRecs]
       /\ \A t \in Readers : Line(rd'[t])
       /\ \A t \in Readers : rd'[t].pc = "sleep" => rd[t].pc = "sleep"
  BY <1>6, <1>7, <1>8, <1>9, Zenon DEF InSide
<1> QED
  BY <1>10, <1>11, Zenon DEF InSide

(* kill() of a reader.                                                     *)
LEMMA KillStep ==
  ASSUME InSide, NEW p \in Readers, cons_kill(p)
  PROVE  InSide'
<1>1. PICK me, q : me = rd[p] /\ q = [me EXCEPT !.pc = "start"]
  BY Zenon
<1>2. me \in RdRecs /\ me.pc # "idle" /\ Line(me)
  BY <1>1, Zenon DEF InSide, cons_kill
<1>3. rd' = [rd EXCEPT ![p] = q] /\ killed' = killed \cup {p} /\ UNCHANGED <<cons, text, line>>
  BY <1>1, Zenon DEF cons_kill
<1>4. q \in RdRecs /\ q.pc = "start" /\ q.got = me.got
  BY <1>1, <1>2, Zenon DEF RdRecs
<1>5. Line(q)
  BY <1>2, <1>4, Zenon DEF Line
<1>6. /\ rd' \in [Readers -> RdRecs]
      /\ \A t \in Readers : Line(rd'[t])
      /\ \A t \in Readers : rd'[t].pc = "sleep" => t # p /\ rd[t].pc = "sleep"
  BY <1>3, <1>4, <1>5, Zenon DEF InSide
<1> QED
  BY <1>3, <1>6, Zenon DEF InSide

-----------------------------------------------------------------------------
(* The steps on the output side.                                           *)

(* uartintr() sends what waits.                                            *)
LEMMA EndStep ==
  ASSUME OutSide, uart_end
  PROVE  OutSide' /\ TxRestarts'
<1>1. uartstart(tx) /\ wr' = wr /\ put' = put
  BY Zenon DEF uart_end, Restart
<1>2. tx \in TxRecs /\ out \in Seq(Chars) /\ Queued(tx, out, put)
  BY Zenon DEF OutSide
<1>3. /\ tx' \in TxRecs /\ out' \in Seq(Chars) /\ Queued(tx', out', put)
      /\ tx'.w # tx'.r => ~thrIdle'
  BY <1>1, <1>2, Starts, Zenon
<1> QED
  BY <1>1, <1>3, Zenon DEF OutSide, TxRestarts

(* uartputc()                                                              *)
LEMMA PutcStep ==
  ASSUME OutSide, TxRestarts, NEW p \in Writers, uartputc(p)
  PROVE  OutSide' /\ TxRestarts'
<1>1. CASE Full
  <2>1. UNCHANGED <<wr, tx, out, put, thrIdle, uirq, uintr>>
    BY <1>1, Zenon DEF uartputc
  <2> QED
    BY <2>1, OutAlike, Zenon DEF TxRestarts
<1>2. CASE ~Full
  <2>1. tx \in TxRecs /\ out \in Seq(Chars) /\ put \in Seq(Chars) /\ Queued(tx, out, put)
    BY Zenon DEF OutSide
  <2>2. wr[p] \in Seq(Chars) /\ wr[p] # <<>> /\ wr \in [Writers -> Seq(Chars)]
    BY Zenon DEF OutSide, uartputc
  <2>3. PICK c, rest : c = Head(wr[p]) /\ rest = Tail(wr[p])
    BY Zenon
  <2>4. c \in Chars /\ rest \in Seq(Chars)
    BY <2>2, <2>3
  <2>5. PICK b, w, u : /\ b = [tx.buf EXCEPT ![tx.w] = c] /\ w = (tx.w + 1) % UART_TX_BUF_SIZE
                       /\ u = [buf |-> b, w |-> w, r |-> tx.r]
    BY Zenon
  <2>6. uartstart(u) /\ put' = Append(put, c) /\ wr' = [wr EXCEPT ![p] = rest]
    BY <1>2, <2>3, <2>5, Zenon DEF uartputc
  <2>7. tx.buf \in [TxPlaces -> Chars] /\ tx.w \in TxPlaces /\ tx.r \in TxPlaces
    BY <2>1, Zenon DEF TxRecs
  <2>8. w \in TxPlaces
    <3>1. PICK y \in Int : y = tx.w + 1
      BY <2>7, ConsConstants DEF TxPlaces
    <3>2. y % UART_TX_BUF_SIZE \in 0 .. UART_TX_BUF_SIZE - 1
      BY ConsConstants, DivMod
    <3> QED
      BY <2>5, <3>1, <3>2, Zenon DEF TxPlaces
  <2>9. b \in [TxPlaces -> Chars] /\ b[tx.w] = c /\ \A j \in TxPlaces : j # tx.w => b[j] = tx.buf[j]
    BY <2>4, <2>5, <2>7, Zenon
  <2>10. u \in TxRecs /\ u.r = tx.r /\ u.w = w /\ u.buf = b
    BY <2>5, <2>7, <2>8, <2>9, Zenon DEF TxRecs
  <2>11. Queued(u, out, Append(put, c))
    <3>1. PICK t : t = tx
      BY Zenon
    <3>2. /\ t \in TxRecs /\ Queued(t, out, put) /\ (t.w + 1) % UART_TX_BUF_SIZE # t.r
          /\ u.r = t.r /\ u.w = (t.w + 1) % UART_TX_BUF_SIZE /\ u.buf[t.w] = c
          /\ \A j \in TxPlaces : j # t.w => u.buf[j] = t.buf[j]
      BY <1>2, <2>1, <2>5, <2>9, <2>10, <3>1, Zenon DEF Full
    <3> QED
      BY <2>1, <2>4, <2>10, <3>2, QueuedPush, Zenon
  <2>12. /\ tx' \in TxRecs /\ out' \in Seq(Chars) /\ Queued(tx', out', Append(put, c))
         /\ tx'.w # tx'.r => ~thrIdle'
    BY <2>1, <2>6, <2>10, <2>11, Starts, Zenon
  <2>13. wr' \in [Writers -> Seq(Chars)] /\ put' \in Seq(Chars)
    BY <2>1, <2>2, <2>4, <2>6
  <2> QED
    BY <2>6, <2>12, <2>13, Zenon DEF OutSide, TxRestarts
<1> QED
  BY <1>1, <1>2, Zenon

-----------------------------------------------------------------------------
(* Every step keeps the invariant.                                         *)
LEMMA ConsStep ==
  ASSUME ConsInv, [ConsNext]_consVars
  PROVE  ConsInv'
<1>0. InSide /\ OutSide /\ KeySide /\ TxRestarts
  BY Sides, Zenon
<1>1. ASSUME NEW p \in Readers, read_call(p) PROVE ConsInv'
  <2>1. InSide'
    BY <1>0, <1>1, CallStep, Zenon
  <2>2. UNCHANGED <<wr, tx, out, put, thrIdle, rx, typed, uirq, uintr>>
    BY <1>1, Zenon DEF read_call
  <2>3. OutSide' /\ KeySide' /\ TxRestarts'
    BY <1>0, <2>2, OutAlike, Zenon DEF KeySide, TxRestarts
  <2> QED
    BY <2>1, <2>3, SidesNext, Zenon
<1>2. ASSUME NEW p \in Readers, consoleread(p) PROVE ConsInv'
  <2>1. InSide'
    BY <1>0, <1>2, ReadStep, Zenon
  <2>2. UNCHANGED <<wr, tx, out, put, thrIdle, rx, typed, uirq, uintr>>
    BY <1>2, Zenon DEF consoleread
  <2>3. OutSide' /\ KeySide' /\ TxRestarts'
    BY <1>0, <2>2, OutAlike, Zenon DEF KeySide, TxRestarts
  <2> QED
    BY <2>1, <2>3, SidesNext, Zenon
<1>3. ASSUME NEW p \in Readers, cons_kill(p) PROVE ConsInv'
  <2>1. InSide'
    BY <1>0, <1>3, KillStep, Zenon
  <2>2. UNCHANGED <<wr, tx, out, put, thrIdle, rx, typed, uirq, uintr>>
    BY <1>3, Zenon DEF cons_kill
  <2>3. OutSide' /\ KeySide' /\ TxRestarts'
    BY <1>0, <2>2, OutAlike, Zenon DEF KeySide, TxRestarts
  <2> QED
    BY <2>1, <2>3, SidesNext, Zenon
<1>4. ASSUME NEW p \in Writers, uartputc(p) PROVE ConsInv'
  <2>1. UNCHANGED <<cons, text, line, rd, killed, rx, typed>>
    BY <1>4, Zenon DEF uartputc
  <2>2. InSide' /\ KeySide'
    BY <1>0, <2>1, InAlike, Zenon DEF KeySide
  <2>3. OutSide' /\ TxRestarts'
    BY <1>0, <1>4, PutcStep, Zenon
  <2> QED
    BY <2>2, <2>3, SidesNext, Zenon
<1>5. ASSUME NEW p \in Writers, write_begin(p) \/ write_end(p) PROVE ConsInv'
  <2>1. UNCHANGED <<cons, text, line, rd, killed, wr, tx, out, put, thrIdle, rx, typed, uirq, uintr>>
    BY <1>5, Zenon DEF write_begin, write_end
  <2>2. InSide' /\ OutSide' /\ KeySide' /\ TxRestarts'
    BY <1>0, <2>1, InAlike, OutAlike, Zenon DEF KeySide, TxRestarts
  <2> QED
    BY <2>2, SidesNext, Zenon
<1>6. CASE uart_begin
  <2>1. UNCHANGED <<cons, text, line, rd, killed, wr, tx, out, put, rx, typed>> /\ uintr' = TRUE
    BY <1>6, Zenon DEF uart_begin
  <2>2. InSide' /\ OutSide' /\ KeySide' /\ TxRestarts'
    BY <1>0, <2>1, InAlike, OutAlike, Zenon DEF KeySide, TxRestarts
  <2> QED
    BY <2>2, SidesNext, Zenon
<1>7. CASE uart_char
  <2>1. /\ uintr /\ rx # <<>> /\ consoleintr(Head(rx)) /\ rx' = Tail(rx)
        /\ UNCHANGED <<killed, wr, tx, out, put, typed, uintr>>
    BY <1>7, Zenon DEF uart_char
  <2>2. rx \in Seq(Chars) /\ typed \in Seq(Chars)
    BY <1>0, Zenon DEF KeySide
  <2>3. Head(rx) \in Chars /\ Tail(rx) \in Seq(Chars)
    BY <2>1, <2>2
  <2>4. PICK c : c = Head(rx)
    BY Zenon
  <2>5. c \in Chars /\ consoleintr(c) /\ killed' = killed
    BY <2>1, <2>3, <2>4, Zenon
  <2>6. InSide'
    BY <1>0, <2>5, CharStep, Zenon
  <2>7. OutSide' /\ KeySide' /\ TxRestarts'
    BY <1>0, <2>1, <2>2, <2>3, OutAlike, Zenon DEF KeySide, TxRestarts
  <2> QED
    BY <2>6, <2>7, SidesNext, Zenon
<1>8. CASE uart_end
  <2>1. UNCHANGED <<cons, text, line, rd, killed, rx, typed>>
    BY <1>8, Zenon DEF uart_end
  <2>2. InSide' /\ KeySide'
    BY <1>0, <2>1, InAlike, Zenon DEF KeySide
  <2>3. OutSide' /\ TxRestarts'
    BY <1>0, <1>8, EndStep, Zenon
  <2> QED
    BY <2>2, <2>3, SidesNext, Zenon
<1>9. CASE uart_rx
  <2>1. /\ UNCHANGED <<cons, text, line, rd, killed, wr, tx, out, put>> /\ uirq' = TRUE
        /\ typed # <<>> /\ rx' = Append(rx, Head(typed)) /\ typed' = Tail(typed)
    BY <1>9, Zenon DEF uart_rx
  <2>2. KeySide'
    BY <1>0, <2>1 DEF KeySide
  <2>3. InSide' /\ OutSide' /\ TxRestarts'
    BY <1>0, <2>1, InAlike, OutAlike, Zenon DEF TxRestarts
  <2> QED
    BY <2>2, <2>3, SidesNext, Zenon
<1>10. CASE uart_sent
  <2>1. UNCHANGED <<cons, text, line, rd, killed, wr, tx, out, put, rx, typed>> /\ uirq' = TRUE
    BY <1>10, Zenon DEF uart_sent
  <2>2. InSide' /\ OutSide' /\ KeySide' /\ TxRestarts'
    BY <1>0, <2>1, InAlike, OutAlike, Zenon DEF KeySide, TxRestarts
  <2> QED
    BY <2>2, SidesNext, Zenon
<1>11. CASE UNCHANGED consVars
  <2>1. UNCHANGED <<cons, text, line, rd, killed, wr, tx, out, put, thrIdle, rx, typed, uirq, uintr>>
    BY <1>11, Zenon DEF consVars
  <2>2. InSide' /\ OutSide' /\ KeySide' /\ TxRestarts'
    BY <1>0, <2>1, InAlike, OutAlike, Zenon DEF KeySide, TxRestarts
  <2> QED
    BY <2>2, SidesNext, Zenon
<1> QED
  BY <1>1, <1>2, <1>3, <1>4, <1>5, <1>6, <1>7, <1>8, <1>9, <1>10, <1>11, Zenon DEF ConsNext, uartintr

(* The console starts with both rings empty.                               *)
LEMMA ConsStart ==
  ASSUME NEW reads \in [Readers -> Seq(Reads)], NEW writes \in [Writers -> Seq(Chars)],
         NEW keys \in Seq(Chars), ConsInit(reads, writes, keys)
  PROVE  ConsInv
<1>1. NL \in Chars /\ 0 \in Uint /\ 0 \in TxPlaces /\ <<>> \in Seq(Chars)
  BY CharAssumption, ConsConstants DEF Uint, TxPlaces
<1>2. /\ cons \in ConsRecs /\ cons.r = 0 /\ cons.w = 0 /\ cons.e = 0
  BY <1>1, Zenon DEF ConsInit, ConsRecs
<1>3. tx \in TxRecs /\ tx.w = 0 /\ tx.r = 0
  BY <1>1, Zenon DEF ConsInit, TxRecs, TxPlaces
<1>4. text = <<>> /\ line = <<>> /\ out = <<>> /\ put = <<>> /\ rx = <<>> /\ typed = keys /\ wr = writes
  BY Zenon DEF ConsInit
<1>5. ASSUME NEW p \in Readers
      PROVE  rd[p] \in RdRecs /\ rd[p].pc = "idle" /\ rd[p].got = <<>>
  BY <1>1, <1>5, Zenon DEF ConsInit, RdRecs
<1>6. rd \in [Readers -> RdRecs]
  <2>1. rd = [p \in Readers |-> rd[p]]
    BY Zenon DEF ConsInit
  <2> QED
    BY <1>5, <2>1, Zenon
<1>7. ConsTypeOK
  BY <1>1, <1>2, <1>3, <1>4, <1>6, Zenon DEF ConsTypeOK, ConsRecs, TxRecs
<1>8. LineBuffer
  <2>1. Plus(0, 0) = 0
    BY <1>1, PlusZero, Zenon
  <2>2. Len(<<>>) = 0 /\ Len(<<>> \o <<>>) = 0 /\ 0 + 0 = 0 /\ 0 <= INPUT_BUF
    BY ConsConstants
  <2>3. Holds(cons.buf, INPUT_BUF, 0, <<>> \o <<>>)
    BY <2>2 DEF Holds
  <2>4. Pictured(cons, text, line)
    BY <1>2, <1>4, <2>1, <2>2, <2>3, Zenon DEF Pictured
  <2>5. text \in Seq(Chars) /\ line \in Seq(Chars)
    BY <1>1, <1>4, Zenon
  <2> QED
    BY <1>2, <2>4, <2>5, PictureIs, Zenon DEF LineBuffer, Window
<1>9. TxFifo
  <2>1. (0 - 0) % UART_TX_BUF_SIZE = 0
    BY ConsConstants
  <2>2. Holds(tx.buf, UART_TX_BUF_SIZE, tx.r, <<>>) /\ Len(<<>>) = 0
    BY DEF Holds
  <2>3. <<>> = <<>> \o <<>>
    OBVIOUS
  <2>4. Queued(tx, out, put)
    BY <1>1, <1>3, <1>4, <2>1, <2>2, <2>3, Zenon DEF Queued
  <2>5. out \in Seq(Chars) /\ put \in Seq(Chars)
    BY <1>1, <1>4, Zenon
  <2> QED
    BY <1>3, <2>4, <2>5, QueuedIs, Zenon DEF TxFifo
<1>10. OneLine /\ ReadsOn /\ ReadersWait
  <2>1. ReadsOn /\ ReadersWait
    BY <1>5, Zenon DEF ReadsOn, ReadersWait
  <2>2. OneLine
    BY <1>5 DEF OneLine
  <2> QED
    BY <2>1, <2>2, Zenon
<1>11. Handed /\ TxRestarts
  BY <1>3, <1>4, ConsConstants DEF Handed, TxRestarts
<1> QED
  BY <1>7, <1>8, <1>9, <1>10, <1>11, Zenon DEF ConsInv

(* The rings, the indices and the reads always satisfy the inductive       *)
(* invariant (console.c, uart.c).                                          *)
THEOREM ConsInvariance ==
  ASSUME NEW reads \in [Readers -> Seq(Reads)], NEW writes \in [Writers -> Seq(Chars)],
         NEW keys \in Seq(Chars)
  PROVE  ConsInit(reads, writes, keys) /\ [][ConsNext]_consVars => []ConsInv
<1>1. ConsInit(reads, writes, keys) => ConsInv
  BY ConsStart, Zenon
<1>2. ConsInv /\ [ConsNext]_consVars => ConsInv'
  BY ConsStep, Zenon
<1> QED
  BY <1>1, <1>2, PTL

(* A full buffer has a line to read.                                       *)
LEMMA FullIsReadable ==
  ASSUME ConsInv
  PROVE  FullReadable
<1>1. /\ cons \in ConsRecs /\ text \in Seq(Chars) /\ line \in Seq(Chars) /\ Pictured(cons, text, line)
      /\ Len(text) + Len(line) = INPUT_BUF => Len(text) # 0
  BY Sides, Zenon DEF InSide
<1>2. Dist(cons.r, cons.e) = Len(text) + Len(line) /\ (cons.r = cons.w <=> Len(text) = 0)
  BY <1>1, PictureSays, Zenon
<1>3. Len(text) + Len(line) <= INPUT_BUF /\ Len(text) \in Nat /\ Len(line) \in Nat
  BY <1>1 DEF Pictured
<1> QED
  BY <1>1, <1>2, <1>3, ConsConstants DEF FullReadable, Room

(* What is typed is read, line by line, and what is written is sent, in    *)
(* order and once, and nobody waits beside it (consoleread(),              *)
(* consoleintr(), uartputc(), uartstart(), uartintr()).                    *)
THEOREM ConsoleAgrees ==
  ASSUME NEW reads \in [Readers -> Seq(Reads)], NEW writes \in [Writers -> Seq(Chars)],
         NEW keys \in Seq(Chars)
  PROVE  ConsInit(reads, writes, keys) /\ [][ConsNext]_consVars => []ConsoleExact
<1>1. ConsInv => ConsoleExact
  BY FullIsReadable, Zenon DEF ConsInv, ConsoleExact
<1> QED
  BY <1>1, ConsInvariance, PTL

-----------------------------------------------------------------------------
(* A ^D is read alone: the read that takes it returns 0 bytes, so that its *)
(* caller sees the end of file (consoleread()).                            *)
THEOREM EofReadAlone ==
  ASSUME NEW reads \in [Readers -> Seq(Reads)], NEW writes \in [Writers -> Seq(Chars)],
         NEW keys \in Seq(Chars)
  PROVE  ConsInit(reads, writes, keys) /\ [][ConsNext]_consVars => EofAlone
<1>1. ASSUME ConsInv, [ConsNext]_consVars
      PROVE  [(\E i \in 1 .. Len(text) - Len(text') : text[i] = EOF)
                => \E p \in Readers : rd[p].pc = "start" /\ rd'[p].pc = "idle" /\ rd'[p].got = <<>>]_consVars
  <2>0. InSide /\ KeySide
    BY <1>1, Sides, Zenon
  <2>1. text \in Seq(Chars) /\ line \in Seq(Chars) /\ rd \in [Readers -> RdRecs]
    BY <2>0, Zenon DEF InSide
  <2>2. SUFFICES ASSUME ConsNext, NEW i \in 1 .. Len(text) - Len(text'), text[i] = EOF
                 PROVE  \E p \in Readers : rd[p].pc = "start" /\ rd'[p].pc = "idle" /\ rd'[p].got = <<>>
    BY <1>1, Zenon
  <2>3. text' # text
    BY <2>1, <2>2
  <2>4. CASE uart_char
    <3>1. PICK c : c = Head(rx)
      BY Zenon
    <3>2. consoleintr(c) /\ c \in Chars
      BY <2>0, <2>4, <3>1 DEF uart_char, KeySide
    <3>3. c \notin {DUMP, KILL, ERASE, NUL} /\ Room
      BY <2>3, <3>2, CharAssumption, Zenon DEF consoleintr, Erase, procdump
    <3>4. PICK d : d = Stored(c)
      BY Zenon
    <3>5. Store(d, Plus(cons.e, 1)) /\ d \in Chars
      BY <3>2, <3>3, <3>4, CharAssumption, Zenon DEF consoleintr, Stored
    <3>6. text' = text \o Append(line, d)
      BY <2>3, <3>5, Zenon DEF Store
    <3>7. Len(text') = Len(text) + Len(line) + 1
      BY <2>1, <3>5, <3>6
    <3> QED
      BY <2>1, <2>2, <3>7
  <2>5. ASSUME NEW p \in Readers, consoleread(p)
        PROVE  rd[p].pc = "start" /\ rd'[p].pc = "idle" /\ rd'[p].got = <<>>
    <3>1. rd[p].pc = "start" /\ \E k \in 0 .. Len(Window(cons.r, cons.w)) : Pass(p, k)
      BY <2>5, Zenon DEF consoleread
    <3>2. PICK q \in RdRecs, n \in 0 .. Len(text) :
             /\ text' = SubSeq(text, n + 1, Len(text))
             /\ rd' = [rd EXCEPT ![p] = q]
             /\ \A j \in 1 .. n : text[j] = EOF => q.pc = "idle" /\ q.got = <<>>
      BY <2>0, <3>1, PassIs, Zenon
    <3>3. i \in 1 .. n
      <4>1. Len(text') = Len(text) - n /\ Len(text) \in Nat
        BY <2>1, <3>2
      <4> QED
        BY <2>2, <4>1
    <3>4. rd'[p] = q
      BY <2>1, <3>2, Zenon
    <3> QED
      BY <2>2, <3>1, <3>2, <3>3, <3>4, Zenon
  <2>6. \/ uart_char
        \/ \E p \in Readers : consoleread(p)
    BY <2>2, <2>3, Zenon DEF ConsNext, uartintr, read_call, cons_kill, write_begin, uartputc, write_end,
                      uart_begin, uart_end, uart_rx, uart_sent
  <2> QED
    BY <2>4, <2>5, <2>6, Zenon
<1> QED
  BY <1>1, ConsInvariance, PTL DEF EofAlone
=============================================================================
