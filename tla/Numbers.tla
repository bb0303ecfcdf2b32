------------------------------ MODULE Numbers -------------------------------
(***************************************************************************)
(* Facts about remainders, for the counters that wrap and the rings that   *)
(* they index.                                                             *)
(***************************************************************************)
EXTENDS Integers, TLAPS

(* Division with remainder.                                                *)
LEMMA DivMod ==
  ASSUME NEW a \in Int, NEW d \in Nat \ {0}
  PROVE  \E q \in Int, r \in 0 .. d - 1 : a = d * q + r /\ a % d = r
<1>1. a % d \in 0 .. d - 1 /\ a \div d \in Int
  OBVIOUS
<1>2. a % d = a - d * (a \div d)
  OBVIOUS
<1>3. PICK q \in Int : q = a \div d
  BY <1>1
<1>4. PICK r \in 0 .. d - 1 : r = a % d
  BY <1>1
<1>5. r = a - d * q
  BY <1>2, <1>3, <1>4, Zenon
<1>6. a = d * q + r
  BY <1>5
<1> QED
  BY <1>4, <1>6, Zenon

(* The remainder is unique.                                                *)
LEMMA ModUnique ==
  ASSUME NEW d \in Nat \ {0}, NEW a \in Int, NEW q \in Int, NEW r \in 0 .. d - 1,
         a = d * q + r
  PROVE  a % d = r
  OBVIOUS

(* A number below d is its own remainder.                                  *)
LEMMA ModSmall ==
  ASSUME NEW d \in Nat \ {0}, NEW a \in 0 .. d - 1
  PROVE  a % d = a
  OBVIOUS

(* Numbers that differ by a multiple of d have the same remainder.         *)
LEMMA ModShift ==
  ASSUME NEW d \in Nat \ {0}, NEW a \in Int, NEW b \in Int, NEW k \in Int,
         b = a + d * k
  PROVE  b % d = a % d
<1>1. PICK q \in Int, r \in 0 .. d - 1 : a = d * q + r /\ a % d = r
  BY DivMod, Zenon
<1>2. PICK t \in Int : t = q + k
  OBVIOUS
<1>3. b = d * t + r
  BY <1>1, <1>2
<1>4. b % d = r
  BY <1>3, ModUnique, Zenon
<1> QED
  BY <1>1, <1>4, Zenon

(* Numbers less than d apart have different remainders.                    *)
LEMMA ModDiffer ==
  ASSUME NEW d \in Nat \ {0}, NEW a \in Int, NEW b \in Int, a < b, b < a + d
  PROVE  a % d # b % d
<1> SUFFICES ASSUME a % d = b % d PROVE FALSE
  OBVIOUS
<1>1. PICK q \in Int, r \in 0 .. d - 1 : a = d * q + r /\ a % d = r
  BY DivMod, Zenon
<1>2. PICK t \in Int, u \in 0 .. d - 1 : b = d * t + u /\ b % d = u
  BY DivMod, Zenon
<1>3. d * (t - q) = b - a
  BY <1>1, <1>2
<1>4. CASE t - q >= 1
  <2>1. d * (t - q) >= d
    BY <1>4
  <2> QED
    BY <1>3, <2>1
<1>5. CASE t - q <= 0
  <2>1. d * (t - q) <= 0
    BY <1>5
  <2> QED
    BY <1>3, <2>1
<1> QED
  BY <1>4, <1>5

(* A wrapped counter counts on like the counter it stands for.             *)
LEMMA ModStep ==
  ASSUME NEW d \in Nat \ {0}, NEW a \in Int, NEW c \in Int
  PROVE  ((a % d) + c) % d = (a + c) % d
<1>1. PICK q \in Int, r \in 0 .. d - 1 : a = d * q + r /\ a % d = r
  BY DivMod, Zenon
<1>2. PICK x \in Int, y \in Int : x = a + c /\ y = r + c
  OBVIOUS
<1>3. x = y + d * q
  BY <1>1, <1>2
<1>4. x % d = y % d
  BY <1>3, ModShift, Zenon
<1> QED
  BY <1>1, <1>2, <1>4, Zenon

(* The place in the ring does not depend on the wrapping.                  *)
LEMMA ModMod ==
  ASSUME NEW d \in Nat \ {0}, NEW e \in Nat \ {0}, e % d = 0, NEW a \in Int
  PROVE  (a % e) % d = a % d
<1>1. PICK q \in Int, r \in 0 .. e - 1 : a = e * q + r /\ a % e = r
  BY DivMod, Zenon
<1>0. e \in Int
  OBVIOUS
<1>2. PICK m \in Int, z \in 0 .. d - 1 : e = d * m + z /\ e % d = z
  BY <1>0, DivMod, Zenon
<1>3. e = d * m
  BY <1>2
<1>4. PICK k \in Int : k = m * q
  OBVIOUS
<1>5. e * q = d * k
  BY <1>3, <1>4
<1>6. a = r + d * k
  BY <1>1, <1>5
<1>7. r \in Int
  OBVIOUS
<1>8. a % d = r % d
  BY <1>6, <1>7, ModShift, Zenon
<1> QED
  BY <1>1, <1>8, Zenon

(* Equal remainders are a multiple of d apart.                             *)
LEMMA ModSame ==
  ASSUME NEW d \in Nat \ {0}, NEW a \in Int, NEW b \in Int, a % d = b % d
  PROVE  \E k \in Int : b = a + d * k
<1>1. PICK q \in Int, r \in 0 .. d - 1 : a = d * q + r /\ a % d = r
  BY DivMod, Zenon
<1>2. PICK t \in Int, u \in 0 .. d - 1 : b = d * t + u /\ b % d = u
  BY DivMod, Zenon
<1>3. r = u
  BY <1>1, <1>2, Zenon
<1>4. PICK k \in Int : k = t - q
  OBVIOUS
<1>5. b = a + d * k
  BY <1>1, <1>2, <1>3, <1>4
<1> QED
  BY <1>5, Zenon

(* The distance from f to e on a ring of d places, ...                     *)
LEMMA Distance ==
  ASSUME NEW d \in Nat \ {0}, NEW e \in Int, NEW f \in Int
  PROVE  /\ (e - f) % d \in 0 .. d - 1
         /\ (f + ((e - f) % d)) % d = e % d
         /\ (e - f) % d = 0 <=> e % d = f % d
<1>1. PICK x \in Int : x = e - f
  OBVIOUS
<1>2. PICK q \in Int, n \in 0 .. d - 1 : x = d * q + n /\ x % d = n
  BY DivMod, Zenon
<1>3. PICK y \in Int : y = f + n
  OBVIOUS
<1>4. e = y + d * q
  BY <1>1, <1>2, <1>3
<1>5. e % d = y % d
  BY <1>4, ModShift, Zenon
<1>6. n = 0 => e % d = f % d
  BY <1>3, <1>5
<1>7. n # 0 => e % d # f % d
  <2> SUFFICES ASSUME n # 0 PROVE f % d # y % d
    BY <1>5
  <2>1. f < y /\ y < f + d
    BY <1>3
  <2> QED
    BY <2>1, ModDiffer, Zenon
<1>8. (e - f) % d = n
  BY <1>1, <1>2, Zenon
<1>9. f + ((e - f) % d) = y
  BY <1>3, <1>8
<1> QED
  BY <1>5, <1>6, <1>7, <1>8, <1>9, Zenon

(* ... when e moves on, ...                                                *)
LEMMA Farther ==
  ASSUME NEW d \in Nat \ {0}, NEW e \in Int, NEW f \in Int, NEW g \in Int, g % d = (e + 1) % d,
         ((e - f) % d) + 1 < d
  PROVE  (g - f) % d = ((e - f) % d) + 1
<1>1. PICK x \in Int, y \in Int, z \in Int : x = e - f /\ y = x + 1 /\ z = e + 1
  OBVIOUS
<1>2. PICK q \in Int, n \in 0 .. d - 1 : x = d * q + n /\ x % d = n
  BY DivMod, Zenon
<1>3. (g - f) % d = (z - f) % d
  <2>1. z % d = g % d
    BY <1>1, Zenon
  <2>2. PICK k \in Int : g = z + d * k
    BY <2>1, ModSame, Zenon
  <2>3. PICK v \in Int, w \in Int : v = z - f /\ w = g - f
    OBVIOUS
  <2>4. w = v + d * k
    BY <2>2, <2>3
  <2>5. w % d = v % d
    BY <2>4, ModShift, Zenon
  <2> QED
    BY <2>3, <2>5, Zenon
<1>4. y = d * q + (n + 1) /\ z - f = y
  BY <1>1, <1>2
<1>5. (e - f) % d = n
  BY <1>1, <1>2, Zenon
<1>6. n + 1 \in 0 .. d - 1
  BY <1>5
<1>7. y % d = n + 1
  BY <1>4, <1>6, ModUnique, Zenon
<1> QED
  BY <1>3, <1>4, <1>5, <1>7, Zenon

(* ... and when f does.                                                    *)
LEMMA Nearer ==
  ASSUME NEW d \in Nat \ {0}, NEW e \in Int, NEW f \in Int, NEW g \in Int, g % d = (f + 1) % d,
         (e - f) % d # 0
  PROVE  (e - g) % d = ((e - f) % d) - 1
<1>1. PICK x \in Int, y \in Int, z \in Int : x = e - f /\ y = x - 1 /\ z = f + 1
  OBVIOUS
<1>2. PICK q \in Int, n \in 0 .. d - 1 : x = d * q + n /\ x % d = n
  BY DivMod, Zenon
<1>3. (e - g) % d = (e - z) % d
  <2>1. g % d = z % d
    BY <1>1, Zenon
  <2>2. PICK k \in Int : z = g + d * k
    BY <2>1, ModSame, Zenon
  <2>3. PICK v \in Int, w \in Int : v = e - z /\ w = e - g
    OBVIOUS
  <2>4. w = v + d * k
    BY <2>2, <2>3
  <2>5. w % d = v % d
    BY <2>4, ModShift, Zenon
  <2> QED
    BY <2>3, <2>5, Zenon
<1>4. y = d * q + (n - 1) /\ e - z = y
  BY <1>1, <1>2
<1>5. (e - f) % d = n
  BY <1>1, <1>2, Zenon
<1>6. n - 1 \in 0 .. d - 1
  BY <1>5
<1>7. y % d = n - 1
  BY <1>4, <1>6, ModUnique, Zenon
<1> QED
  BY <1>3, <1>4, <1>5, <1>7, Zenon

(* ... and k places farther at that end makes the distance k less.         *)
LEMMA NearerBy ==
  ASSUME NEW d \in Nat \ {0}, NEW e \in Int, NEW f \in Int, NEW k \in 0 .. (e - f) % d
  PROVE  (e - ((f + k) % d)) % d = ((e - f) % d) - k
<1>0. k \in Int
  BY DivMod
<1>1. PICK x \in Int, y \in Int, z \in Int : x = e - f /\ y = x - k /\ z = f + k
  BY <1>0
<1>2. PICK q \in Int, n \in 0 .. d - 1 : x = d * q + n /\ x % d = n
  BY DivMod, Zenon
<1>3. PICK j \in Int, g \in 0 .. d - 1 : z = d * j + g /\ z % d = g
  BY DivMod, Zenon
<1>4. PICK v \in Int : v = e - g
  BY <1>3
<1>5. n - k \in 0 .. d - 1 /\ q + j \in Int
  BY <1>0, <1>1, <1>2
<1>6. v = d * (q + j) + (n - k)
  <2>1. v = d * q + d * j + (n - k)
    BY <1>0, <1>1, <1>2, <1>3, <1>4
  <2>2. d * (q + j) = d * q + d * j
    BY <1>2, <1>3
  <2> QED
    BY <2>1, <2>2, Zenon
<1>7. v % d = n - k
  BY <1>5, <1>6, ModUnique, Zenon
<1> QED
  BY <1>1, <1>2, <1>3, <1>4, <1>7, Zenon
=============================================================================
