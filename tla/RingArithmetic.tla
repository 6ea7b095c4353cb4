--------------------------- MODULE RingArithmetic ---------------------------
(***************************************************************************)
(* What the proofs about ring buffers need to know of %: positions that    *)
(* count on for ever are reduced to slots, or to indices of limited width. *)
(***************************************************************************)
EXTENDS Integers, TLAPS

\* Only zero laps are shorter than a lap.
LEMMA ShortLaps ==
  ASSUME NEW m \in Nat \ {0}, NEW x \in Int, m * x < m, m * x > 0 - m
  PROVE  x = 0
<1>1. x >= 1 => m * x >= m
  OBVIOUS
<1>2. x <= 0 - 1 => m * x <= 0 - m
  OBVIOUS
<1> QED
  BY <1>1, <1>2

\* The remainder of a position is a slot.
LEMMA RemainderRange ==
  ASSUME NEW a \in Nat, NEW m \in Nat \ {0}
  PROVE  a % m \in 0 .. m - 1
OBVIOUS

\* Quotient and remainder.
LEMMA Division ==
  ASSUME NEW a \in Nat, NEW m \in Nat \ {0}
  PROVE  \E q \in Nat : a = m * q + (a % m)
<1> DEFINE q == a \div m
<1>1. q \in Nat /\ a = m * q + (a % m)
  OBVIOUS
<1> QED
  BY <1>1

\* The remainder is the only number below the divisor that is off by whole laps.
LEMMA RemainderIs ==
  ASSUME NEW a \in Nat, NEW m \in Nat \ {0}, NEW x \in Int, NEW r \in 0 .. m - 1,
         a = m * x + r
  PROVE  a % m = r
<1> DEFINE y == a \div m
           s == a % m
<1>1. y \in Int /\ s \in 0 .. m - 1 /\ a = m * y + s
  OBVIOUS
<1> HIDE DEF y, s
<1>2. m * (x - y) = s - r /\ x - y \in Int
  BY <1>1
<1>3. x - y = 0
  BY <1>1, <1>2, ShortLaps
<1> QED
  BY <1>1, <1>2, <1>3 DEF s

\* Two positions less than a lap apart have the same slot only if they are equal.
LEMMA SameRemainder ==
  ASSUME NEW a \in Nat, NEW b \in Nat, NEW m \in Nat \ {0}, a % m = b % m,
         a < b + m, b < a + m
  PROVE  a = b
<1> DEFINE r == a % m
<1>1. r \in 0 .. m - 1
  BY RemainderRange
<1>2. PICK x \in Nat : a = m * x + r
  BY Division
<1>3. PICK y \in Nat : b = m * y + r
  BY Division
<1> HIDE DEF r
<1>4. a - b = m * (x - y) /\ x - y \in Int
  BY <1>1, <1>2, <1>3
<1>5. x - y = 0
  BY <1>4, ShortLaps
<1> QED
  BY <1>1, <1>2, <1>3, <1>5

\* Reducing a position before counting on from it makes no difference.
LEMMA RemainderOfSum ==
  ASSUME NEW a \in Nat, NEW b \in Nat, NEW m \in Nat \ {0}
  PROVE  ((a % m) + b) % m = (a + b) % m
<1> DEFINE r == a % m
           c == r + b
           s == c % m
           d == a + b
<1>1. r \in 0 .. m - 1
  BY RemainderRange
<1>2. PICK x \in Nat : a = m * x + r
  BY Division
<1>3. r \in Nat /\ c \in Nat /\ d \in Nat /\ d = m * x + c
  BY <1>1, <1>2
<1> HIDE DEF r, c, d
<1>4. s \in 0 .. m - 1
  BY <1>3, RemainderRange
<1>5. PICK y \in Nat : c = m * y + s
  BY <1>3, Division
<1> HIDE DEF s
<1>6. d = m * (x + y) + s /\ x + y \in Int
  BY <1>3, <1>4, <1>5
<1>7. d % m = s
  BY <1>3, <1>4, <1>6, RemainderIs
<1> QED
  BY <1>7 DEF r, c, d, s

\* A whole lap later comes the same slot.
LEMMA NextLapRemainder ==
  ASSUME NEW a \in Nat, NEW m \in Nat \ {0}
  PROVE  (a + m) % m = a % m
<1> DEFINE r == a % m
           d == a + m
<1>1. r \in 0 .. m - 1
  BY RemainderRange
<1>2. PICK x \in Nat : a = m * x + r
  BY Division
<1> HIDE DEF r
<1>3. d \in Nat /\ d = m * (x + 1) + r /\ x + 1 \in Int
  BY <1>1, <1>2
<1> HIDE DEF d
<1>4. d % m = r
  BY <1>1, <1>3, RemainderIs
<1> QED
  BY <1>4 DEF d, r

\* A width that the divisor divides does not change the slot of a position.
LEMMA RemainderOfRemainder ==
  ASSUME NEW a \in Nat, NEW m \in Nat \ {0}, NEW n \in Nat \ {0}, n % m = 0
  PROVE  (a % n) % m = a % m
<1> DEFINE r == a % n
           s == r % m
<1>1. PICK q \in Nat : n = m * q
  BY Division
<1>2. r \in 0 .. n - 1
  BY RemainderRange
<1>3. PICK y \in Nat : a = n * y + r
  BY Division
<1>4. r \in Nat
  BY <1>2
<1> HIDE DEF r
<1>5. s \in 0 .. m - 1
  BY <1>4, RemainderRange
<1>6. PICK z \in Nat : r = m * z + s
  BY <1>4, Division
<1> HIDE DEF s
<1>7. a = m * (q * y + z) + s /\ q * y + z \in Int
  BY <1>1, <1>3, <1>5, <1>6
<1>8. a % m = s
  BY <1>5, <1>7, RemainderIs
<1> QED
  BY <1>8 DEF r, s

\* The difference of two reduced positions is that of the positions, if these are
\* less than a lap apart.
LEMMA RemainderOfDifference ==
  ASSUME NEW a \in Nat, NEW b \in Nat, NEW m \in Nat \ {0}, b <= a, a - b < m
  PROVE  (m + (a % m) - (b % m)) % m = a - b
<1> DEFINE r == a % m
           s == b % m
           d == m + r - s
<1>1. r \in 0 .. m - 1 /\ s \in 0 .. m - 1
  BY RemainderRange
<1>2. PICK x \in Nat : a = m * x + r
  BY Division
<1>3. PICK y \in Nat : b = m * y + s
  BY Division
<1> HIDE DEF r, s
<1>4. /\ d \in Nat /\ a - b \in 0 .. m - 1
      /\ d = m * ((1 + y) - x) + (a - b) /\ (1 + y) - x \in Int
  BY <1>1, <1>2, <1>3
<1> HIDE DEF d
<1>5. d % m = a - b
  BY <1>4, RemainderIs
<1> QED
  BY <1>5 DEF d, r, s
=============================================================================
