----------------------------- MODULE RingArith -----------------------------
(***************************************************************************)
(* Facts about % that a ring of blocks and a counter of fixed width rest   *)
(* on.  The provers know no non-linear arithmetic beyond the division      *)
(* theorem, so uniqueness of the remainder is proved here once.            *)
(***************************************************************************)
EXTENDS Integers, TLAPS

(* A non-zero multiple of m is at least m away from 0. *)
LEMMA MultipleIsFar ==
  ASSUME NEW m \in Nat \ {0}, NEW k \in Int, k >= 1
  PROVE  m * k >= m
  OBVIOUS

LEMMA Distribute ==
  ASSUME NEW m \in Int, NEW p \in Int, NEW q \in Int
  PROVE  /\ m * (p + q) = m * p + m * q
         /\ m * (p - q) = m * p - m * q
         /\ m * p \in Int
         /\ m * q \in Int
  OBVIOUS

(* The division theorem. *)
LEMMA Division ==
  ASSUME NEW a \in Int, NEW m \in Nat \ {0}
  PROVE  /\ a % m \in 0 .. m - 1
         /\ a \div m \in Int
         /\ a = m * (a \div m) + (a % m)
  OBVIOUS

(* The remainder is the only one in its range. *)
LEMMA Remainder ==
  ASSUME NEW m \in Nat \ {0}, NEW q \in Int, NEW r \in 0 .. m - 1
  PROVE  (m * q + r) % m = r
<1>1. PICK a \in Int : a = m * q + r
  OBVIOUS
<1>2. PICK p \in Int : a = m * p + (a % m)
  BY Division
<1>3. PICK s \in 0 .. m - 1 : s = a % m
  BY Division
<1>4. m * p \in Int /\ m * q \in Int
  OBVIOUS
<1>5. m * p - m * q = r - s
  BY <1>1, <1>2, <1>3, <1>4
<1>6. ~ (p - q >= 1)
  <2> SUFFICES ASSUME p - q >= 1
               PROVE  FALSE
    OBVIOUS
  <2>1. m * (p - q) >= m
    BY MultipleIsFar
  <2>2. m * (p - q) = r - s
    BY <1>5, Distribute
  <2> QED
    BY <2>1, <2>2
<1>7. ~ (q - p >= 1)
  <2> SUFFICES ASSUME q - p >= 1
               PROVE  FALSE
    OBVIOUS
  <2>1. m * (q - p) >= m
    BY MultipleIsFar
  <2>2. m * (q - p) = s - r
    BY <1>4, <1>5, Distribute
  <2> QED
    BY <2>1, <2>2
<1>8. p = q
  BY <1>6, <1>7
<1>9. s = r
  BY <1>4, <1>5, <1>8
<1> QED
  BY <1>1, <1>3, <1>9

(* So is the quotient. *)
LEMMA Quotient ==
  ASSUME NEW m \in Nat \ {0}, NEW q \in Int, NEW r \in 0 .. m - 1
  PROVE  (m * q + r) \div m = q
<1>1. PICK a \in Int : a = m * q + r
  OBVIOUS
<1>2. PICK p \in Int : p = a \div m /\ a = m * p + (a % m)
  BY Division
<1>3. a % m = r
  BY <1>1, Remainder
<1>4. m * p \in Int /\ m * q \in Int
  OBVIOUS
<1>5. m * p - m * q = 0
  BY <1>1, <1>2, <1>3, <1>4
<1>6. ~ (p - q >= 1)
  <2> SUFFICES ASSUME p - q >= 1
               PROVE  FALSE
    OBVIOUS
  <2>1. m * (p - q) >= m
    BY MultipleIsFar
  <2> QED
    BY <1>5, <2>1, Distribute
<1>7. ~ (q - p >= 1)
  <2> SUFFICES ASSUME q - p >= 1
               PROVE  FALSE
    OBVIOUS
  <2>1. m * (q - p) >= m
    BY MultipleIsFar
  <2> QED
    BY <1>4, <1>5, <2>1, Distribute
<1> QED
  BY <1>1, <1>2, <1>6, <1>7

LEMMA SmallRemainder ==
  ASSUME NEW m \in Nat \ {0}, NEW r \in 0 .. m - 1
  PROVE  r % m = r
<1>1. (m * 0 + r) % m = r
  BY Remainder
<1> QED
  BY <1>1

(* One lap earlier: the same slot, the quotient one less. *)
LEMMA LapBefore ==
  ASSUME NEW m \in Nat \ {0}, NEW n \in Int
  PROVE  /\ (n - m) % m = n % m
         /\ (n - m) \div m = (n \div m) - 1
<1>1. PICK q \in Int : q = n \div m /\ n = m * q + (n % m)
  BY Division
<1>2. PICK r \in 0 .. m - 1 : r = n % m
  BY Division
<1>3. m * (q - 1) = m * q - m /\ m * q \in Int
  OBVIOUS
<1>4. n - m = m * (q - 1) + r
  BY <1>1, <1>2, <1>3
<1>5. PICK p \in Int : p = q - 1
  OBVIOUS
<1>6. (m * p + r) % m = r /\ (m * p + r) \div m = p
  BY Remainder, Quotient
<1> QED
  BY <1>1, <1>2, <1>4, <1>5, <1>6

(* A count may wrap at any multiple of two laps: neither its slot nor the  *)
(* parity of its lap changes.                                              *)
LEMMA WrappedCount ==
  ASSUME NEW c \in Nat \ {0}, NEW w \in Nat \ {0}, NEW k \in Nat,
         w = (2 * c) * k, NEW n \in Int
  PROVE  /\ (n % w) % c = n % c
         /\ ((n % w) \div c) % 2 = (n \div c) % 2
<1>1. PICK q \in Int : n = w * q + (n % w)
  BY Division
<1>2. PICK s \in 0 .. w - 1 : s = n % w
  BY Division
<1>3. PICK u \in Int : u = s \div c /\ s = c * u + (s % c)
  BY Division
<1>4. PICK v \in 0 .. c - 1 : v = s % c
  BY Division
<1>5. PICK e \in Int : e = k * q
  OBVIOUS
<1>6. w * q = c * (2 * e)
  BY <1>5
<1>7. c * (2 * e + u) = c * (2 * e) + c * u
  BY Distribute
<1>8. c * (2 * e) \in Int /\ c * u \in Int
  OBVIOUS
<1>9. n = w * q + s /\ s = c * u + v
  BY <1>1, <1>2, <1>3, <1>4
<1>10. n = c * (2 * e) + (c * u + v)
  BY <1>6, <1>9
<1>11. PICK d \in Int : d = 2 * e + u
  OBVIOUS
<1>12. n = c * d + v
  BY <1>7, <1>8, <1>10, <1>11
<1>13. (c * d + v) % c = v /\ (c * d + v) \div c = d
  BY Remainder, Quotient
<1>14. d % 2 = u % 2
  BY <1>11
<1> QED
  BY <1>2, <1>3, <1>4, <1>12, <1>13, <1>14

(* A remainder may be taken before or after an addition. *)
LEMMA RemainderOfSum ==
  ASSUME NEW m \in Nat \ {0}, NEW a \in Int, NEW b \in Int
  PROVE  ((a % m) + b) % m = (a + b) % m
<1>1. PICK p \in Int : a = m * p + (a % m)
  BY Division
<1>2. PICK s \in Int : s = a % m
  BY Division
<1>3. PICK c \in Int : c = s + b
  OBVIOUS
<1>4. PICK q \in Int : c = m * q + (c % m)
  BY Division
<1>5. PICK r \in 0 .. m - 1 : r = c % m
  BY Division
<1>6. m * p \in Int /\ m * q \in Int
  OBVIOUS
<1>7. a + b = (m * p + m * q) + r
  BY <1>1, <1>2, <1>3, <1>4, <1>5, <1>6
<1>8. a + b = m * (p + q) + r
  BY <1>7, Distribute
<1>9. (m * (p + q) + r) % m = r
  BY Remainder
<1> QED
  BY <1>2, <1>3, <1>5, <1>8, <1>9

(* Stepping from block to block stays in step with the count of rounds. *)
LEMMA NextBlock ==
  ASSUME NEW d \in Nat \ {0}, NEW n \in Int
  PROVE  ((n % d) + 1) % d = (n + 1) % d
<1>1. 1 \in Int
  OBVIOUS
<1> QED
  BY <1>1, RemainderOfSum, Zenon

(* Two rounds fewer than d apart are in different blocks. *)
LEMMA DifferentBlocks ==
  ASSUME NEW d \in Nat \ {0}, NEW m \in Int, NEW n \in Int, m < n, n - m < d
  PROVE  m % d # n % d
<1> SUFFICES ASSUME m % d = n % d
             PROVE  FALSE
  OBVIOUS
<1>1. PICK p \in Int : m = d * p + (m % d)
  BY Division
<1>2. PICK q \in Int : n = d * q + (n % d)
  BY Division
<1>3. m % d \in Int
  BY Division
<1>4. d * p \in Int /\ d * q \in Int
  OBVIOUS
<1>5. d * q - d * p = n - m
  BY <1>1, <1>2, <1>3, <1>4
<1>6. d * (q - p) = n - m
  BY <1>5, Distribute
<1>7. CASE q - p >= 1
  BY <1>6, <1>7, MultipleIsFar
<1>8. CASE p - q >= 0
  <2>1. d * (p - q) >= 0
    BY <1>8
  <2>2. d * (p - q) = m - n
    BY <1>4, <1>5, Distribute
  <2> QED
    BY <2>1, <2>2
<1> QED
  BY <1>7, <1>8

(* Advancing a wrapped counter by its increment gives the next round's. *)
LEMMA NextRoundIndex ==
  ASSUME NEW w \in Nat \ {0}, NEW b \in Int, NEW i \in Int, NEW n \in Int
  PROVE  (((b + n * i) % w) + i) % w = (b + (n + 1) * i) % w
<1>1. n * i \in Int /\ b + n * i \in Int
  OBVIOUS
<1>2. (n + 1) * i = n * i + i
  OBVIOUS
<1>3. b + (n + 1) * i = (b + n * i) + i
  BY <1>1, <1>2
<1>4. (((b + n * i) % w) + i) % w = ((b + n * i) + i) % w
  BY <1>1, RemainderOfSum, Zenon
<1> QED
  BY <1>3, <1>4
=============================================================================
