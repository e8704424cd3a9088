-------------------------- MODULE CommBlockProofs --------------------------
(***************************************************************************)
(* For every program of operations: how the queues lie in their rings once *)
(* finish() is done with them.  Every slot of a block has just one WQE,    *)
(* the receive enables come first and are what finish() rings, and the     *)
(* management queue has the shape that RearmRing assumes of it.            *)
(***************************************************************************)
EXTENDS CommGraphProofs

-----------------------------------------------------------------------------
(* WQEs that lie one behind the other, from slot a up to slot b; a NOP of  *)
(* no size can only come behind the full block.                            *)

End(w) == w.at + w.size

Laid(s, a, b, full) ==
  /\ \A k \in 1 .. Len(s) : s[k].at \in Nat /\ s[k].size \in Nat
  /\ Len(s) = 0 => a = b
  /\ Len(s) > 0 => s[1].at = a /\ End(s[Len(s)]) = b
  /\ \A k \in 1 .. Len(s) :
       /\ s[k].size = 0 => s[k].at = full
       /\ k > 1 => s[k].at = End(s[k - 1])
  /\ \A k \in 1 .. Len(s) : \A j \in 1 .. k - 1 : End(s[j]) <= s[k].at

(* All of them lie between the two.                                        *)
LEMMA LaidWithin ==
  ASSUME NEW W, NEW s \in Seq(W), NEW a \in Nat, NEW b \in Nat, NEW full, Laid(s, a, b, full)
  PROVE  a <= b /\ \A k \in 1 .. Len(s) : a <= s[k].at /\ End(s[k]) <= b
<1>1. PICK n \in Nat : n = Len(s)
  OBVIOUS
<1>2. \A k \in 1 .. n : s[k].at \in Nat /\ s[k].size \in Nat /\ End(s[k]) \in Nat
  BY <1>1 DEF Laid, End
<1>3. ASSUME NEW k \in 1 .. n
      PROVE  a <= s[k].at /\ End(s[k]) <= b
  <2>1. n > 0 /\ s[1].at = a /\ End(s[n]) = b /\ 1 \in 1 .. n /\ n \in 1 .. n
    BY <1>1 DEF Laid
  <2>2. a <= s[k].at
    <3>1. CASE k = 1
      BY <1>2, <2>1, <3>1
    <3>2. CASE k # 1
      <4>1. End(s[1]) <= s[k].at
        <5>1. 1 \in 1 .. k - 1
          BY <1>3, <3>2
        <5> QED
          BY <1>1, <5>1 DEF Laid
      <4> QED
        BY <1>2, <2>1, <4>1 DEF End
    <3> QED
      BY <3>1, <3>2
  <2>3. End(s[k]) <= b
    <3>1. CASE k = n
      BY <1>2, <2>1, <3>1
    <3>2. CASE k # n
      <4>1. End(s[k]) <= s[n].at
        <5>1. k \in 1 .. n - 1
          BY <1>3, <3>2
        <5> QED
          BY <1>1, <2>1, <5>1 DEF Laid
      <4>2. /\ s[n].at \in Nat /\ s[n].size \in Nat /\ End(s[k]) \in Nat
            /\ s[n].at + s[n].size = b
        BY <1>2, <1>3, <2>1 DEF End
      <4> QED
        BY <4>1, <4>2
    <3> QED
      BY <3>1, <3>2
  <2> QED
    BY <2>2, <2>3
<1>4. a <= b
  <2>1. CASE n = 0
    BY <1>1, <2>1 DEF Laid
  <2>2. CASE n # 0
    <3>1. 1 \in 1 .. n
      BY <2>2
    <3>2. a <= s[1].at /\ End(s[1]) <= b /\ s[1].at \in Nat /\ s[1].size \in Nat
      BY <1>2, <1>3, <3>1
    <3> QED
      BY <3>2 DEF End
  <2> QED
    BY <2>1, <2>2
<1> QED
  BY <1>1, <1>3, <1>4

(* Two such rows, one behind the other, make one.                          *)
LEMMA LaidBehind ==
  ASSUME NEW W, NEW s \in Seq(W), NEW r \in Seq(W), NEW a \in Nat, NEW b \in Nat, NEW c \in Nat,
         NEW full, Laid(s, a, b, full), Laid(r, b, c, full)
  PROVE  Laid(s \o r, a, c, full)
<1>1. PICK m \in Nat, n \in Nat : m = Len(s) /\ n = Len(r)
  OBVIOUS
<1> DEFINE t == s \o r
<1>2. /\ t \in Seq(W) /\ Len(t) = m + n
      /\ \A k \in 1 .. m : t[k] = s[k]
      /\ \A k \in m + 1 .. m + n : t[k] = r[k - m]
  BY <1>1
<1> HIDE DEF t
<1>3. ASSUME NEW k \in 1 .. m + n
      PROVE  \/ k \in 1 .. m /\ t[k] = s[k]
             \/ \E i \in 1 .. n : k = m + i /\ t[k] = r[i]
  <2>1. CASE k \in 1 .. m
    BY <1>2, <2>1
  <2>2. CASE ~ (k \in 1 .. m)
    <3>1. k - m \in 1 .. n /\ k \in m + 1 .. m + n /\ k = m + (k - m)
      BY <2>2
    <3>2. PICK i \in 1 .. n : i = k - m
      BY <3>1
    <3> QED
      BY <1>2, <3>1, <3>2
  <2> QED
    BY <2>1, <2>2
<1>4. /\ \A k \in 1 .. m : a <= s[k].at /\ End(s[k]) <= b
      /\ \A k \in 1 .. n : b <= r[k].at /\ End(r[k]) <= c
  BY <1>1, LaidWithin
<1>5. ASSUME NEW k \in 1 .. m + n
      PROVE  /\ t[k].at \in Nat /\ t[k].size \in Nat
             /\ t[k].size = 0 => t[k].at = full
  <2>1. CASE k \in 1 .. m /\ t[k] = s[k]
    BY <1>1, <2>1 DEF Laid
  <2>2. CASE \E i \in 1 .. n : k = m + i /\ t[k] = r[i]
    BY <1>1, <2>2 DEF Laid
  <2> QED
    BY <1>3, <2>1, <2>2
<1>6. m + n = 0 => a = c
  BY <1>1 DEF Laid
<1>7. m + n > 0 => t[1].at = a
  <2> SUFFICES ASSUME m + n > 0
               PROVE  t[1].at = a
    OBVIOUS
  <2>1. CASE m = 0
    <3>1. n > 0 /\ t[1] = r[1 - m] /\ 1 - m = 1
      BY <1>2, <2>1
    <3> QED
      BY <1>1, <2>1, <3>1 DEF Laid
  <2>2. CASE m # 0
    <3>1. m > 0 /\ t[1] = s[1]
      BY <1>2, <2>2
    <3> QED
      BY <1>1, <3>1 DEF Laid
  <2> QED
    BY <2>1, <2>2
<1>8. m + n > 0 => End(t[m + n]) = c
  <2> SUFFICES ASSUME m + n > 0
               PROVE  End(t[m + n]) = c
    OBVIOUS
  <2>1. CASE n = 0
    <3>1. m > 0 /\ t[m + n] = s[m]
      BY <1>2, <2>1
    <3> QED
      BY <1>1, <2>1, <3>1 DEF Laid
  <2>2. CASE n # 0
    <3>1. n > 0 /\ t[m + n] = r[(m + n) - m] /\ (m + n) - m = n
      BY <1>2, <2>2
    <3> QED
      BY <1>1, <3>1 DEF Laid
  <2> QED
    BY <2>1, <2>2
<1>9. ASSUME NEW k \in 1 .. m + n, k > 1
      PROVE  t[k].at = End(t[k - 1])
  <2>1. CASE k \in 1 .. m
    <3>0. k - 1 \in 1 .. m
      BY <1>9, <2>1
    <3>1. t[k] = s[k] /\ t[k - 1] = s[k - 1]
      BY <1>2, <2>1, <3>0
    <3> QED
      BY <1>1, <1>9, <2>1, <3>1 DEF Laid
  <2>2. CASE k = m + 1
    <3>0. m > 0 /\ n > 0 /\ m \in 1 .. m /\ m + 1 \in m + 1 .. m + n
      BY <1>9, <2>2
    <3>1. t[k] = r[k - m] /\ k - m = 1 /\ k - 1 = m /\ t[k - 1] = s[m]
      BY <1>2, <2>2, <3>0
    <3> QED
      BY <1>1, <3>0, <3>1 DEF Laid
  <2>3. CASE k > m + 1
    <3>0. k \in m + 1 .. m + n /\ k - 1 \in m + 1 .. m + n
      BY <1>9, <2>3
    <3>1. /\ t[k] = r[k - m] /\ t[k - 1] = r[(k - 1) - m] /\ (k - 1) - m = (k - m) - 1
          /\ k - m \in 1 .. n /\ k - m > 1
      BY <1>2, <2>3, <3>0
    <3> QED
      BY <1>1, <3>1 DEF Laid
  <2> QED
    BY <2>1, <2>2, <2>3
<1>10. ASSUME NEW k \in 1 .. m + n, NEW j \in 1 .. k - 1
       PROVE  End(t[j]) <= t[k].at
  <2>1. CASE k \in 1 .. m
    <3>1. t[k] = s[k] /\ t[j] = s[j]
      BY <1>2, <2>1
    <3> QED
      BY <1>1, <2>1, <3>1 DEF Laid
  <2>2. CASE ~ (k \in 1 .. m)
    <3>1. k \in m + 1 .. m + n /\ k - m \in 1 .. n /\ t[k] = r[k - m]
      BY <1>2, <2>2
    <3>2. CASE j \in 1 .. m
      <4>1. End(t[j]) <= b /\ b <= t[k].at
        <5>1. t[j] = s[j] /\ End(s[j]) <= b
          BY <1>2, <1>4, <3>2
        <5>2. b <= r[k - m].at
          BY <1>4, <3>1
        <5> QED
          BY <3>1, <5>1, <5>2
      <4>2. End(t[j]) \in Int /\ t[k].at \in Int
        <5>1. j \in 1 .. m + n
          BY <3>2
        <5>2. t[j].at \in Nat /\ t[j].size \in Nat
          BY <1>5, <5>1
        <5>3. t[k].at \in Nat
          BY <1>5
        <5> QED
          BY <5>2, <5>3 DEF End
      <4> QED
        BY <4>1, <4>2
    <3>3. CASE ~ (j \in 1 .. m)
      <4>0. j \in m + 1 .. m + n /\ j - m \in 1 .. (k - m) - 1
        BY <1>10, <3>3
      <4>1. t[j] = r[j - m]
        BY <1>2, <4>0
      <4> QED
        BY <1>1, <3>1, <4>0, <4>1 DEF Laid
    <3> QED
      BY <3>2, <3>3
  <2> QED
    BY <2>1, <2>2
<1>11. Laid(t, a, c, full)
  BY <1>2, <1>5, <1>6, <1>7, <1>8, <1>9, <1>10 DEF Laid
<1> QED
  BY <1>11 DEF t

(* One WQE is such a row.                                                  *)
LEMMA LaidOne ==
  ASSUME NEW W, NEW w \in W, w.at \in Nat, w.size \in Nat \ {0}, NEW full
  PROVE  Laid(<<w>>, w.at, End(w), full)
<1> DEFINE s == <<w>>
<1>1. Len(s) = 1 /\ s[1] = w
  OBVIOUS
<1> HIDE DEF s
<1>2. Laid(s, w.at, End(w), full)
  BY <1>1 DEF Laid
<1> QED
  BY <1>2 DEF s
LEMMA LaidAppend ==
  ASSUME NEW W, NEW s \in Seq(W), NEW w \in W, NEW a \in Nat, w.at \in Nat,
         w.size \in Nat \ {0}, NEW full, Laid(s, a, w.at, full)
  PROVE  Laid(Append(s, w), a, End(w), full)
<1> DEFINE r == <<w>>
<1>1. r \in Seq(W) /\ Append(s, w) = s \o r /\ End(w) \in Nat
  BY DEF End
<1>2. Laid(r, w.at, End(w), full)
  BY LaidOne
<1> HIDE DEF r
<1> QED
  BY <1>1, <1>2, LaidBehind
-----------------------------------------------------------------------------
(* What such rows are good for: a row that fills a block tiles it.         *)

Blocked(s, full) == {k \in 1 .. Len(s) : s[k].at < full}

LEMMA LaidTiles ==
  ASSUME NEW W, NEW s \in Seq(W), NEW full \in Nat \ {0}, Laid(s, 0, full, full)
  PROVE  /\ UNION {Slots(s[k]) : k \in Blocked(s, full)} = 0 .. full - 1
         /\ \A j, k \in Blocked(s, full) : j # k => Slots(s[j]) \intersect Slots(s[k]) = {}
<1>1. PICK n \in Nat \ {0} : n = Len(s)
  BY DEF Laid
<1>2. ASSUME NEW k \in 1 .. n
      PROVE  /\ s[k].at \in Nat /\ s[k].size \in Nat
             /\ End(s[k]) \in Nat /\ End(s[k]) <= full
  <2>1. s[k].at \in Nat /\ s[k].size \in Nat
    BY <1>1 DEF Laid
  <2>2. End(s[k]) <= full
    <3>1. 0 \in Nat
      OBVIOUS
    <3> QED
      BY <1>1, <3>1, LaidWithin
  <2> QED
    BY <2>1, <2>2 DEF End
<1>3. ASSUME NEW k \in Blocked(s, full)
      PROVE  k \in 1 .. n /\ Slots(s[k]) = s[k].at .. End(s[k]) - 1
  <2>1. k \in 1 .. n /\ s[k].size # 0
    <3>1. s[k].size = 0 => s[k].at = full
      BY <1>1 DEF Blocked, Laid
    <3>2. s[k].at < full /\ k \in 1 .. n
      BY <1>1 DEF Blocked
    <3> QED
      BY <1>2, <3>1, <3>2
  <2>2. s[k].at \in Nat /\ s[k].size \in Nat
    BY <1>2, <2>1
  <2> QED
    BY <2>1, <2>2 DEF Slots, End
<1>4. ASSUME NEW x \in 0 .. full - 1
      PROVE  \E k \in Blocked(s, full) : x \in Slots(s[k])
  <2> DEFINE T == {k \in 1 .. n : x < End(s[k])}
  <2>1. n \in T
    <3>1. End(s[n]) = full
      BY <1>1 DEF Laid
    <3> QED
      BY <3>1
  <2>2. T \subseteq Nat /\ T # {}
    BY <2>1
  <2>3. PICK k \in T : \A y \in T : k <= y
    <3> HIDE DEF T
    <3> QED
      BY <2>2, LeastNat
  <2>4. k \in 1 .. n /\ x < End(s[k])
    OBVIOUS
  <2>5. s[k].at <= x
    <3>1. CASE k = 1
      <4>1. s[1].at = 0
        BY <1>1 DEF Laid
      <4> QED
        BY <3>1, <4>1
    <3>2. CASE k # 1
      <4>1. k - 1 \in 1 .. n /\ k > 1 /\ ~ (k <= k - 1)
        BY <2>4, <3>2
      <4>2. k - 1 \notin T
        BY <2>3, <4>1
      <4>3. s[k].at = End(s[k - 1])
        BY <1>1, <2>4, <4>1 DEF Laid
      <4> QED
        BY <1>2, <4>1, <4>2, <4>3
    <3> QED
      BY <3>1, <3>2
  <2>6. k \in Blocked(s, full)
    BY <1>1, <1>2, <2>4, <2>5 DEF Blocked
  <2>7. x \in Slots(s[k])
    <3>1. Slots(s[k]) = s[k].at .. End(s[k]) - 1 /\ s[k].at \in Nat /\ End(s[k]) \in Nat
      BY <1>2, <1>3, <2>4, <2>6
    <3>2. s[k].at <= x /\ x < End(s[k])
      BY <2>4, <2>5
    <3> QED
      BY <3>1, <3>2
  <2> QED
    BY <2>6, <2>7
<1>5. ASSUME NEW k \in Blocked(s, full), NEW x \in Slots(s[k])
      PROVE  x \in 0 .. full - 1
  BY <1>2, <1>3
<1>6. ASSUME NEW k \in Blocked(s, full), NEW j \in Blocked(s, full), j < k
      PROVE  Slots(s[j]) \intersect Slots(s[k]) = {}
  <2>1. j \in 1 .. k - 1 /\ k \in 1 .. n /\ j \in 1 .. n
    BY <1>3, <1>6
  <2>2. End(s[j]) <= s[k].at
    BY <1>1, <2>1 DEF Laid
  <2>3. PICK a \in Nat, b \in Nat, c \in Nat, d \in Nat :
          Slots(s[j]) = a .. b - 1 /\ Slots(s[k]) = c .. d - 1 /\ b <= c
    <3>1. s[j].at \in Nat /\ End(s[j]) \in Nat /\ s[k].at \in Nat /\ End(s[k]) \in Nat
      BY <1>2, <2>1
    <3>2. Slots(s[j]) = s[j].at .. End(s[j]) - 1 /\ Slots(s[k]) = s[k].at .. End(s[k]) - 1
      BY <1>3
    <3> QED
      BY <2>2, <3>1, <3>2
  <2> QED
    BY <2>3
<1>7. UNION {Slots(s[k]) : k \in Blocked(s, full)} = 0 .. full - 1
  BY <1>4, <1>5
<1>8. ASSUME NEW j \in Blocked(s, full), NEW k \in Blocked(s, full), j # k
      PROVE  Slots(s[j]) \intersect Slots(s[k]) = {}
  <2>1. j \in Int /\ k \in Int
    BY <1>3
  <2>2. j < k \/ k < j
    BY <1>8, <2>1
  <2> QED
    BY <1>6, <2>2
<1> QED
  BY <1>7, <1>8
-----------------------------------------------------------------------------
(* The rings have room for two blocks when the provider gives twice what   *)
(* was asked for, in an even number of slots.                              *)

Roomy(n) == Granted(n) % 2 = 0 /\ Granted(n) >= 2 * n

LEMMA TwoBlocks ==
  ASSUME NEW n \in Nat \ {0}, Granted(n) \in Nat, Roomy(n)
  PROVE  /\ 2 * Rounded(n) <= Granted(n)
         /\ Rounded(n) * (Granted(n) \div Rounded(n)) = Granted(n)
         /\ Granted(n) \div Rounded(n) >= 2
         /\ Rounded(n) \in Nat \ {0}
<1>1. PICK g \in Nat : g = Granted(n) /\ g % 2 = 0 /\ g >= 2 * n
  BY DEF Roomy
<1>2. PICK r \in Nat \ {0} :
        r = Rounded(n) /\ n <= r /\ r <= g /\ g % r = 0 /\ \A u \in n .. r - 1 : g % u # 0
  <2>1. n <= Granted(n)
    BY <1>1
  <2>2. /\ Rounded(n) \in n .. Granted(n) /\ Granted(n) % Rounded(n) = 0
        /\ \A u \in n .. Rounded(n) - 1 : Granted(n) % u # 0
    BY <2>1, RoundedIs
  <2>3. PICK r \in n .. Granted(n) : r = Rounded(n)
    BY <2>2
  <2>4. n <= r /\ r <= g /\ r \in Nat \ {0}
    BY <1>1, <2>3
  <2> QED
    BY <1>1, <2>2, <2>3, <2>4
<1>3. PICK h \in Int : g = 2 * h
  <2>1. g = 2 * (g \div 2) + (g % 2) /\ g \div 2 \in Int
    <3>1. g \in Int /\ 2 \in Nat \ {0}
      OBVIOUS
    <3> QED
      BY <3>1, Division, Zenon
  <2>2. PICK d \in Int : d = g \div 2
    BY <2>1
  <2>3. g % 2 = 0
    BY <1>1
  <2> QED
    BY <2>1, <2>2, <2>3
<1>4. h \in Nat \ {0} /\ n <= h
  BY <1>1, <1>3
<1>5. g % h = 0
  <2>1. (h * 2 + 0) % h = 0
    <3>1. 0 \in 0 .. h - 1 /\ 2 \in Int
      BY <1>4
    <3> QED
      BY <1>4, <3>1, Remainder
  <2>2. h * 2 + 0 = g
    BY <1>3
  <2> QED
    BY <2>1, <2>2
<1>6. r <= h
  BY <1>2, <1>4, <1>5
<1>7. PICK k \in Int : k = g \div r /\ g = r * k
  <2>1. g = r * (g \div r) + (g % r) /\ g \div r \in Int
    <3>1. g \in Int /\ r \in Nat \ {0}
      OBVIOUS
    <3> QED
      BY <3>1, Division, Zenon
  <2>2. PICK d \in Int : d = g \div r
    BY <2>1
  <2>3. g % r = 0
    BY <1>2
  <2>4. PICK e \in Int : e = r * d
    BY <1>2, <2>2
  <2>5. g = e
    BY <1>1, <2>1, <2>2, <2>3, <2>4
  <2> QED
    BY <2>2, <2>4, <2>5
<1>8. k >= 2
  <2> SUFFICES ASSUME k <= 1
               PROVE  FALSE
    BY <1>7
  <2>1. r * (2 - k) >= r
    BY <1>2, MultipleIsFar
  <2>2. r * (2 - k) = 2 * r - r * k
    OBVIOUS
  <2> QED
    BY <1>2, <1>3, <1>6, <1>7, <2>1, <2>2
<1> QED
  BY <1>1, <1>2, <1>3, <1>6, <1>7, <1>8

LEMMA TimesGrows ==
  ASSUME NEW p \in Nat \ {0}, NEW i \in Int, NEW j \in Int, i <= j
  PROVE  /\ i * p \in Int /\ j * p \in Int
         /\ i * p <= j * p
         /\ (i - 1) * p + p = i * p
<1>1. j * p - i * p = p * (j - i) /\ i * p \in Int /\ j * p \in Int
  OBVIOUS
<1>2. (i - 1) * p + p = i * p
  OBVIOUS
<1>3. CASE i = j
  BY <1>1, <1>2, <1>3
<1>4. CASE i < j
  <2>1. p * (j - i) >= p
    BY <1>4, MultipleIsFar
  <2> QED
    BY <1>1, <1>2, <2>1
<1> QED
  BY <1>3, <1>4

(* The padding of a queue lies between what was written and the end of its *)
(* block, in a ring of two blocks at least.                                *)
LEMMA PadsLaid ==
  ASSUME NEW q, ctx[q] \in Ctx, ctx[q].written <= ctx[q].wqes, ctx[q].wqes # 0,
         2 * ctx[q].wqes <= ctx[q].slots
  PROVE  Laid(Pads(q), ctx[q].written, ctx[q].wqes, ctx[q].wqes)
<1>1. PICK w \in Nat, b \in Nat \ {0}, t \in Nat \ {0}, rest \in Nat :
        /\ w = ctx[q].written /\ b = ctx[q].wqes /\ t = ctx[q].slots
        /\ rest = b - w /\ b < t
  <2>1. /\ ctx[q].written \in Nat /\ ctx[q].wqes \in Nat \ {0} /\ ctx[q].slots \in Nat \ {0}
        /\ ctx[q].wqes - ctx[q].written \in Nat /\ ctx[q].wqes < ctx[q].slots
    BY DEF Ctx
  <2> QED
    BY <2>1
<1>2. PICK p \in Nat \ {0} : p = PadSize
  BY SizesAre
<1>3. PICK full \in Nat :
        /\ full = IF rest > p THEN (rest - 1) \div p ELSE 0
        /\ full * p <= rest /\ full * p \in Int
        /\ full * p = rest => rest = 0 /\ full = 0
  <2>1. CASE rest > p
    <3>1. PICK a \in Nat : a = rest - 1
      BY <2>1
    <3>2. PICK k \in Nat : k = a \div p /\ a - k * p \in Nat
      BY DivRest
    <3>3. k * p \in Int
      OBVIOUS
    <3> QED
      BY <2>1, <3>1, <3>2, <3>3
  <2>2. CASE ~ (rest > p)
    <3>1. 0 * p = 0
      OBVIOUS
    <3> QED
      BY <2>2, <3>1
  <2> QED
    BY <2>1, <2>2
<1> DEFINE s == Pads(q)
<1>4. s = [i \in 1 .. full + 1 |->
             [op |-> "nop", ins |-> 0, at |-> (w + (i - 1) * p) % t,
              size |-> IF i <= full THEN p ELSE rest - full * p]]
  BY <1>1, <1>2, <1>3 DEF Pads
<1>5. Len(s) = full + 1
  <2>1. ctx[q].slots # 0
    BY <1>1
  <2>2. s \in Seq(Wqe)
    BY <2>1, PadsAreNops
  <2>3. DOMAIN s = 1 .. full + 1
    BY <1>4
  <2> HIDE DEF s
  <2> QED
    BY <2>2, <2>3
<1>6. ASSUME NEW i \in 1 .. full + 1
      PROVE  /\ (i - 1) * p \in Nat
             /\ s[i].at = w + (i - 1) * p
             /\ s[i].size = IF i <= full THEN p ELSE rest - full * p
             /\ s[i].size \in Nat
  <2>1. s[i].at = (w + (i - 1) * p) % t
    BY <1>4
  <2>2. s[i].size = IF i <= full THEN p ELSE rest - full * p
    BY <1>4
  <2>3. (i - 1) * p \in Nat /\ (i - 1) * p <= full * p
    <3>1. (i - 1) * p \in Int /\ full * p \in Int /\ (i - 1) * p <= full * p
      BY TimesGrows
    <3>2. 0 * p <= (i - 1) * p /\ 0 * p = 0
      BY TimesGrows
    <3> QED
      BY <3>1, <3>2
  <2>4. PICK x \in Nat : x = (i - 1) * p
    BY <2>3
  <2>5. w + x \in 0 .. t - 1
    <3>1. PICK y \in Int : y = full * p
      BY <1>3
    <3>2. x <= y /\ y <= rest
      BY <1>3, <2>3, <2>4, <3>1
    <3>3. w + x <= b
      BY <1>1, <3>2
    <3> QED
      BY <1>1, <3>3
  <2>6. (w + x) % t = w + x
    BY <2>5, SmallRemainder
  <2> QED
    BY <1>3, <2>1, <2>2, <2>3, <2>4, <2>6
<1> HIDE DEF s
<1>7. ASSUME NEW i \in 1 .. full
      PROVE  End(s[i]) = w + i * p /\ i * p \in Int
  <2>1. /\ i \in 1 .. full + 1
        /\ s[i].at = w + (i - 1) * p /\ s[i].size = p /\ (i - 1) * p \in Nat
    BY <1>6
  <2>2. (i - 1) * p + p = i * p /\ i * p \in Int
    BY TimesGrows
  <2> QED
    BY <2>1, <2>2 DEF End
<1>8. \A k \in 1 .. full + 1 : s[k].at \in Nat /\ s[k].size \in Nat
  BY <1>6
<1>9. s[1].at = w
  <2>1. 1 \in 1 .. full + 1 /\ (1 - 1) * p = 0
    OBVIOUS
  <2> QED
    BY <1>6, <2>1
<1>10. End(s[full + 1]) = b
  <2>1. /\ full + 1 \in 1 .. full + 1 /\ (full + 1) - 1 = full
        /\ s[full + 1].at = w + full * p
        /\ s[full + 1].size = rest - full * p
    <3>1. full + 1 \in 1 .. full + 1 /\ (full + 1) - 1 = full /\ ~ (full + 1 <= full)
      OBVIOUS
    <3> QED
      BY <1>6, <3>1
  <2> QED
    BY <1>1, <1>3, <2>1 DEF End
<1>11. ASSUME NEW k \in 1 .. full + 1, s[k].size = 0
       PROVE  s[k].at = b
  <2>1. k = full + 1 /\ full * p = rest
    BY <1>3, <1>6, <1>11
  <2>2. rest = 0 /\ full = 0 /\ k = 1
    BY <1>3, <2>1
  <2> QED
    BY <1>1, <1>9, <2>2
<1>12. ASSUME NEW k \in 1 .. full + 1, NEW j \in 1 .. k - 1
       PROVE  End(s[j]) <= s[k].at /\ (j = k - 1 => s[k].at = End(s[j]))
  <2>1. j \in 1 .. full /\ j <= k - 1
    BY <1>12
  <2>2. End(s[j]) = w + j * p /\ s[k].at = w + (k - 1) * p
    BY <1>6, <1>7, <2>1
  <2>3. j * p <= (k - 1) * p /\ j * p \in Int /\ (k - 1) * p \in Int
    BY <2>1, TimesGrows
  <2> QED
    BY <2>2, <2>3
<1>13. \A k \in 1 .. full + 1 : k > 1 => k - 1 \in 1 .. k - 1
  OBVIOUS
<1>14. Laid(s, w, b, b)
  BY <1>5, <1>8, <1>9, <1>10, <1>11, <1>12, <1>13 DEF Laid
<1> QED
  BY <1>1, <1>5, <1>14 DEF s
-----------------------------------------------------------------------------
(* The invariant.                                                          *)

(* What lies in a block lies there without a gap, up to what was written.  *)
TileInv ==
  \A q \in QPs : ctx[q] # NoCtx /\ Roomy(wqeCount[q]) =>
    Laid(prog[q], 0, ctx[q].written, ctx[q].wqes)

(* The queues that fin is done with are full; finish rings after the last. *)
EndInv ==
  /\ stage = "drain" => cursor = 0
  /\ stage \in {"fin", "ready"} => \A i \in 1 .. cursor :
       ctx[qps[i]].written = ctx[qps[i]].wqes
  /\ stage = "ready" => cursor = Len(qps) /\ rung = recvEnables

(* recv_enables counts the receive enables of the list.  They are its      *)
(* beginning, one for every data QP, if the QPs are constructed first.     *)
RecvInv ==
  /\ recvEnables = CountIn(iq, {"recv_enable"}, Data, Len(iq))
  /\ ~ LateQps =>
       /\ \A i \in 1 .. Len(iq) : iq[i].op = "recv_enable" <=> i <= recvEnables
       /\ \A x : (x \in Registered /\ x # Mqp)
                   <=> \E i \in 1 .. Len(iq) : iq[i].op = "recv_enable" /\ iq[i].qp = x

(* The management queue holds its instructions in the order of the list,   *)
(* and every one of those that were drained.                               *)
PlaceInv ==
  /\ \A k \in 1 .. Len(prog[Mqp]) : prog[Mqp][k].op # "nop" =>
       prog[Mqp][k].at = WqesOf(iq, Mqp, prog[Mqp][k].ins - 1)
  /\ \A i \in 1 .. drained : iq[i].op \in CdOps =>
       \E k \in 1 .. Len(prog[Mqp]) : prog[Mqp][k].op # "nop" /\ prog[Mqp][k].ins = i

BlockInv == TileInv /\ EndInv /\ RecvInv /\ PlaceInv

-----------------------------------------------------------------------------
(* The author's calls.                                                     *)

LEMMA CountAll ==
  ASSUME NEW s, NEW ops, NEW from, NEW n \in Nat, NEW m \in {1, 2},
         \A i \in n + 1 .. n + m : s[i].op \in ops /\ s[i].qp \in from
  PROVE  CountIn(s, ops, from, n + m) = CountIn(s, ops, from, n) + m
<1>1. PICK k \in Nat : k = n + 1
  OBVIOUS
<1>2. CountIn(s, ops, from, k) = CountIn(s, ops, from, n) + 1
  BY <1>1, CountStep
<1>3. CountIn(s, ops, from, n) \in Nat
  BY ChosenFinite
<1>4. CASE m = 1
  BY <1>1, <1>2, <1>4
<1>5. CASE m = 2
  <2>1. CountIn(s, ops, from, k + 1) = CountIn(s, ops, from, k) + 1
    BY <1>1, <1>5, CountStep
  <2>2. n + m = k + 1
    BY <1>1, <1>5
  <2> QED
    BY <1>2, <1>3, <1>5, <2>1, <2>2
<1> QED
  BY <1>4, <1>5

LEMMA CountNone ==
  ASSUME NEW s, NEW ops, NEW from, NEW n \in Nat, NEW m \in {1, 2},
         \A i \in n + 1 .. n + m : s[i].op \notin ops
  PROVE  CountIn(s, ops, from, n + m) = CountIn(s, ops, from, n)
<1>1. PICK k \in Nat : k = n + 1
  OBVIOUS
<1>2. CountIn(s, ops, from, k) = CountIn(s, ops, from, n) + 0
  BY <1>1, CountStep
<1>3. CountIn(s, ops, from, n) \in Nat
  BY ChosenFinite
<1>4. CASE m = 1
  BY <1>1, <1>2, <1>3, <1>4
<1>5. CASE m = 2
  <2>1. CountIn(s, ops, from, k + 1) = CountIn(s, ops, from, k) + 0
    BY <1>1, <1>5, CountStep
  <2>2. n + m = k + 1
    BY <1>1, <1>5
  <2> QED
    BY <1>2, <1>3, <1>5, <2>1, <2>2
<1> QED
  BY <1>4, <1>5

(* An operation or a wait is no receive enable.                            *)
LEMMA RecvKept ==
  ASSUME RecvInv, NEW L \in Nat, L = Len(iq), NEW m \in {1, 2},
         Len(iq') = L + m,
         \A i \in 1 .. L : iq'[i] = iq[i],
         \A i \in L + 1 .. L + m : iq'[i].op # "recv_enable",
         UNCHANGED <<qps, recvEnables>>
  PROVE  RecvInv'
<1> DEFINE r == iq'
           R == {"recv_enable"}
<1>1. CountIn(r, R, Data, L + m) = CountIn(iq, R, Data, L)
  <2> HIDE DEF r
  <2>1. CountIn(r, R, Data, L) = CountIn(iq, R, Data, L)
    BY CountKept DEF r
  <2>2. \A i \in L + 1 .. L + m : r[i].op \notin R
    BY DEF r
  <2>3. CountIn(r, R, Data, L + m) = CountIn(r, R, Data, L)
    <3> HIDE DEF R
    <3> QED
      BY <2>2, CountNone
  <2> QED
    BY <2>1, <2>3
<1>2. CountIn(iq, R, Data, L) \in 0 .. L /\ recvEnables = CountIn(iq, R, Data, L)
  BY ChosenFinite DEF RecvInv
<1>3. \A i \in 1 .. L + m : i \in 1 .. L \/ (i \in L + 1 .. L + m /\ i > L)
  OBVIOUS
<1>4. Registered' = Registered
  BY DEF Registered
<1>5. ASSUME ~ LateQps, NEW i \in 1 .. L + m
      PROVE  iq'[i].op = "recv_enable" <=> i <= recvEnables
  <2>1. CASE i \in 1 .. L
    BY <1>5, <2>1 DEF RecvInv
  <2>2. CASE i \in L + 1 .. L + m /\ i > L
    BY <1>2, <2>2
  <2> QED
    BY <1>3, <2>1, <2>2
<1>6. ASSUME ~ LateQps, NEW x
      PROVE  (x \in Registered' /\ x # Mqp)
               <=> \E i \in 1 .. L + m : iq'[i].op = "recv_enable" /\ iq'[i].qp = x
  <2>1. (x \in Registered /\ x # Mqp)
          <=> \E i \in 1 .. L : iq[i].op = "recv_enable" /\ iq[i].qp = x
    BY <1>6 DEF RecvInv
  <2>2. (\E i \in 1 .. L : iq[i].op = "recv_enable" /\ iq[i].qp = x)
          <=> \E i \in 1 .. L + m : iq'[i].op = "recv_enable" /\ iq'[i].qp = x
    <3>1. \A i \in 1 .. L : i \in 1 .. L + m
      OBVIOUS
    <3> QED
      BY <1>3, <3>1
  <2> QED
    BY <1>4, <2>1, <2>2
<1> QED
  BY <1>1, <1>2, <1>5, <1>6 DEF RecvInv

(* A constructor adds the receive enables of its QPs.                      *)
LEMMA RecvMore ==
  ASSUME TypeOK, RecvInv, NEW q \in Data, NEW m \in {1, 2}, Constructed(q, m)
  PROVE  RecvInv'
<1> DEFINE r == iq'
           R == {"recv_enable"}
<1>0. PICK L \in Nat : L = Len(iq)
  BY DEF TypeOK
<1>1. /\ Len(iq') = L + m
      /\ \A i \in 1 .. L : iq'[i] = iq[i]
      /\ \A i \in L + 1 .. L + m : iq'[i].op = "recv_enable" /\ iq'[i].qp \in {q, Pair[q]}
      /\ iq'[L + 1].qp = q /\ iq'[L + m].qp = Pair[q]
      /\ Registered' = Registered \union {q, Pair[q]}
      /\ LateQps \/ \A i \in 1 .. L : iq[i].op = "recv_enable"
      /\ recvEnables' = recvEnables + m
  BY <1>0 DEF Constructed
<1>2. CountIn(r, R, Data, L + m) = CountIn(iq, R, Data, L) + m
  <2> HIDE DEF r
  <2>1. CountIn(r, R, Data, L) = CountIn(iq, R, Data, L)
    BY <1>1, CountKept DEF r
  <2>2. \A i \in L + 1 .. L + m : r[i].op \in R /\ r[i].qp \in Data
    BY <1>1, PairOfPair DEF r
  <2>3. CountIn(r, R, Data, L + m) = CountIn(r, R, Data, L) + m
    <3> HIDE DEF R
    <3> QED
      BY <2>2, CountAll
  <2> QED
    BY <2>1, <2>3
<1>3. CountIn(iq, R, Data, L) \in 0 .. L /\ recvEnables = CountIn(iq, R, Data, L)
  BY <1>0, ChosenFinite DEF RecvInv
<1>4. \A i \in 1 .. L + m : i \in 1 .. L \/ i \in L + 1 .. L + m
  OBVIOUS
<1>5. ASSUME ~ LateQps
      PROVE  /\ recvEnables' = L + m
             /\ \A i \in 1 .. L + m : iq'[i].op = "recv_enable"
  <2>1. \A i \in 1 .. L : iq[i].op = "recv_enable" /\ i <= recvEnables
    BY <1>0, <1>1, <1>5 DEF RecvInv
  <2>2. recvEnables = L
    <3>1. CASE L = 0
      BY <1>3, <3>1
    <3>2. CASE L # 0
      <4>1. L \in 1 .. L
        BY <3>2
      <4> QED
        BY <1>3, <2>1, <4>1
    <3> QED
      BY <3>1, <3>2
  <2> QED
    BY <1>1, <1>4, <2>1, <2>2
<1>6. ASSUME ~ LateQps, NEW x
      PROVE  (x \in Registered' /\ x # Mqp) <=> \E i \in 1 .. L + m : iq'[i].qp = x
  <2>1. (x \in Registered /\ x # Mqp) <=> \E i \in 1 .. L : iq'[i].qp = x
    BY <1>0, <1>1, <1>6 DEF RecvInv
  <2>2. (x \in {q, Pair[q]}) <=> \E i \in L + 1 .. L + m : iq'[i].qp = x
    <3>1. L + 1 \in L + 1 .. L + m /\ L + m \in L + 1 .. L + m
      OBVIOUS
    <3> QED
      BY <1>1, <3>1
  <2>3. \A i : i \in 1 .. L + m <=> i \in 1 .. L \/ i \in L + 1 .. L + m
    OBVIOUS
  <2>4. q # Mqp /\ Pair[q] # Mqp
    BY PairOfPair
  <2> QED
    BY <1>1, <2>1, <2>2, <2>3, <2>4
<1>7. recvEnables' = CountIn(iq', {"recv_enable"}, Data, Len(iq'))
  BY <1>1, <1>2, <1>3
<1>8. ASSUME ~ LateQps
      PROVE  /\ \A i \in 1 .. Len(iq') : iq'[i].op = "recv_enable" <=> i <= recvEnables'
             /\ \A x : (x \in Registered' /\ x # Mqp)
                   <=> \E i \in 1 .. Len(iq') : iq'[i].op = "recv_enable" /\ iq'[i].qp = x
  BY <1>1, <1>5, <1>6, <1>8
<1> QED
  BY <1>7, <1>8 DEF RecvInv

LEMMA BuildingBlock ==
  ASSUME IInv, BlockInv, Building
  PROVE  BlockInv'
<1>0. PICK q \in Data :
        \/ NewQp(q) \/ NewPair(q)
        \/ SendCredit(q) \/ Write(q) \/ WriteCmpl(q) \/ DoublingWriteCmpl(q)
        \/ ReduceWrite(q) \/ ReduceWriteCmpl(q)
        \/ \E op \in WaitOps : Wait(q, op)
  BY DEF Building
<1>1. /\ stage = "build" /\ UNCHANGED <<stage, drained, cursor, ctx, prog, rung>>
      /\ RecvInv'
  <2>1. CASE NewQp(q) \/ NewPair(q)
    <3>1. PICK m \in {1, 2} : Constructed(q, m)
      <4>1. Kind[q] # "ring" => Pair[q] = q
        BY GraphShape
      <4> QED
        BY <2>1, <4>1, ConstructIs DEF NewQp, NewPair, IInv
    <3>2. RecvInv'
      BY <3>1, RecvMore DEF IInv, BlockInv
    <3> QED
      BY <3>1, <3>2 DEF Constructed
  <2>2. CASE \/ SendCredit(q) \/ Write(q) \/ WriteCmpl(q) \/ DoublingWriteCmpl(q)
             \/ ReduceWrite(q) \/ ReduceWriteCmpl(q)
    <3>1. PICK op \in DataOps, a \in {0, 1}, b \in {0, 1} : Operation(q, op, a, b)
      BY <2>2 DEF SendCredit, Write, WriteCmpl, DoublingWriteCmpl, ReduceWrite,
                  ReduceWriteCmpl, DataOps
    <3>2. PICK L \in Nat : L = Len(iq)
      BY DEF IInv, TypeOK
    <3>3. /\ Len(iq') = L + 2
          /\ \A i \in 1 .. L : iq'[i] = iq[i]
          /\ iq'[L + 1] = Ins(op, q) /\ iq'[L + 2] = Ins("send_enable", q)
      <4>1. iq \in Seq(AllIns) /\ <<Ins(op, q), Ins("send_enable", q)>> \in Seq(AllIns)
        <5>1. iq \in Seq(AllIns)
          BY AllInsIs DEF IInv, TypeOK
        <5>2. Ins(op, q) \in AllIns /\ Ins("send_enable", q) \in AllIns
          BY DEF AllIns, CdOps, EnableOps, Ins
        <5> QED
          BY <5>1, <5>2
      <4> QED
        BY <3>1, <3>2, <4>1 DEF Operation
    <3>4. \A i \in L + 1 .. L + 2 : iq'[i].op # "recv_enable"
      <4>1. \A i \in L + 1 .. L + 2 : i = L + 1 \/ i = L + 2
        OBVIOUS
      <4>2. op # "recv_enable"
        BY DEF DataOps
      <4> QED
        BY <3>3, <4>1, <4>2 DEF Ins
    <3>5. RecvInv'
      BY <3>1, <3>2, <3>3, <3>4, RecvKept DEF Operation, BlockInv
    <3> QED
      BY <3>1, <3>5 DEF Operation
  <2>3. CASE \E op \in WaitOps : Wait(q, op)
    <3>1. PICK op \in WaitOps : Wait(q, op)
      BY <2>3
    <3>2. PICK L \in Nat : L = Len(iq)
      BY DEF IInv, TypeOK
    <3>3. /\ Len(iq') = L + 1
          /\ \A i \in 1 .. L : iq'[i] = iq[i]
          /\ iq'[L + 1] = Ins(op, q)
      <4>1. iq \in Seq(AllIns) /\ Ins(op, q) \in AllIns
        BY AllInsIs DEF IInv, TypeOK, Ins
      <4> QED
        BY <3>1, <3>2, <4>1 DEF Wait
    <3>4. \A i \in L + 1 .. L + 1 : iq'[i].op # "recv_enable"
      BY <3>3 DEF Ins, WaitOps
    <3>5. RecvInv'
      BY <3>1, <3>2, <3>3, <3>4, RecvKept DEF Wait, BlockInv
    <3> QED
      BY <3>1, <3>5 DEF Wait
  <2> QED
    BY <1>0, <2>1, <2>2, <2>3
<1>2. (\A x \in QPs : ctx[x] = NoCtx /\ prog[x] = <<>>) /\ Mqp \in QPs /\ drained = 0
  BY <1>1 DEF IInv, StageInv, QPs
<1>3. TileInv'
  BY <1>1, <1>2 DEF TileInv
<1>4. EndInv'
  BY <1>1 DEF EndInv
<1>5. PlaceInv'
  BY <1>1, <1>2 DEF PlaceInv
<1> QED
  BY <1>1, <1>3, <1>4, <1>5 DEF BlockInv
-----------------------------------------------------------------------------
(* finish.                                                                 *)

LEMMA BlockStart == Init => BlockInv
<1> SUFFICES ASSUME Init
             PROVE  BlockInv
  OBVIOUS
<1>1. /\ iq = <<>> /\ recvEnables = 0 /\ drained = 0 /\ stage = "build" /\ qps = <<Mqp>>
      /\ \A q \in QPs : ctx[q] = NoCtx /\ prog[q] = <<>>
      /\ Mqp \in QPs
  BY DEF Init, QPs
<1>2. RecvInv
  <2>1. CountIn(iq, {"recv_enable"}, Data, 0) = 0
    BY CountZero
  <2>2. Len(iq) = 0 /\ \A x \in Registered : x = Mqp
    BY <1>1 DEF Registered
  <2>3. recvEnables = CountIn(iq, {"recv_enable"}, Data, Len(iq))
    BY <1>1, <2>1, <2>2
  <2> QED
    BY <2>2, <2>3 DEF RecvInv
<1> QED
  BY <1>1, <1>2 DEF BlockInv, TileInv, EndInv, PlaceInv

LEMMA RecvSame ==
  ASSUME RecvInv, UNCHANGED <<qps, iq, recvEnables>>
  PROVE  RecvInv'
BY DEF RecvInv, Registered

LEMMA StageBlock ==
  ASSUME IInv, BlockInv, \/ Finish \/ InitTrap \/ InitDone \/ DrainDone \/ FinishDb
  PROVE  BlockInv'
<1>1. UNCHANGED <<qps, iq, drained, wqeCount, recvEnables, ctx, prog>>
  BY DEF Finish, InitTrap, InitDone, DrainDone, FinishDb, counts
<1>2. TileInv'
  BY <1>1 DEF BlockInv, TileInv, Roomy
<1>3. EndInv'
  <2>1. CASE Finish \/ InitTrap \/ InitDone
    BY <2>1 DEF Finish, InitTrap, InitDone, EndInv
  <2>2. CASE DrainDone
    <3>1. stage' = "fin" /\ cursor' = 0
      BY <2>2 DEF DrainDone, BlockInv, EndInv
    <3> QED
      BY <3>1 DEF EndInv
  <2>3. CASE FinishDb
    BY <1>1, <2>3 DEF FinishDb, BlockInv, EndInv
  <2> QED
    BY <2>1, <2>2, <2>3
<1>4. RecvInv'
  BY <1>1, RecvSame DEF BlockInv
<1>5. PlaceInv'
  BY <1>1 DEF BlockInv, PlaceInv
<1> QED
  BY <1>2, <1>3, <1>4, <1>5 DEF BlockInv

LEMMA InitQpBlock == ASSUME IInv, BlockInv, InitQp PROVE BlockInv'
<1>0. PICK q, peer : q = qps[cursor + 1] /\ peer = IF q = Mqp THEN q ELSE Pair[q]
  OBVIOUS
<1>1. /\ q \in QPs /\ peer \in QPs
      /\ q = Mqp => peer = q
      /\ q # Mqp => peer = Pair[q]
  <2>1. cursor < Len(qps) /\ cursor \in 0 .. Len(qps) /\ qps \in Seq(QPs)
    BY DEF InitQp, IInv, TypeOK
  <2>2. q \in QPs
    BY <1>0, <2>1
  <2> QED
    BY <1>0, <2>2, PairOfPair DEF QPs
<1>2. /\ stage = "init" /\ Fits(q)
      /\ UNCHANGED <<stage, qps, iq, drained, wqeCount, recvEnables, prog, rung>>
      /\ ctx' = IF peer # q /\ ctx[peer] # NoCtx
                  THEN [ctx EXCEPT ![q] = [NewCtx(q) EXCEPT !.pair = peer], ![peer].pair = q]
                  ELSE [ctx EXCEPT ![q] = NewCtx(q)]
  BY <1>0 DEF InitQp, counts
<1>3. /\ ctx' \in [QPs -> Ctx \union {NoCtx}]
      /\ ctx'[q] # NoCtx
      /\ ctx'[q].slots = Granted(wqeCount[q])
      /\ ctx'[q].wqes = Rounded(wqeCount[q])
      /\ ctx'[q].cqes = cqeCount[q]
      /\ ctx'[q].scqes = scqeCount[q]
      /\ ctx'[q].dups = Granted(wqeCount[q]) \div Rounded(wqeCount[q])
      /\ ctx'[q].written = 0 /\ ctx'[q].cmpl = 0 /\ ctx'[q].scmpl = 0
      /\ ctx'[peer] # NoCtx => ctx'[q].pair = peer /\ ctx'[peer].pair = q
      /\ \A x \in QPs \ {q} :
           /\ ctx'[x] = NoCtx <=> ctx[x] = NoCtx
           /\ ctx'[x] = ctx[x] \/ (x = peer /\ ctx'[x] = [ctx[x] EXCEPT !.pair = q])
  BY <1>1, <1>2, InitCtx
<1>4. ASSUME NEW x \in QPs, ctx'[x] # NoCtx
      PROVE  ctx'[x].written = 0
  <2>1. CASE x = q
    BY <1>3, <2>1
  <2>2. CASE x # q
    <3>1. ctx[x] # NoCtx
      BY <1>3, <1>4, <2>2
    <3>2. ctx[x] \in Ctx /\ CtxOf(x) /\ drained = 0
      BY <1>2, <3>1 DEF IInv, TypeOK, CtxInv, StageInv
    <3>3. ctx[x].written = 0
      BY <1>2, <3>2, SumsZero DEF CtxOf
    <3>4. [ctx[x] EXCEPT !.pair = q].written = ctx[x].written
      BY <3>2 DEF Ctx
    <3> QED
      BY <1>3, <2>2, <3>3, <3>4
  <2> QED
    BY <2>1, <2>2
<1>5. \A x \in QPs : prog'[x] = <<>>
  BY <1>2 DEF IInv, StageInv
<1>6. TileInv'
  <2> SUFFICES ASSUME NEW x \in QPs, ctx'[x] # NoCtx
               PROVE  Laid(prog'[x], 0, ctx'[x].written, ctx'[x].wqes)
    BY DEF TileInv
  <2>1. Len(prog'[x]) = 0
    BY <1>5
  <2> QED
    BY <1>4, <2>1 DEF Laid
<1>7. EndInv'
  BY <1>2 DEF EndInv
<1>8. RecvInv'
  BY <1>2, RecvSame DEF BlockInv
<1>9. PlaceInv'
  BY <1>2 DEF BlockInv, PlaceInv
<1> QED
  BY <1>6, <1>7, <1>8, <1>9 DEF BlockInv
-----------------------------------------------------------------------------
(* finish: the list is drained.                                            *)

(* An instruction adds one WQE to a queue, behind those that are there.    *)
Appended(q, w) ==
  /\ w \in Wqe \union CdWqe
  /\ w.at = WqesOf(iq, q, drained)
  /\ w.size \in Nat \ {0}
  /\ ctx[q] # NoCtx
  /\ prog' = [prog EXCEPT ![q] = Append(@, w)]
  /\ \A x \in QPs : ctx'[x] # NoCtx =>
       /\ ctx[x] # NoCtx
       /\ ctx'[x].wqes = ctx[x].wqes
       /\ ctx'[x].written = ctx[x].written + (IF x = q THEN w.size ELSE 0)

LEMMA AppendedTiles ==
  ASSUME IInv, TileInv, stage = "drain", UNCHANGED wqeCount,
         NEW q \in QPs, NEW w, Appended(q, w)
  PROVE  TileInv'
<1> DEFINE W == Wqe \union CdWqe
<1>1. DOMAIN prog = QPs /\ \A x \in QPs : prog[x] \in Seq(W)
  BY DEF IInv, TypeOK, QPs
<1>2. PICK d \in Nat : d = drained
  BY DEF IInv, TypeOK
<1> SUFFICES ASSUME NEW x \in QPs, ctx'[x] # NoCtx, Roomy(wqeCount[x])
             PROVE  Laid(prog'[x], 0, ctx'[x].written, ctx'[x].wqes)
  BY DEF TileInv, Roomy
<1>3. /\ ctx[x] # NoCtx
      /\ ctx'[x].wqes = ctx[x].wqes
      /\ ctx'[x].written = ctx[x].written + (IF x = q THEN w.size ELSE 0)
  BY DEF Appended
<1>4. Laid(prog[x], 0, ctx[x].written, ctx[x].wqes)
  BY <1>3 DEF TileInv
<1>5. ctx[x].written = WqesOf(iq, x, d) /\ ctx[x].written \in Nat
  <2>1. CtxOf(x)
    BY <1>3 DEF IInv, CtxInv
  <2>2. WqesOf(iq, x, d) \in Nat
    BY SumsType
  <2> QED
    BY <1>2, <2>1, <2>2 DEF CtxOf
<1>6. CASE x = q
  <2>1. prog'[x] = Append(prog[x], w)
    BY <1>1, <1>6 DEF Appended
  <2>2. w.at = ctx[x].written /\ w.size \in Nat \ {0} /\ w \in W
    BY <1>2, <1>5, <1>6 DEF Appended
  <2>3. Laid(Append(prog[x], w), 0, End(w), ctx[x].wqes)
    <3>1. 0 \in Nat /\ w.at \in Nat /\ Laid(prog[x], 0, w.at, ctx[x].wqes)
      BY <1>4, <1>5, <2>2
    <3> HIDE DEF W
    <3> QED
      BY <1>1, <2>2, <3>1, LaidAppend
  <2>4. ctx'[x].written = End(w)
    BY <1>3, <1>6, <2>2 DEF End
  <2> QED
    BY <1>3, <2>1, <2>3, <2>4
<1>7. CASE x # q
  <2>1. prog'[x] = prog[x] /\ ctx'[x].written = ctx[x].written
    BY <1>1, <1>3, <1>5, <1>7 DEF Appended
  <2> QED
    BY <1>3, <1>4, <2>1
<1> QED
  BY <1>6, <1>7

(* The slot is counted round the ring; no queue comes that far.            *)
LEMMA SlotIs ==
  ASSUME IInv, stage = "drain", drained < Len(iq), NEW q \in QPs, ctx[q] # NoCtx,
         NEW z \in Nat \ {0}, WqesOf(iq, q, drained + 1) = WqesOf(iq, q, drained) + z
  PROVE  ctx[q].written % ctx[q].slots = WqesOf(iq, q, drained)
<1>1. PICK d \in Nat : d = drained /\ d + 1 <= Len(iq)
  BY DEF IInv, TypeOK
<1>2. ctx[q].slots \in Nat \ {0} /\ WqesOf(iq, q, d + 1) <= ctx[q].slots
  BY <1>1, RoomInBlock
<1>3. PICK w \in Nat, t \in Nat \ {0} : w = WqesOf(iq, q, d) /\ t = ctx[q].slots
  BY <1>2, SumsType
<1>4. w + z <= t
  BY <1>1, <1>2, <1>3
<1>5. w % t = w
  BY <1>4, SmallRemainder
<1>6. ctx[q].written = w
  <2>1. CtxOf(q)
    BY DEF IInv, CtxInv
  <2> QED
    BY <1>1, <1>3, <2>1 DEF CtxOf
<1> QED
  BY <1>1, <1>3, <1>5, <1>6

LEMMA PostDataBlock ==
  ASSUME IInv, BlockInv, Drain, PostData(drained + 1)
  PROVE  TileInv' /\ PlaceInv'
<1>0. stage = "drain" /\ drained < Len(iq)
  BY DEF Drain
<1>1. PICK d \in Nat : d = drained
  BY DEF IInv, TypeOK
<1>ins. PICK q, op : q = iq[drained + 1].qp /\ op = iq[drained + 1].op
  OBVIOUS
<1>2. /\ d + 1 \in 1 .. Len(iq)
      /\ q \in Data /\ op \in DataOps /\ q \in QPs /\ q # Mqp /\ Mqp \in QPs
      /\ ctx[q] \in Ctx /\ ctx[Pair[q]] \in Ctx /\ ctx[q].pair = Pair[q] /\ Pair[q] \in Data
  BY <1>0, <1>1, <1>ins, Draining, PairOfPair DEF PostData
<1>3. PICK z \in Nat : z = Size(op) /\ z # 0
  BY DEF Size
<1>4. /\ prog' = [prog EXCEPT ![q] = Append(@,
                    [op |-> op, ins |-> d + 1, at |-> ctx[q].written % ctx[q].slots,
                     size |-> Size(op)])]
      /\ ctx' = Posted(ctx, q, op)
      /\ drained' = d + 1
      /\ UNCHANGED <<stage, qps, iq, wqeCount>>
  BY <1>1, <1>ins DEF Drain, PostData, counts
<1>5. \A x \in QPs : ctx'[x] # NoCtx =>
        /\ ctx[x] # NoCtx
        /\ ctx'[x].wqes = ctx[x].wqes
        /\ ctx'[x].written = ctx[x].written + (IF x = q THEN z ELSE 0)
  <2>1. ctx \in [QPs -> Ctx \union {NoCtx}]
    BY DEF IInv, TypeOK
  <2> QED
    BY <1>2, <1>3, <1>4, <2>1, PostedIs
<1>6. ctx[q] # NoCtx
  BY <1>2, NoCtxIsNone
<1>7. WqesOf(iq, q, d + 1) = WqesOf(iq, q, d) + z
  <2>1. iq[d + 1].op = op /\ iq[d + 1].qp = q
    BY <1>1, <1>ins
  <2>2. iq[d + 1].op \in DataOps /\ iq[d + 1].qp \in Data
    BY <1>2, <2>1
  <2>3. PostAdds(iq, q, d, iq[d + 1].op, iq[d + 1].qp)
    BY <1>2, <2>2, SumsOfPost
  <2> QED
    BY <1>3, <2>1, <2>3 DEF PostAdds
<1>8. ctx[q].written % ctx[q].slots = WqesOf(iq, q, d)
  BY <1>0, <1>1, <1>2, <1>3, <1>6, <1>7, SlotIs
<1>9. PICK w : w = [op |-> op, ins |-> d + 1, at |-> WqesOf(iq, q, d), size |-> z]
  OBVIOUS
<1>10. Appended(q, w)
  <2>1. prog' = [prog EXCEPT ![q] = Append(@, w)]
    BY <1>3, <1>4, <1>8, <1>9
  <2>2. w \in Wqe
    BY <1>2, <1>9, SumsType DEF Wqe
  <2>3. w.at = WqesOf(iq, q, drained) /\ w.size = z /\ z \in Nat \ {0}
    BY <1>1, <1>3, <1>9
  <2> QED
    BY <1>5, <1>6, <2>1, <2>2, <2>3 DEF Appended
<1>11. TileInv'
  BY <1>0, <1>2, <1>4, <1>10, AppendedTiles DEF BlockInv
<1>12. PlaceInv'
  <2>1. prog'[Mqp] = prog[Mqp]
    BY <1>2, <1>4 DEF IInv, TypeOK
  <2>2. iq[d + 1].op \notin CdOps
    BY <1>1, <1>2, <1>ins DEF DataOps, CdOps, WaitOps, EnableOps
  <2>3. \A i \in 1 .. d + 1 : i \in 1 .. d \/ i = d + 1
    OBVIOUS
  <2>4. \A k \in 1 .. Len(prog[Mqp]) : prog[Mqp][k].op # "nop" =>
          prog[Mqp][k].at = WqesOf(iq, Mqp, prog[Mqp][k].ins - 1)
    BY DEF BlockInv, PlaceInv
  <2>5. \A i \in 1 .. d + 1 : iq[i].op \in CdOps =>
          \E k \in 1 .. Len(prog[Mqp]) : prog[Mqp][k].op # "nop" /\ prog[Mqp][k].ins = i
    BY <1>1, <2>2, <2>3 DEF BlockInv, PlaceInv
  <2>6. iq' = iq /\ drained' = d + 1
    BY <1>4
  <2> QED
    BY <2>1, <2>4, <2>5, <2>6 DEF PlaceInv
<1> QED
  BY <1>11, <1>12

LEMMA PostCdBlock ==
  ASSUME IInv, BlockInv, Drain, NEW index, NEW inc, PostCd(drained + 1, index, inc),
         index \in Nat \union {-1}, inc \in Nat, iq[drained + 1].op \in CdOps
  PROVE  TileInv' /\ PlaceInv'
<1>0. stage = "drain" /\ drained < Len(iq)
  BY DEF Drain
<1>1. PICK d \in Nat : d = drained
  BY DEF IInv, TypeOK
<1>ins. PICK q, op : q = iq[drained + 1].qp /\ op = iq[drained + 1].op
  OBVIOUS
<1>2. /\ d + 1 \in 1 .. Len(iq)
      /\ q \in Data /\ op \in CdOps
      /\ Mqp \in QPs /\ ctx[Mqp] \in Ctx
  BY <1>0, <1>1, <1>ins, Draining, PairOfPair
<1>3. drained' = d + 1 /\ UNCHANGED <<stage, qps, iq, wqeCount>>
  BY <1>1 DEF Drain, counts
<1>4. ctx[Mqp] # NoCtx
  BY <1>2, NoCtxIsNone
<1>5. \A x \in QPs : ctx'[x] # NoCtx =>
        /\ ctx[x] # NoCtx
        /\ ctx'[x].wqes = ctx[x].wqes
        /\ ctx'[x].written = ctx[x].written + (IF x = Mqp THEN 1 ELSE 0)
  <2>1. PICK v \in Nat : v = ctx[Mqp].written + 1
    BY <1>2 DEF Ctx
  <2>2. ctx \in [QPs -> Ctx \union {NoCtx}] /\ ctx' = [ctx EXCEPT ![Mqp].written = v]
    BY <1>2, <2>1 DEF IInv, TypeOK, PostCd
  <2>3. /\ \A x \in QPs : x # Mqp => ctx'[x] = ctx[x]
        /\ ctx'[Mqp].wqes = ctx[Mqp].wqes /\ ctx'[Mqp].written = v
    BY <1>2, <2>1, <2>2, WrittenMoves
  <2>4. ASSUME NEW x \in QPs, x # Mqp, ctx[x] # NoCtx
        PROVE  ctx[x].written + 0 = ctx[x].written
    <3>1. ctx[x] \in Ctx
      BY <2>2, <2>4
    <3> QED
      BY <3>1 DEF Ctx
  <2> QED
    BY <1>4, <2>1, <2>3, <2>4
<1>6. WqesOf(iq, Mqp, d + 1) = WqesOf(iq, Mqp, d) + 1
  <2>1. iq[d + 1].op \in CdOps /\ iq[d + 1].qp \in Data
    BY <1>1, <1>2, <1>ins
  <2> QED
    BY <1>2, <2>1, SumsOfCd
<1>7. ctx[Mqp].written % ctx[Mqp].slots = WqesOf(iq, Mqp, d)
  BY <1>0, <1>1, <1>2, <1>4, <1>6, SlotIs
<1>8. PICK w : w = [op |-> op, ins |-> d + 1, at |-> WqesOf(iq, Mqp, d),
                    size |-> 1, slave |-> q, index |-> index, inc |-> inc]
  OBVIOUS
<1>9. Appended(Mqp, w) /\ w.op # "nop" /\ w.ins = d + 1 /\ w.at = WqesOf(iq, Mqp, w.ins - 1)
  <2>1. prog' = [prog EXCEPT ![Mqp] = Append(@, w)]
    BY <1>1, <1>ins, <1>7, <1>8 DEF PostCd
  <2>2. w \in CdWqe
    BY <1>2, <1>8, SumsType DEF CdWqe, CdOps, EnableOps
  <2>3. w.at = WqesOf(iq, Mqp, drained) /\ w.size = 1 /\ w.ins = d + 1 /\ w.op = op
    BY <1>1, <1>8
  <2>4. Appended(Mqp, w)
    BY <1>4, <1>5, <2>1, <2>2, <2>3 DEF Appended
  <2> QED
    BY <1>1, <1>2, <2>3, <2>4 DEF CdOps, WaitOps, EnableOps
<1>10. TileInv'
  BY <1>0, <1>2, <1>3, <1>9, AppendedTiles DEF BlockInv
<1>11. PlaceInv'
  <2>1. PICK n \in Nat : n = Len(prog[Mqp])
    BY DEF IInv, TypeOK
  <2>2. /\ Len(prog'[Mqp]) = n + 1
        /\ prog'[Mqp][n + 1] = w
        /\ \A k \in 1 .. n : prog'[Mqp][k] = prog[Mqp][k]
    <3>1. prog'[Mqp] = Append(prog[Mqp], w) /\ prog[Mqp] \in Seq(Wqe \union CdWqe)
      BY <1>2, <1>9 DEF Appended, IInv, TypeOK
    <3>2. w \in Wqe \union CdWqe
      BY <1>9 DEF Appended
    <3> QED
      BY <2>1, <3>1, <3>2
  <2>3. /\ \A k \in 1 .. n + 1 : k \in 1 .. n \/ k = n + 1
        /\ \A i \in 1 .. d + 1 : i \in 1 .. d \/ i = d + 1
        /\ n + 1 \in 1 .. n + 1
        /\ \A k \in 1 .. n : k \in 1 .. n + 1
    OBVIOUS
  <2>4. \A k \in 1 .. n + 1 : prog'[Mqp][k].op # "nop" =>
          prog'[Mqp][k].at = WqesOf(iq, Mqp, prog'[Mqp][k].ins - 1)
    BY <1>9, <2>1, <2>2, <2>3 DEF BlockInv, PlaceInv
  <2>5. ASSUME NEW i \in 1 .. d + 1, iq[i].op \in CdOps
        PROVE  \E k \in 1 .. n + 1 : prog'[Mqp][k].op # "nop" /\ prog'[Mqp][k].ins = i
    <3>1. CASE i = d + 1
      BY <1>9, <2>2, <2>3, <3>1
    <3>2. CASE i \in 1 .. d
      <4>1. PICK k \in 1 .. n : prog[Mqp][k].op # "nop" /\ prog[Mqp][k].ins = i
        BY <1>1, <2>1, <2>5, <3>2 DEF BlockInv, PlaceInv
      <4> QED
        BY <2>2, <2>3, <4>1
    <3> QED
      BY <2>3, <3>1, <3>2
  <2> QED
    BY <1>3, <2>2, <2>4, <2>5 DEF PlaceInv
<1> QED
  BY <1>10, <1>11
LEMMA DrainBlock == ASSUME IInv, BlockInv, Drain PROVE BlockInv'
<1> DEFINE i == drained + 1
<1>1. /\ stage = "drain" /\ drained < Len(iq)
      /\ UNCHANGED <<stage, qps, iq, cursor, recvEnables>>
  BY DEF Drain, counts
<1>2. PICK q, op : q = iq[i].qp /\ op = iq[i].op
  OBVIOUS
<1>3. q \in Data /\ ctx[q] \in Ctx /\ op \in DataOps \union CdOps
  BY <1>1, <1>2, Draining
<1>4. /\ ctx[q].written \in Nat /\ ctx[q].wqes \in Nat
      /\ ctx[q].cqes \in Nat /\ ctx[q].scqes \in Nat
      /\ ctx[q].cmpl - 1 \in Nat \union {-1} /\ ctx[q].scmpl - 1 \in Nat \union {-1}
  BY <1>3 DEF Ctx
<1> HIDE DEF i
<1>5. ASSUME PostData(i)
      PROVE  TileInv' /\ PlaceInv'
  BY <1>5, PostDataBlock DEF i
<1>6. ASSUME ~ PostData(i)
      PROVE  TileInv' /\ PlaceInv'
  <2>1. PICK index \in Nat \union {-1}, inc \in Nat : PostCd(i, index, inc) /\ op \in CdOps
    <3>1. CASE CdSendEnable(i)
      BY <1>2, <1>4, <3>1 DEF CdSendEnable, CdOps, EnableOps
    <3>2. CASE CdRecvEnable(i)
      <4>1. AllReceives \in Nat
        BY DEF AllReceives
      <4> QED
        BY <1>2, <1>4, <3>2, <4>1 DEF CdRecvEnable, CdOps, EnableOps
    <3>3. CASE CdWait(i)
      BY <1>2, <1>4, <3>3 DEF CdWait, CdOps, WaitOps
    <3>4. CASE CdWaitSend(i)
      BY <1>2, <1>4, <3>4 DEF CdWaitSend, CdOps, WaitOps
    <3> QED
      BY <1>6, <3>1, <3>2, <3>3, <3>4 DEF Drain, i
  <2> QED
    BY <1>2, <2>1, PostCdBlock DEF i
<1>7. TileInv' /\ PlaceInv'
  BY <1>5, <1>6
<1>8. EndInv'
  BY <1>1 DEF BlockInv, EndInv
<1>9. RecvInv'
  BY <1>1, RecvSame DEF BlockInv
<1> QED
  BY <1>7, <1>8, <1>9 DEF BlockInv
-----------------------------------------------------------------------------
(* finish: the queues are padded.                                          *)

LEMMA FinQpBlock == ASSUME IInv, BlockInv, FinQp PROVE BlockInv'
<1> DEFINE W == Wqe \union CdWqe
<1>0. PICK q : q = qps[cursor + 1]
  OBVIOUS
<1>1. /\ stage = "fin" /\ cursor' = cursor + 1 /\ cursor < Len(qps)
      /\ prog' = [prog EXCEPT ![q] = @ \o Pads(q)]
      /\ ctx' = [ctx EXCEPT ![q].written = ctx[q].wqes]
      /\ UNCHANGED <<stage, qps, iq, drained, wqeCount, recvEnables, rung>>
  BY <1>0 DEF FinQp, counts
<1>2. cursor \in Nat /\ cursor + 1 \in 1 .. Len(qps) /\ q \in Registered /\ q \in QPs
  <2>5. cursor \in Nat /\ cursor + 1 \in 1 .. Len(qps) /\ Len(qps) \in Nat
    <3>1. cursor \in 0 .. Len(qps) /\ Len(qps) \in Nat
      BY DEF IInv, TypeOK
    <3> QED
      BY <1>1, <3>1
  <2>1. PICK i \in Nat, n \in Nat : i = cursor + 1 /\ n = Len(qps) /\ i \in 1 .. n
    BY <2>5
  <2>2. q = qps[i] /\ qps \in Seq(QPs)
    BY <1>0, <2>1 DEF IInv, TypeOK
  <2>3. q \in QPs
    BY <2>1, <2>2
  <2>4. q \in Registered
    BY <2>1, <2>2 DEF Registered
  <2> QED
    BY <2>1, <2>3, <2>4, <2>5
<1>3. /\ ctx[q] # NoCtx /\ ctx[q] \in Ctx /\ CtxOf(q)
      /\ ctx[q].slots \in Nat \ {0} /\ ctx[q].wqes \in Nat \ {0}
  <2>1. ctx[q] # NoCtx
    BY <1>1, <1>2 DEF IInv, StageInv
  <2>2. ctx[q] \in Ctx /\ CtxOf(q)
    BY <1>2, <2>1 DEF IInv, TypeOK, CtxInv
  <2>3. ctx[q].slots \in Nat \ {0}
    <3>1. 0 \in Nat /\ 0 <= Len(iq)
      BY DEF IInv, TypeOK
    <3> QED
      BY <1>2, <2>1, <3>1, RoomInBlock
  <2>4. Fits(q) /\ wqeCount[q] \in Nat
    BY <1>2, <2>2 DEF CtxOf, IInv, TypeOK
  <2>5. wqeCount[q] <= ctx[q].wqes /\ wqeCount[q] > 0
    BY <1>2, <2>2, <2>4, NewCtxIs DEF CtxOf, Fits
  <2>6. ctx[q].wqes \in Nat
    BY <2>2 DEF Ctx
  <2> QED
    BY <2>1, <2>2, <2>3, <2>4, <2>5, <2>6
<1>4. /\ \A x \in QPs : x # q => ctx'[x] = ctx[x]
      /\ ctx'[q] \in Ctx
      /\ ctx'[q].wqes = ctx[q].wqes
      /\ ctx'[q].written = ctx[q].wqes
  <2>1. PICK v \in Nat : v = ctx[q].wqes
    BY <1>3
  <2>2. ctx' = [ctx EXCEPT ![q].written = v] /\ ctx \in [QPs -> Ctx \union {NoCtx}]
    BY <1>1, <2>1 DEF IInv, TypeOK
  <2> QED
    BY <1>2, <1>3, <2>1, <2>2, WrittenMoves
<1>5. Pads(q) \in Seq(Wqe) /\ \A i \in 1 .. Len(Pads(q)) : Pads(q)[i].op = "nop"
  <2>1. ctx[q].slots # 0 /\ ctx[q].written <= ctx[q].wqes
    BY <1>3 DEF CtxOf
  <2> QED
    BY <1>3, <2>1, PadsAreNops
<1>6. /\ prog[q] \in Seq(W) /\ Pads(q) \in Seq(W)
      /\ prog'[q] = prog[q] \o Pads(q)
      /\ \A x \in QPs : x # q => prog'[x] = prog[x]
  <2>1. DOMAIN prog = QPs /\ prog[q] \in Seq(W)
    BY <1>2 DEF IInv, TypeOK, QPs
  <2>2. Pads(q) \in Seq(W)
    BY <1>5
  <2> QED
    BY <1>1, <1>2, <2>1, <2>2
<1>7. TileInv'
  <2> SUFFICES ASSUME NEW x \in QPs, ctx'[x] # NoCtx, Roomy(wqeCount[x])
               PROVE  Laid(prog'[x], 0, ctx'[x].written, ctx'[x].wqes)
    BY <1>1 DEF TileInv, Roomy
  <2>1. CASE x = q
    <3>1. Laid(prog[q], 0, ctx[q].written, ctx[q].wqes)
      BY <1>2, <1>3, <2>1 DEF BlockInv, TileInv
    <3>2. 2 * ctx[q].wqes <= ctx[q].slots
      <4>1. PICK n \in Nat \ {0} : n = wqeCount[q]
        BY <1>2, <1>3 DEF CtxOf, Fits, IInv, TypeOK
      <4>2. ctx[q].slots = Granted(n) /\ ctx[q].wqes = Rounded(n) /\ Granted(n) \in Nat
        BY <1>3, <4>1 DEF CtxOf
      <4>3. Roomy(n)
        BY <2>1, <4>1
      <4> QED
        BY <4>2, <4>3, TwoBlocks
    <3>3. Laid(Pads(q), ctx[q].written, ctx[q].wqes, ctx[q].wqes)
      <4>1. ctx[q].written <= ctx[q].wqes /\ ctx[q].wqes # 0
        BY <1>3 DEF CtxOf
      <4> QED
        BY <1>3, <3>2, <4>1, PadsLaid
    <3>4. 0 \in Nat /\ ctx[q].written \in Nat /\ ctx[q].wqes \in Nat
      BY <1>3 DEF Ctx
    <3>5. Laid(prog[q] \o Pads(q), 0, ctx[q].wqes, ctx[q].wqes)
      <4> HIDE DEF W
      <4> QED
        BY <1>6, <3>1, <3>3, <3>4, LaidBehind
    <3> QED
      BY <1>4, <1>6, <2>1, <3>5
  <2>2. CASE x # q
    BY <1>4, <1>6, <2>2 DEF BlockInv, TileInv
  <2> QED
    BY <2>1, <2>2
<1>8. EndInv'
  <2>1. ASSUME NEW i \in 1 .. cursor + 1
        PROVE  ctx'[qps[i]].written = ctx'[qps[i]].wqes
    <3>1. CASE qps[i] = q
      BY <1>4, <3>1
    <3>2. CASE qps[i] # q
      <4>1. i \in 1 .. cursor /\ i \in 1 .. Len(qps)
        BY <1>0, <1>2, <3>2
      <4>2. ctx[qps[i]].written = ctx[qps[i]].wqes
        BY <1>1, <4>1 DEF BlockInv, EndInv
      <4>3. qps[i] \in QPs
        BY <4>1 DEF IInv, TypeOK
      <4> QED
        BY <1>4, <3>2, <4>2, <4>3
    <3> QED
      BY <3>1, <3>2
  <2> QED
    BY <1>1, <2>1 DEF EndInv
<1>9. RecvInv'
  BY <1>1, RecvSame DEF BlockInv
<1>10. PlaceInv'
  <2>1. CASE q # Mqp
    <3>1. prog'[Mqp] = prog[Mqp]
      BY <1>6, <2>1 DEF QPs
    <3>2. iq' = iq /\ drained' = drained
      BY <1>1
    <3> QED
      BY <3>1, <3>2 DEF BlockInv, PlaceInv
  <2>2. CASE q = Mqp
    <3>1. PICK m \in Nat, n \in Nat : m = Len(prog[q]) /\ n = Len(Pads(q))
      BY <1>6
    <3>2. /\ Len(prog'[q]) = m + n
          /\ \A k \in 1 .. m : prog'[q][k] = prog[q][k]
          /\ \A k \in m + 1 .. m + n : prog'[q][k] = Pads(q)[k - m]
      <4>1. PICK a \in Seq(W), b \in Seq(W) : a = prog[q] /\ b = Pads(q)
        BY <1>6
      <4>2. prog'[q] = a \o b /\ m = Len(a) /\ n = Len(b)
        BY <1>6, <3>1, <4>1
      <4>3. /\ Len(a \o b) = m + n
            /\ \A k \in 1 .. m : (a \o b)[k] = a[k]
            /\ \A k \in m + 1 .. m + n : (a \o b)[k] = b[k - m]
        BY <3>1, <4>2
      <4> QED
        BY <4>1, <4>2, <4>3
    <3>3. ASSUME NEW k \in 1 .. m + n, prog'[q][k].op # "nop"
          PROVE  k \in 1 .. m /\ prog'[q][k] = prog[q][k]
      <4>1. ASSUME ~ (k \in 1 .. m)
            PROVE  FALSE
        <5>1. k \in m + 1 .. m + n /\ k - m \in 1 .. n
          BY <4>1
        <5> QED
          BY <1>5, <3>1, <3>2, <3>3, <5>1
      <4> QED
        BY <3>2, <4>1
    <3>4. \A k \in 1 .. m : k \in 1 .. m + n
      OBVIOUS
    <3>5. \A k \in 1 .. m + n : prog'[Mqp][k].op # "nop" =>
            prog'[Mqp][k].at = WqesOf(iq, Mqp, prog'[Mqp][k].ins - 1)
      BY <2>2, <3>1, <3>3 DEF BlockInv, PlaceInv
    <3>6. ASSUME NEW i \in 1 .. drained, iq[i].op \in CdOps
          PROVE  \E k \in 1 .. m + n : prog'[Mqp][k].op # "nop" /\ prog'[Mqp][k].ins = i
      <4>1. PICK k \in 1 .. m : prog[Mqp][k].op # "nop" /\ prog[Mqp][k].ins = i
        BY <2>2, <3>1, <3>6 DEF BlockInv, PlaceInv
      <4>2. k \in 1 .. m + n /\ prog'[Mqp][k] = prog[Mqp][k]
        BY <2>2, <3>2, <3>4
      <4> QED
        BY <4>1, <4>2
    <3>7. iq' = iq /\ drained' = drained /\ Len(prog'[Mqp]) = m + n
      BY <1>1, <2>2, <3>2
    <3> QED
      BY <3>5, <3>6, <3>7 DEF PlaceInv
  <2> QED
    BY <2>1, <2>2
<1> QED
  BY <1>7, <1>8, <1>9, <1>10 DEF BlockInv
-----------------------------------------------------------------------------
(* What holds of every graph.                                              *)

LEMMA LayoutStep == ASSUME IInv, BlockInv, [Next]_vars PROVE BlockInv'
<1>1. CASE Building
  BY <1>1, BuildingBlock
<1>2. CASE Finish \/ InitTrap \/ InitDone \/ DrainDone \/ FinishDb
  BY <1>2, StageBlock
<1>3. CASE InitQp
  BY <1>3, InitQpBlock
<1>4. CASE Drain
  BY <1>4, DrainBlock
<1>5. CASE FinQp
  BY <1>5, FinQpBlock
<1>6. CASE UNCHANGED vars
  <2>1. UNCHANGED <<stage, qps, iq, drained, cursor, wqeCount, recvEnables, ctx, prog, rung>>
    BY <1>6 DEF vars, counts
  <2>2. TileInv'
    BY <2>1 DEF BlockInv, TileInv, Roomy
  <2>3. EndInv'
    BY <2>1 DEF BlockInv, EndInv
  <2>4. RecvInv'
    BY <2>1, RecvSame DEF BlockInv
  <2>5. PlaceInv'
    BY <2>1 DEF BlockInv, PlaceInv
  <2> QED
    BY <2>2, <2>3, <2>4, <2>5 DEF BlockInv
<1> QED
  BY <1>1, <1>2, <1>3, <1>4, <1>5, <1>6 DEF Next, Finishing, Over

(* In every state the WQEs of a queue lie in its block without a gap, the  *)
(* instructions of the management queue in the order of the calls, and     *)
(* recv_enables is the number of receive enables among them.               *)
THEOREM Layout == Spec => [](IInv /\ BlockInv)
<1>1. Init => IInv /\ BlockInv
  BY Start, BlockStart
<1>2. ASSUME IInv, BlockInv, [Next]_vars
      PROVE  IInv' /\ BlockInv'
  BY <1>2, NextStep, LayoutStep
<1> QED
  BY <1>1, <1>2, PTL DEF Spec

(* What the theorems below ask of the author, besides GivesTwice of the    *)
(* provider: the program passes the size of a queue on in 16 bits.         *)
Countable == \A q \in Registered : wqeCount[q] < Word

LEMMA CountableRoomy ==
  ASSUME GivesTwice, TypeOK, CountsInv, MemberInv, Countable,
         NEW q \in Registered, Fits(q)
  PROVE  Roomy(wqeCount[q]) /\ wqeCount[q] \in Nat \ {0}
<1>1. q \in QPs
  BY RegisteredAre DEF TypeOK
<1>2. PICK n \in Nat \ {0} : n = wqeCount[q] /\ n \in 0 .. 2 * MaxIns /\ n \in 0 .. Word - 1
  <2>1. wqeCount[q] \in 0 .. 2 * MaxIns /\ wqeCount[q] \in Nat
    BY <1>1, CountBound DEF TypeOK
  <2>2. wqeCount[q] < Word /\ wqeCount[q] > 0
    BY DEF Countable, Fits
  <2> QED
    BY <2>1, <2>2, SizesAre
<1>3. n % Word = n
  BY <1>2, SizesAre, SmallRemainder
<1>4. n \in DOMAIN SqSlots
  BY <1>2, GraphShape
<1>5. Granted(n) % 2 = 0 /\ Granted(n) >= 2 * n
  BY <1>3, <1>4 DEF Granted, GivesTwice
<1> QED
  BY <1>2, <1>5 DEF Roomy

(* What is known of a queue of a graph that is ready.                      *)
LEMMA ReadyQueue ==
  ASSUME IInv, stage = "ready", NEW q \in Registered
  PROVE  /\ q \in QPs /\ ctx[q] # NoCtx /\ ctx[q] \in Ctx /\ CtxOf(q)
         /\ ctx[q].wqes \in Nat \ {0} /\ ctx[q].slots \in Nat
         /\ wqeCount[q] \in Nat /\ wqeCount[q] <= ctx[q].wqes
<1>1. q \in QPs
  BY RegisteredAre DEF IInv, TypeOK
<1>2. ctx[q] # NoCtx
  BY DEF IInv, StageInv
<1>3. ctx[q] \in Ctx /\ CtxOf(q)
  BY <1>1, <1>2 DEF IInv, TypeOK, CtxInv
<1>4. wqeCount[q] \in Nat /\ wqeCount[q] > 0 /\ wqeCount[q] <= ctx[q].wqes
  <2>1. Fits(q) /\ ctx[q].wqes = Rounded(wqeCount[q])
    BY <1>3 DEF CtxOf
  <2>2. wqeCount[q] \in Nat
    BY <1>1 DEF IInv, TypeOK
  <2> QED
    BY <1>1, <2>1, <2>2, NewCtxIs DEF Fits
<1>5. ctx[q].wqes \in Nat /\ ctx[q].slots \in Nat
  BY <1>3 DEF Ctx
<1> QED
  BY <1>1, <1>2, <1>3, <1>4, <1>5

(* When finish() returns, every slot of a block of every queue belongs to  *)
(* just one WQE, whatever the program of operations was: the counts of the *)
(* calls, the drain and the padding agree.                                 *)
THEOREM BlocksAreTiled ==
  ASSUME GivesTwice
  PROVE  Spec => [](Countable => BlockTiled)
<1>1. IInv /\ BlockInv => (Countable => BlockTiled)
  <2> SUFFICES ASSUME IInv, BlockInv, Countable, stage = "ready", NEW q \in Registered
               PROVE  LET block == {k \in 1 .. Len(prog[q]) : prog[q][k].at < ctx[q].wqes}
                      IN  /\ UNION {Slots(prog[q][k]) : k \in block} = 0 .. ctx[q].wqes - 1
                          /\ \A j, k \in block : j # k =>
                               Slots(prog[q][j]) \intersect Slots(prog[q][k]) = {}
    BY DEF BlockTiled
  <2>1. q \in QPs /\ ctx[q] # NoCtx /\ CtxOf(q) /\ ctx[q].wqes \in Nat \ {0}
    BY ReadyQueue
  <2>2. Roomy(wqeCount[q])
    BY <2>1, CountableRoomy DEF IInv, CtxOf
  <2>3. ctx[q].written = ctx[q].wqes
    BY DEF BlockInv, EndInv, Registered
  <2>4. Laid(prog[q], 0, ctx[q].wqes, ctx[q].wqes)
    BY <2>1, <2>2, <2>3 DEF BlockInv, TileInv
  <2>5. prog[q] \in Seq(Wqe \union CdWqe)
    BY <2>1 DEF IInv, TypeOK, QPs
  <2>6. /\ UNION {Slots(prog[q][k]) : k \in Blocked(prog[q], ctx[q].wqes)}
             = 0 .. ctx[q].wqes - 1
        /\ \A j, k \in Blocked(prog[q], ctx[q].wqes) : j # k =>
             Slots(prog[q][j]) \intersect Slots(prog[q][k]) = {}
    BY <2>1, <2>4, <2>5, LaidTiles
  <2> QED
    BY <2>6 DEF Blocked
<1> QED
  BY <1>1, Layout, PTL

LEMMA CountWithin ==
  ASSUME NEW s, NEW ops, NEW more, NEW from, NEW n \in Nat, ops \subseteq more
  PROVE  CountIn(s, ops, from, n) <= CountIn(s, more, from, n)
<1>1. Chosen(s, ops, from, n) \subseteq Chosen(s, more, from, n)
  BY DEF Chosen
<1>2. IsFiniteSet(Chosen(s, more, from, n))
  BY ChosenFinite
<1> QED
  BY <1>1, <1>2, FS_Subset DEF CountIn

(* A list that begins with instructions of the management queue alone.     *)
LEMMA PrefixCounts ==
  ASSUME NEW s, NEW n \in Nat, \A i \in 1 .. n : s[i].op \in CdOps /\ s[i].qp \in Data
  PROVE  WqesOf(s, Mqp, n) = n
<1>1. Chosen(s, CdOps, Data, n) = 1 .. n
  BY DEF Chosen
<1>2. Cardinality(1 .. n) = n
  <2>1. 1 \in Int /\ n \in Int
    OBVIOUS
  <2>2. Cardinality(1 .. n) = IF 1 > n THEN 0 ELSE n - 1 + 1
    BY <2>1, FS_Interval
  <2> QED
    BY <2>2
<1> QED
  BY <1>1, <1>2 DEF WqesOf, CountIn

(* An instruction of the management queue, in a graph that is ready.       *)
LEMMA PlacedWqe ==
  ASSUME IInv, BlockInv, stage = "ready",
         NEW k \in 1 .. Len(prog[Mqp]), NEW w, w = prog[Mqp][k], w.op # "nop"
  PROVE  /\ CdOf(w) /\ w.ins \in 1 .. Len(iq) /\ w.ins - 1 \in Nat
         /\ iq[w.ins].op = w.op /\ iq[w.ins].qp = w.slave
         /\ w.at = WqesOf(iq, Mqp, w.ins - 1)
         /\ w.at \in Nat
<1>1. CdOf(w) /\ drained = Len(iq)
  BY DEF IInv, ProgInv, StageInv
<1>2. w.ins \in 1 .. Len(iq) /\ iq[w.ins] = Ins(w.op, w.slave)
  BY <1>1 DEF CdOf
<1>3. w.at = WqesOf(iq, Mqp, w.ins - 1)
  BY DEF BlockInv, PlaceInv
<1>4. w.ins - 1 \in Nat
  BY <1>2
<1>5. WqesOf(iq, Mqp, w.ins - 1) \in Nat
  BY <1>4, SumsType
<1> QED
  BY <1>1, <1>2, <1>3, <1>4, <1>5 DEF Ins

LEMMA RecvFirst ==
  ASSUME ~ LateQps, IInv, BlockInv
  PROVE  RecvEnablesFirst
<1> SUFFICES ASSUME stage = "ready"
             PROVE  RecvEnablesFirst
  BY DEF RecvEnablesFirst
<1>1. PICK r \in Nat, L \in Nat :
        /\ r = recvEnables /\ rung = r /\ L = Len(iq) /\ drained = L /\ r <= L
        /\ \A i \in 1 .. L : iq[i].op = "recv_enable" <=> i <= r
        /\ \A x : (x \in Registered /\ x # Mqp)
                    <=> \E i \in 1 .. L : iq[i].op = "recv_enable" /\ iq[i].qp = x
  <2>1. PICK L \in Nat : L = Len(iq)
    BY DEF IInv, TypeOK
  <2>2. recvEnables = CountIn(iq, {"recv_enable"}, Data, L)
    BY <2>1 DEF BlockInv, RecvInv
  <2>3. recvEnables \in 0 .. L
    BY <2>2, ChosenFinite
  <2>4. rung = recvEnables /\ drained = L
    BY <2>1 DEF BlockInv, EndInv, IInv, StageInv
  <2>5. /\ \A i \in 1 .. L : iq[i].op = "recv_enable" <=> i <= recvEnables
        /\ \A x : (x \in Registered /\ x # Mqp)
                    <=> \E i \in 1 .. L : iq[i].op = "recv_enable" /\ iq[i].qp = x
    BY <2>1 DEF BlockInv, RecvInv
  <2>6. PICK r \in Nat : r = recvEnables /\ r <= L
    BY <2>3
  <2> QED
    BY <2>1, <2>4, <2>5, <2>6
<1>2. ASSUME NEW n \in 0 .. r
      PROVE  WqesOf(iq, Mqp, n) = n
  <2>1. ASSUME NEW i \in 1 .. n
        PROVE  iq[i].op \in CdOps /\ iq[i].qp \in Data
    <3>1. i \in 1 .. L /\ i <= r
      BY <1>1
    <3>2. iq[i].op = "recv_enable"
      BY <1>1, <3>1
    <3>3. iq[i].qp \in Data
      <4>1. iq \in Seq(AllIns) /\ i \in 1 .. Len(iq)
        BY <1>1, <3>1, AllInsIs DEF IInv, TypeOK
      <4>2. iq[i] \in AllIns
        BY <4>1
      <4> QED
        BY <4>2 DEF AllIns
    <3> QED
      BY <3>2, <3>3 DEF CdOps, EnableOps
  <2>2. n \in Nat
    OBVIOUS
  <2> QED
    BY <2>1, <2>2, PrefixCounts
<1> DEFINE K == {j \in 1 .. Len(prog[Mqp]) : prog[Mqp][j].op # "nop" /\ prog[Mqp][j].at < rung}
           Given == {<<prog[Mqp][k].op, prog[Mqp][k].slave>> : k \in K}
           Wanted == {<<"recv_enable", q>> : q \in Registered \ {Mqp}}
<1>3. ASSUME NEW k \in K
      PROVE  <<prog[Mqp][k].op, prog[Mqp][k].slave>> \in Wanted
  <2>1. PICK w : w = prog[Mqp][k]
    OBVIOUS
  <2>2. k \in 1 .. Len(prog[Mqp]) /\ w.op # "nop" /\ w.at < r
    BY <1>1, <2>1
  <2>3. /\ w.ins \in 1 .. L /\ w.ins - 1 \in Nat
        /\ iq[w.ins].op = w.op /\ iq[w.ins].qp = w.slave
        /\ w.at = WqesOf(iq, Mqp, w.ins - 1) /\ w.at \in Nat
    BY <1>1, <2>1, <2>2, PlacedWqe
  <2>4. w.ins <= r
    <3> SUFFICES ASSUME ~ (w.ins <= r)
                 PROVE  FALSE
      OBVIOUS
    <3>1. r <= w.ins - 1
      BY <2>3
    <3>2. WqesOf(iq, Mqp, r) <= WqesOf(iq, Mqp, w.ins - 1)
      BY <2>3, <3>1, SumsGrow
    <3>3. WqesOf(iq, Mqp, r) = r
      BY <1>2
    <3> QED
      BY <2>2, <2>3, <3>2, <3>3
  <2>5. w.op = "recv_enable" /\ w.slave \in Registered /\ w.slave # Mqp
    BY <1>1, <2>3, <2>4
  <2> QED
    BY <2>1, <2>5
<1>4. ASSUME NEW q \in Registered \ {Mqp}
      PROVE  <<"recv_enable", q>> \in Given
  <2>1. PICK i \in 1 .. L : iq[i].op = "recv_enable" /\ iq[i].qp = q
    BY <1>1
  <2>2. i <= r /\ i - 1 \in 0 .. r /\ iq[i].op \in CdOps
    BY <1>1, <2>1 DEF CdOps, EnableOps
  <2>3. PICK k \in 1 .. Len(prog[Mqp]) : prog[Mqp][k].op # "nop" /\ prog[Mqp][k].ins = i
    BY <1>1, <2>2 DEF BlockInv, PlaceInv
  <2>4. PICK w : w = prog[Mqp][k]
    OBVIOUS
  <2>5. /\ iq[w.ins].op = w.op /\ iq[w.ins].qp = w.slave
        /\ w.at = WqesOf(iq, Mqp, w.ins - 1) /\ w.ins = i
    BY <2>3, <2>4, PlacedWqe
  <2>6. WqesOf(iq, Mqp, i - 1) = i - 1
    BY <1>2, <2>2
  <2>7. w.at < rung
    BY <1>1, <2>2, <2>5, <2>6
  <2>8. k \in K /\ w.op = "recv_enable" /\ w.slave = q
    BY <2>1, <2>3, <2>4, <2>5, <2>7
  <2> QED
    BY <2>4, <2>8
<1>5. Given = Wanted
  BY <1>3, <1>4
<1> QED
  BY <1>5 DEF RecvEnablesFirst

(* What finish() rings is the receive enables of all QPs and nothing that  *)
(* would start the collective, if the author constructs the QPs first.     *)
THEOREM RecvEnablesComeFirst ==
  ASSUME ~ LateQps
  PROVE  Spec => []RecvEnablesFirst
<1>1. IInv /\ BlockInv => RecvEnablesFirst
  BY RecvFirst
<1> QED
  BY <1>1, Layout, PTL

(* The management queue that finish() hands over has the shape RearmRing   *)
(* assumes of it: two blocks or more that fill the ring, the instructions  *)
(* in the first of them, and no more rung than it holds.                   *)
THEOREM RingIsFed ==
  ASSUME GivesTwice
  PROVE  Spec => [](Countable => FeedsRing)
<1>1. IInv /\ BlockInv => (Countable => FeedsRing)
  <2> SUFFICES ASSUME IInv, BlockInv, Countable, stage = "ready"
               PROVE  FeedsRing
    BY DEF FeedsRing
  <2>1. Mqp \in Registered
    BY DEF IInv, MemberInv
  <2>2. /\ ctx[Mqp] \in Ctx /\ CtxOf(Mqp) /\ Mqp \in QPs
        /\ ctx[Mqp].wqes \in Nat \ {0} /\ wqeCount[Mqp] <= ctx[Mqp].wqes
        /\ wqeCount[Mqp] \in Nat /\ ctx[Mqp].slots \in Nat
    BY <2>1, ReadyQueue
  <2>3. PICK n \in Nat \ {0} : n = wqeCount[Mqp] /\ Roomy(n)
    BY <2>1, <2>2, CountableRoomy DEF IInv, CtxOf
  <2>4. /\ ctx[Mqp].slots = Granted(n) /\ ctx[Mqp].wqes = Rounded(n)
        /\ ctx[Mqp].dups = Granted(n) \div Rounded(n) /\ Granted(n) \in Nat
    BY <2>2, <2>3 DEF CtxOf
  <2>5. ctx[Mqp].wqes * ctx[Mqp].dups = ctx[Mqp].slots /\ ctx[Mqp].dups >= 2
    BY <2>3, <2>4, TwoBlocks
  <2>6. PICK L \in Nat : L = Len(iq)
    BY DEF IInv, TypeOK
  <2>7. wqeCount[Mqp] = WqesOf(iq, Mqp, L)
    BY <2>2, <2>6 DEF IInv, CountsInv
  <2>8. rung <= ctx[Mqp].wqes
    <3>1. rung = CountIn(iq, {"recv_enable"}, Data, L)
      BY <2>6 DEF BlockInv, EndInv, RecvInv
    <3>2. CountIn(iq, {"recv_enable"}, Data, L) <= CountIn(iq, CdOps, Data, L)
      BY CountWithin DEF CdOps, EnableOps
    <3>3. CountIn(iq, CdOps, Data, L) = wqeCount[Mqp]
      BY <2>7 DEF WqesOf
    <3>4. rung \in Nat
      BY DEF IInv, TypeOK
    <3> QED
      BY <2>2, <3>1, <3>2, <3>3, <3>4
  <2>9. ASSUME NEW k \in Written(Mqp, WaitOps \union {"send_enable", "recv_enable"})
        PROVE  prog[Mqp][k].at < ctx[Mqp].wqes
    <3>1. PICK w : w = prog[Mqp][k]
      OBVIOUS
    <3>2. k \in 1 .. Len(prog[Mqp]) /\ w.op # "nop"
      BY <3>1 DEF Written, WaitOps
    <3>3. /\ CdOf(w) /\ w.ins \in 1 .. L /\ w.ins - 1 \in Nat
          /\ iq[w.ins].op = w.op /\ iq[w.ins].qp = w.slave
          /\ w.at = WqesOf(iq, Mqp, w.ins - 1) /\ w.at \in Nat
      BY <2>6, <3>1, <3>2, PlacedWqe
    <3>4. PICK m \in Nat : m = w.ins - 1
      BY <3>3
    <3>5. m + 1 = w.ins /\ m + 1 <= L
      BY <3>3, <3>4
    <3>6. iq[m + 1].op \in CdOps /\ iq[m + 1].qp \in Data
      BY <3>3, <3>5 DEF CdOf
    <3>7. WqesOf(iq, Mqp, m + 1) = WqesOf(iq, Mqp, m) + 1
      BY <2>2, <3>6, SumsOfCd
    <3>8. WqesOf(iq, Mqp, m + 1) <= WqesOf(iq, Mqp, L)
      BY <3>5, SumsGrow
    <3> QED
      BY <2>2, <2>7, <3>1, <3>3, <3>4, <3>7, <3>8
  <2> QED
    BY <2>5, <2>8, <2>9 DEF FeedsRing
<1> QED
  BY <1>1, Layout, PTL
=============================================================================
