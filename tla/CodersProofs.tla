---------------------------- MODULE CodersProofs ----------------------------
(***************************************************************************)
(* What RangeInterval, RangeCoder, FenwickTable and RansCoder claim: the   *)
(* range coder for the numbers of the code, bytes of 256 values, so a      *)
(* 32-bit word, and tables of any total up to kBot (kMaxTotal is half of   *)
(* it); the Fenwick tables for every alphabet; the rANS coder for every    *)
(* base, bound, number of lanes, scale and input.                          *)
(***************************************************************************)
EXTENDS RangeCoder, FenwickTable, RansCoder, FiniteSetTheorems, SequenceTheorems,
        WellFoundedInduction, TLAPS

\* The width of the code's numbers.
Bytes == Base = 256

LEMMA Widths ==
  ASSUME Bytes
  PROVE  Bot = 65536 /\ Top = 16777216 /\ Word = 4294967296
BY DEF Bytes, Bot, Top, Word

LEMMA Limits ==
  ASSUME Bytes
  PROVE  MaxTotal \in Nat /\ MaxTotal <= 65536
BY Widths, FenwickAssumption, RangeCoderAssumption

\* The inductive invariant: in addition to the properties, a ready coder has at
\* least kBot to divide.
IInv ==
  /\ IntervalTypeOK
  /\ NeverCarries
  /\ range > 0
  /\ pc = "ready" => range >= Bot

\* A product is monotone.
LEMMA Monotone ==
  ASSUME NEW a \in Nat, NEW b \in Nat, NEW n \in Nat, a <= b
  PROVE  a * n <= b * n /\ a * n \in Nat /\ b * n \in Nat
<1>1. PICK d \in Nat : b = a + d
  <2>1. b - a \in Nat
    OBVIOUS
  <2> QED
    BY <2>1
<1>2. (a + d) * n = a * n + d * n
  OBVIOUS
<1>3. a * n \in Nat /\ d * n \in Nat
  OBVIOUS
<1> QED
  BY <1>1, <1>2, <1>3

\* The shares of all counts of a table fit in the interval they divide.
LEMMA Division ==
  ASSUME NEW n \in Nat, NEW tot \in Nat, tot > 0
  PROVE  n \div tot \in Nat /\ tot * (n \div tot) <= n
OBVIOUS

LEMMA WideEnough ==
  ASSUME NEW n \in Nat, NEW tot \in Nat, tot > 0, n >= tot
  PROVE  n \div tot >= 1
OBVIOUS

LEMMA InitInv == ASSUME Bytes, IntervalInit PROVE IInv
BY Widths DEF IntervalInit, IInv, IntervalTypeOK, NeverCarries

\* An interval that a normalising coder may have.
IsInterval(l, r) ==
  /\ l \in Nat /\ r \in Nat /\ l < 4294967296 /\ r > 0
  /\ l + r <= 4294967296
  /\ l + r = 4294967296 => l >= 4294967296 - 16777216

\* What a symbol gets of a range of r: freq of tot shares, after cum of them.
IsShare(l, r, tot, share, cum, freq) ==
  /\ IsInterval(l, r) /\ r >= 65536 /\ tot \in Nat /\ tot > 0 /\ tot <= 65536
  /\ share = r \div tot /\ cum \in Nat /\ freq \in Nat /\ freq > 0 /\ cum + freq <= tot

\* It is an interval inside the one that it divides.
LEMMA NarrowKeeps ==
  ASSUME NEW l, NEW r, NEW tot, NEW share, NEW cum, NEW freq,
         IsShare(l, r, tot, share, cum, freq)
  PROVE  /\ share \in Nat /\ share > 0
         /\ cum * share \in Nat /\ freq * share \in Nat /\ freq * share > 0
         /\ cum * share + freq * share <= r
         /\ (l + cum * share) % 4294967296 = l + cum * share
         /\ (share * freq) % 4294967296 = freq * share
         /\ IsInterval(l + cum * share, freq * share)
<1> DEFINE sub == cum * share
           width == freq * share
<1>0. /\ l \in Nat /\ r \in Nat /\ l < 4294967296 /\ r > 0
      /\ l + r <= 4294967296
      /\ l + r = 4294967296 => l >= 4294967296 - 16777216
      /\ r >= 65536 /\ tot \in Nat /\ tot > 0 /\ tot <= 65536
      /\ share = r \div tot /\ cum \in Nat /\ freq \in Nat /\ freq > 0
      /\ cum + freq <= tot
  BY DEF IsInterval, IsShare
<1>1. share \in Nat /\ tot * share <= r /\ share >= 1
  BY <1>0, Division, WideEnough
<1>2. /\ sub \in Nat /\ width \in Nat /\ sub + width <= r /\ width >= 1
  <2>1. sub + width = (cum + freq) * share
    BY <1>0, <1>1
  <2>2. (cum + freq) * share <= tot * share
    BY <1>0, <1>1, Monotone
  <2>3. sub \in Nat /\ width \in Nat
    BY <1>0, <1>1, Monotone
  <2>4. share <= freq * share
    <3>1. 1 * share <= freq * share
      BY <1>0, <1>1, Monotone
    <3> QED BY <1>1, <3>1
  <2>5. (cum + freq) * share <= r
    <3>1. (cum + freq) * share \in Nat /\ tot * share \in Nat
      BY <1>0, <1>1, Monotone
    <3> QED BY <1>0, <1>1, <2>2, <3>1
  <2>6. width >= 1
    BY <1>1, <2>3, <2>4
  <2> QED BY <2>1, <2>3, <2>5, <2>6
<1>3. share * freq = width
  <2>1. share \in Nat /\ freq \in Nat
    BY <1>0, <1>1
  <2> QED BY <2>1
<1> HIDE DEF sub, width
<1>4. (l + sub) % 4294967296 = l + sub
  BY <1>0, <1>2
<1>5. width % 4294967296 = width
  BY <1>0, <1>2
<1>6. IsInterval(l + sub, width)
  BY <1>0, <1>2 DEF IsInterval
<1>7. share > 0 /\ width > 0
  BY <1>1, <1>2
<1>8. /\ share \in Nat /\ share > 0 /\ sub \in Nat /\ width \in Nat /\ width > 0
      /\ sub + width <= r /\ (l + sub) % 4294967296 = l + sub
      /\ (share * freq) % 4294967296 = width /\ IsInterval(l + sub, width)
  BY <1>1, <1>2, <1>3, <1>4, <1>5, <1>6, <1>7
<1> QED BY <1>8 DEF sub, width

LEMMA NarrowInv ==
  ASSUME Bytes, IInv, NEW tot \in 1 .. Bot, NEW cum \in 0 .. tot - 1,
         NEW freq \in 1 .. tot - cum, Narrow(cum, freq, tot)
  PROVE  IInv'
<1>1. IsInterval(low, range) /\ range >= 65536
  BY Widths DEF IInv, IntervalTypeOK, NeverCarries, IsInterval, Narrow
<1>2. Bot = 65536
  BY Widths
<1>3. /\ tot \in Nat /\ tot > 0 /\ tot <= 65536
      /\ cum \in Nat /\ freq \in Nat /\ freq > 0 /\ cum + freq <= tot
  <2>1. tot \in Nat /\ tot > 0 /\ tot <= 65536
    BY <1>2
  <2>2. cum \in Nat /\ tot - cum \in Nat
    BY <2>1
  <2> QED BY <2>1, <2>2
<1> DEFINE share == range \div tot
<1>4. /\ low' = (low + cum * share) % 4294967296 /\ range' = (share * freq) % 4294967296
      /\ pc' = "normalize"
  BY Widths DEF Narrow
<1>5. /\ (low + cum * share) % 4294967296 = low + cum * share
      /\ (share * freq) % 4294967296 = freq * share
      /\ IsInterval(low + cum * share, freq * share)
  <2>1. IsShare(low, range, tot, share, cum, freq)
    BY <1>1, <1>3 DEF IsShare
  <2> HIDE DEF share
  <2> QED BY <2>1, NarrowKeeps
<1> HIDE DEF share
<1>6. PICK x, y \in Nat : low' = x /\ range' = y /\ IsInterval(x, y)
  BY <1>4, <1>5 DEF IsInterval
<1>7. /\ x < 4294967296 /\ y > 0 /\ x + y <= 4294967296
      /\ x + y = 4294967296 => x >= 4294967296 - 16777216
  BY <1>6 DEF IsInterval
<1> QED BY <1>4, <1>6, <1>7, Widths DEF IInv, IntervalTypeOK, NeverCarries

\* What normalize() keeps of an interval of that width before it shifts it.
Kept(l, r) ==
  IF l \div 16777216 = ((l + r) % 4294967296) \div 16777216
  THEN r ELSE (4294967296 - l) % 65536

\* A settled byte is the top byte of the whole interval; an interval that is not settled
\* is cut where the byte ends. Either way all of what is kept has the same top byte, and
\* the shift loses nothing else.
LEMMA ShiftKeeps ==
  ASSUME NEW l, NEW r, IsInterval(l, r),
         l \div 16777216 # ((l + r) % 4294967296) \div 16777216 => r < 65536
  PROVE  LET d == l \div 16777216
             w == Kept(l, r)
         IN  /\ d \in 0 .. 255 /\ w \in Nat /\ w > 0 /\ w <= r
             /\ l - 16777216 * d \in Nat
             /\ l - 16777216 * d + w <= 16777216
             /\ (l * 256) % 4294967296 = (l - 16777216 * d) * 256
             /\ (w * 256) % 4294967296 = w * 256
             /\ l - 16777216 * d + w = 16777216 =>
                  (l - 16777216 * d) * 256 >= 4294967296 - 16777216
<1> DEFINE d == l \div 16777216
           rest == 16777216 * (d + 1) - l
<1>0. /\ l \in Nat /\ r \in Nat /\ l < 4294967296 /\ r > 0 /\ l + r <= 4294967296
      /\ l + r = 4294967296 => l >= 4294967296 - 16777216
  BY DEF IsInterval
<1>1. d \in 0 .. 255 /\ 16777216 * d <= l /\ l < 16777216 * (d + 1)
  BY <1>0
<1>2. CASE d = ((l + r) % 4294967296) \div 16777216
  <2>1. Kept(l, r) = r
    BY <1>2 DEF Kept
  <2>2. l + r < 4294967296
    BY <1>0, <1>2
  <2>3. l + r < 16777216 * (d + 1)
    BY <1>0, <1>2, <2>2
  <2>4. (l * 256) % 4294967296 = (l - 16777216 * d) * 256
    BY <1>0, <1>1
  <2>5. (r * 256) % 4294967296 = r * 256
    BY <1>0, <1>1, <2>3
  <2> HIDE DEF d
  <2> QED BY <1>0, <1>1, <2>1, <2>3, <2>4, <2>5 DEF d
<1>3. CASE d # ((l + r) % 4294967296) \div 16777216
  <2>1. Kept(l, r) = (4294967296 - l) % 65536 /\ r < 65536
    BY <1>3 DEF Kept
\* The interval reaches the next multiple of kTop, so that is where it is cut.
  <2>2. rest \in Nat /\ rest > 0 /\ rest <= r
    <3>1. CASE l + r = 4294967296
      BY <1>0, <1>1, <3>1
    <3>2. CASE l + r < 4294967296
      BY <1>0, <1>1, <1>3, <3>2
    <3> QED BY <1>0, <3>1, <3>2
  <2>3. (4294967296 - l) % 65536 = rest
    BY <1>0, <1>1, <2>1, <2>2
  <2>4. (l * 256) % 4294967296 = (l - 16777216 * d) * 256
    BY <1>0, <1>1
  <2>5. (rest * 256) % 4294967296 = rest * 256
    BY <1>0, <1>1, <2>1, <2>2
  <2> HIDE DEF d
  <2> QED BY <1>0, <1>1, <2>1, <2>2, <2>3, <2>4, <2>5 DEF d
<1> QED BY <1>2, <1>3

LEMMA ShiftInv == ASSUME Bytes, IInv, Shift PROVE IInv'
<1> DEFINE w == Kept(low, range)
           d == low \div 16777216
<1>1. IsInterval(low, range)
  BY Widths DEF IInv, IntervalTypeOK, NeverCarries, IsInterval
<1>2. /\ pc = "normalize" /\ pc' = pc
      /\ d # ((low + range) % 4294967296) \div 16777216 => range < 65536
      /\ low' = (low * 256) % 4294967296 /\ range' = (w * 256) % 4294967296
  BY Widths DEF Bytes, Shift, ShiftSettled, ShiftForced, Settled, ShiftWith, Kept
<1>3. /\ d \in 0 .. 255 /\ w \in Nat /\ w > 0 /\ w <= range
      /\ low - 16777216 * d \in Nat
      /\ low - 16777216 * d + w <= 16777216
      /\ (low * 256) % 4294967296 = (low - 16777216 * d) * 256
      /\ (w * 256) % 4294967296 = w * 256
      /\ low - 16777216 * d + w = 16777216 =>
           (low - 16777216 * d) * 256 >= 4294967296 - 16777216
  BY <1>1, <1>2, ShiftKeeps
<1> HIDE DEF d, w
<1>4. PICK x \in Nat : x = low - 16777216 * d
  BY <1>3
<1>5. low' = x * 256 /\ range' = w * 256 /\ x + w <= 16777216
      /\ (x + w = 16777216 => x * 256 >= 4294967296 - 16777216)
  BY <1>2, <1>3, <1>4
<1> QED BY <1>2, <1>3, <1>5, Widths DEF IInv, IntervalTypeOK, NeverCarries

LEMMA NormalizedInv == ASSUME Bytes, IInv, Normalized PROVE IInv'
BY Widths DEF IInv, IntervalTypeOK, NeverCarries, Normalized

\* Every reachable interval satisfies the inductive invariant.
THEOREM Invariance == ASSUME Bytes PROVE IntervalSpec => []IInv
<1>1. IntervalInit => IInv
  BY InitInv
<1>2. IInv /\ [IntervalNext]_intervalVars => IInv'
  <2> SUFFICES ASSUME IInv, [IntervalNext]_intervalVars PROVE IInv'
    OBVIOUS
  <2>1. CASE NarrowAny
    BY <2>1, NarrowInv DEF NarrowAny
  <2>2. CASE Shift
    BY <2>2, ShiftInv
  <2>4. CASE Normalized
    BY <2>4, NormalizedInv
  <2>5. CASE UNCHANGED intervalVars
    BY <2>5, Widths DEF intervalVars, IInv, IntervalTypeOK, NeverCarries
  <2> QED
    BY <2>1, <2>2, <2>4, <2>5 DEF IntervalNext
<1> QED
  BY <1>1, <1>2, PTL DEF IntervalSpec

\* low_ and range_ stay 32-bit numbers: no product or sum is cut off in a way
\* the code does not intend.
THEOREM TypeCorrect == ASSUME Bytes PROVE IntervalSpec => []IntervalTypeOK
<1>1. IInv => IntervalTypeOK
  BY DEF IInv
<1> QED
  BY <1>1, Invariance, PTL

\* No symbol of any table makes low_ carry into a byte that has been emitted.
THEOREM CarryFree == ASSUME Bytes PROVE IntervalSpec => []NeverCarries
<1>1. IInv => NeverCarries
  BY DEF IInv
<1> QED
  BY <1>1, Invariance, PTL

\* range_ is never 0 when normalize() looks at it, and divided by the total of
\* any table it leaves at least 1.
THEOREM Divisible == ASSUME Bytes PROVE IntervalSpec => []AlwaysDivisible
<1>1. IInv => AlwaysDivisible
  <2> SUFFICES ASSUME IInv PROVE AlwaysDivisible
    OBVIOUS
  <2>1. range \in Nat /\ Bot = 65536 /\ (pc = "ready" => range >= 65536)
    BY Widths DEF IInv, IntervalTypeOK
  <2>2. pc = "ready" => range \div Bot > 0
    BY <2>1
  <2> QED
    BY <2>2 DEF IInv, AlwaysDivisible
<1> QED
  BY <1>1, Invariance, PTL
-----------------------------------------------------------------------------
(***************************************************************************)
(* The adaptive tables, for any number of symbols and any limit. A node of *)
(* the tree has the number that is a multiple of its lowest set bit, so    *)
(* the first lemmas are about divisors and powers of two. The sums P of    *)
(* the counts are what the functions of a table are then described by.     *)
(***************************************************************************)

\* d divides n.
Divides(d, n) == \E k \in Nat : n = d * k

LEMMA DividesMod ==
  ASSUME NEW d \in Nat, d > 0, NEW n \in Nat
  PROVE  n % d = 0 <=> Divides(d, n)
<1>1. ASSUME n % d = 0 PROVE Divides(d, n)
  <2>1. n \div d \in Nat /\ n = d * (n \div d)
    BY <1>1
  <2> QED BY <2>1 DEF Divides
<1>2. ASSUME NEW k \in Nat, n = d * k PROVE n % d = 0
  BY <1>2
<1> QED BY <1>1, <1>2 DEF Divides

LEMMA DividesSum ==
  ASSUME NEW d \in Nat, NEW a \in Nat, NEW b \in Nat, Divides(d, a), Divides(d, b)
  PROVE  /\ Divides(d, a + b)
         /\ b <= a => Divides(d, a - b)
<1>1. PICK k \in Nat : a = d * k
  BY DEF Divides
<1>2. PICK m \in Nat : b = d * m
  BY DEF Divides
<1>3. a + b = d * (k + m) /\ k + m \in Nat
  BY <1>1, <1>2
<1>4. ASSUME b <= a PROVE Divides(d, a - b)
  <2>2. CASE m <= k
    <3>1. a - b = d * (k - m) /\ k - m \in Nat
      BY <1>1, <1>2, <2>2
    <3> QED BY <3>1 DEF Divides
  <2>3. CASE k < m
    <3>1. b = a + d * (m - k) /\ d * (m - k) \in Nat
      BY <1>1, <1>2, <2>3
    <3>2. a - b = d * 0
      BY <1>4, <3>1
    <3> QED BY <3>2 DEF Divides
  <2> QED BY <2>2, <2>3
<1> QED BY <1>3, <1>4 DEF Divides

LEMMA DividesTrans ==
  ASSUME NEW d \in Nat, NEW e \in Nat, NEW n \in Nat, Divides(d, e), Divides(e, n)
  PROVE  Divides(d, n)
<1>1. PICK k \in Nat : e = d * k
  BY DEF Divides
<1>2. PICK m \in Nat : n = e * m
  BY DEF Divides
<1>3. n = d * (k * m) /\ k * m \in Nat
  BY <1>1, <1>2
<1> QED BY <1>3 DEF Divides

\* Multiples of d are d apart.
LEMMA DividesApart ==
  ASSUME NEW d \in Nat, NEW a \in Nat, NEW b \in Nat, Divides(d, a), Divides(d, b), a < b
  PROVE  a + d <= b
<1>1. PICK k \in Nat : b - a = d * k
  <2>1. Divides(d, b - a)
    BY DividesSum
  <2> QED BY <2>1 DEF Divides
<1>2. k # 0
  BY <1>1
<1>3. PICK m \in Nat : k = m + 1
  <2>1. k - 1 \in Nat /\ k = (k - 1) + 1
    BY <1>2
  <2> QED BY <2>1
<1>4. d * k = d * m + d /\ d * m \in Nat
  BY <1>3
<1> QED BY <1>1, <1>4

LEMMA DividesSelf ==
  ASSUME NEW d \in Nat
  PROVE  /\ Divides(d, d) /\ Divides(d, 2 * d) /\ Divides(1, d) /\ Divides(d, 0)
<1>1. d = d * 1 /\ 2 * d = d * 2 /\ d = 1 * d /\ 0 = d * 0
  OBVIOUS
<1> QED BY <1>1 DEF Divides

\* An odd multiple of d lies in the middle of two even ones.
LEMMA DividesOdd ==
  ASSUME NEW d \in Nat, d > 0, NEW n \in Nat, Divides(d, n), ~ Divides(2 * d, n)
  PROVE  /\ n >= d /\ n - d \in Nat
         /\ Divides(2 * d, n - d) /\ Divides(2 * d, n + d)
<1>1. PICK k \in Nat : n = d * k
  BY DEF Divides
<1>2. k % 2 = 1
  <2> SUFFICES ASSUME k % 2 # 1 PROVE FALSE
    OBVIOUS
  <2>1. PICK m \in Nat : m = k \div 2 /\ k = 2 * m
    <3>1. k \div 2 \in Nat /\ k = 2 * (k \div 2)
      OBVIOUS
    <3> QED BY <3>1
  <2>2. n = (2 * d) * m
    BY <1>1, <2>1
  <2> QED BY <2>2 DEF Divides
<1>3. PICK m \in Nat : k = 2 * m + 1
  <2>1. k \div 2 \in Nat /\ k = 2 * (k \div 2) + 1
    BY <1>2
  <2> QED BY <2>1
<1>4. n = (2 * d) * m + d /\ (2 * d) * m \in Nat
  BY <1>1, <1>3
<1>5. n - d = (2 * d) * m /\ n + d = (2 * d) * (m + 1)
  BY <1>4
<1>6. n + d = (2 * d) * (m + 1) /\ m + 1 \in Nat
  BY <1>5
<1>7. Divides(2 * d, n - d) /\ Divides(2 * d, n + d)
  BY <1>5, <1>6 DEF Divides
<1>8. n >= d /\ n - d \in Nat
  BY <1>4
<1> QED BY <1>7, <1>8

LEMMA DividesBounds ==
  ASSUME NEW d \in Nat, NEW n \in Nat, n > 0, Divides(d, n)
  PROVE  d > 0 /\ d <= n
<1>1. PICK k \in Nat : n = d * k
  BY Zenon DEF Divides
<1>2. PICK m \in Nat : k = m + 1
  <2>1. k # 0
    BY <1>1
  <2>2. k - 1 \in Nat /\ k = (k - 1) + 1
    BY <2>1
  <2> QED BY <2>2
<1>3. n = d * m + d /\ d * m \in Nat
  BY <1>1, <1>2
<1>4. d # 0
  BY <1>1
<1> QED BY <1>3, <1>4

\* A power of two: all its divisors but 1 are even.
IsPower(p) ==
  p \in Nat /\ p > 0 /\ \A d \in Nat : d > 1 /\ Divides(d, p) => Divides(2, d)

LEMMA PowersAre == Powers = {p \in Nodes : IsPower(p)}
<1> SUFFICES ASSUME NEW p \in Nodes
             PROVE  (\A d \in 2 .. p : p % d = 0 => d % 2 = 0) <=> IsPower(p)
  BY Zenon DEF Powers
<1>1. p \in Nat /\ p > 0
  BY FenwickAssumption DEF Nodes
<1>2. ASSUME \A d \in 2 .. p : p % d = 0 => d % 2 = 0, NEW d \in Nat, d > 1, Divides(d, p)
      PROVE  Divides(2, d)
  <2>1. d \in 2 .. p
    BY <1>1, <1>2, DividesBounds
  <2>2. p % d = 0
    BY <1>1, <1>2, DividesMod
  <2>3. d % 2 = 0
    BY <1>2, <2>1, <2>2
  <2> QED BY <2>3, DividesMod
<1>3. ASSUME IsPower(p), NEW d \in 2 .. p, p % d = 0 PROVE d % 2 = 0
  <2>1. d \in Nat /\ d > 1
    BY <1>1
  <2>2. Divides(d, p)
    BY <1>1, <1>3, <2>1, DividesMod
  <2>3. Divides(2, d)
    BY <1>3, <2>1, <2>2 DEF IsPower
  <2> QED BY <2>1, <2>3, DividesMod
<1> QED BY <1>1, <1>2, <1>3 DEF IsPower

LEMMA PowerOne == IsPower(1)
<1> SUFFICES ASSUME NEW d \in Nat, d > 1, Divides(d, 1) PROVE FALSE
  BY DEF IsPower
<1> QED BY DividesBounds

LEMMA PowerHalf ==
  ASSUME NEW p, IsPower(p), p # 1
  PROVE  \E h \in Nat : p = 2 * h /\ IsPower(h)
<1>1. p \in Nat /\ p > 1
  BY DEF IsPower
<1>2. Divides(2, p)
  BY <1>1, DividesSelf DEF IsPower
<1>3. PICK h \in Nat : p = 2 * h
  BY <1>2, Zenon DEF Divides
<1>4. Divides(h, p)
  BY <1>3, DividesSelf
<1>5. ASSUME NEW d \in Nat, d > 1, Divides(d, h) PROVE Divides(2, d)
  <2>1. Divides(d, p)
    BY <1>1, <1>4, <1>5, DividesTrans
  <2> QED BY <1>5, <2>1 DEF IsPower
<1>6. h > 0
  BY <1>1, <1>3
<1> QED BY <1>3, <1>5, <1>6 DEF IsPower

LEMMA PowerDouble ==
  ASSUME NEW p, IsPower(p)
  PROVE  IsPower(2 * p)
<1>1. p \in Nat /\ p > 0 /\ 2 * p \in Nat /\ 2 * p > 0
  BY DEF IsPower
<1> SUFFICES ASSUME NEW d \in Nat, d > 1, Divides(d, 2 * p) PROVE Divides(2, d)
  BY <1>1 DEF IsPower
<1>2. PICK k \in Nat : 2 * p = d * k
  BY Zenon DEF Divides
<1>3. CASE k % 2 = 0
  <2>1. PICK m \in Nat : k = 2 * m
    <3>1. k \div 2 \in Nat /\ k = 2 * (k \div 2)
      BY <1>3
    <3> QED BY <3>1
  <2>2. 2 * p = 2 * (d * m) /\ d * m \in Nat
    BY <1>2, <2>1
  <2>3. p = d * m
    BY <1>1, <2>2
  <2>4. Divides(d, p)
    BY <2>3 DEF Divides
  <2> QED BY <2>4 DEF IsPower
\* An odd k leaves the factor 2 to d.
<1>4. CASE k % 2 # 0
  <2>1. PICK m \in Nat : k = 2 * m + 1
    <3>1. k \div 2 \in Nat /\ k = 2 * (k \div 2) + 1
      BY <1>4
    <3> QED BY <3>1
  <2>2. 2 * p = 2 * (d * m) + d /\ d * m \in Nat
    BY <1>2, <2>1
  <2>3. d = 2 * (p - d * m) /\ p - d * m \in Nat
    BY <1>1, <2>2
  <2> QED BY <2>3, Zenon DEF Divides
<1> QED BY <1>3, <1>4

\* Of two powers, twice the smaller divides the larger.
LEMMA PowerChain ==
  ASSUME NEW p, NEW q, IsPower(p), IsPower(q), p < q
  PROVE  Divides(2 * p, q)
<1> DEFINE Bad(a) == \E b \in Nat : IsPower(a) /\ IsPower(b) /\ a < b /\ ~ Divides(2 * a, b)
           N == {a \in Nat : Bad(a)}
<1>1. ASSUME N # {} PROVE FALSE
  <2>1. PICK a \in N : \A c \in N : ~ (c < a)
    <3>1. N \subseteq Nat
      OBVIOUS
    <3> HIDE DEF N
    <3>2. PICK a \in N : \A c \in N : <<c, a>> \notin OpToRel(<, Nat)
      BY <1>1, <3>1, NatLessThanWellFounded, WFMin, Zenon
    <3> QED BY <3>1, <3>2 DEF OpToRel
  <2>2. PICK b \in Nat : IsPower(a) /\ IsPower(b) /\ a < b /\ ~ Divides(2 * a, b)
    BY <2>1
  <2>3. a \in Nat /\ a > 0 /\ b # 1
    BY <2>2 DEF IsPower
  <2>4. PICK y \in Nat : b = 2 * y /\ IsPower(y)
    BY <2>2, <2>3, PowerHalf
  <2>5. a # 1
    <3>1. Divides(2, b)
      BY <2>4 DEF Divides
    <3> QED BY <2>2, <3>1
  <2>6. PICK x \in Nat : a = 2 * x /\ IsPower(x)
    BY <2>2, <2>5, PowerHalf
  <2>7. x < a /\ x < y
    BY <2>2, <2>3, <2>4, <2>6
  <2>8. Divides(2 * x, y)
    <3>1. x \notin N
      BY <2>1, <2>7
    <3>2. ~ Bad(x)
      BY <3>1
    <3> QED BY <2>4, <2>6, <2>7, <3>2
  <2>9. PICK k \in Nat : y = (2 * x) * k
    BY <2>8, Zenon DEF Divides
  <2>10. b = (2 * a) * k
    BY <2>4, <2>6, <2>9
  <2> QED BY <2>2, <2>10 DEF Divides
<1>2. p \in Nat /\ q \in Nat /\ p \notin N
  <2>1. N = {}
    BY <1>1
  <2> QED BY <2>1 DEF IsPower
<1> QED BY <1>2

LEMMA Least ==
  ASSUME NEW S, S \subseteq Nat, S # {}
  PROVE  \E m \in S : \A k \in S : m <= k
<1>1. PICK m \in S : \A k \in S : <<k, m>> \notin OpToRel(<, Nat)
  BY NatLessThanWellFounded, WFMin, Zenon
<1>2. ASSUME NEW k \in S PROVE m <= k
  <2>1. k \in Nat /\ m \in Nat
    OBVIOUS
  <2>2. ~ (k < m)
    BY <1>1, <2>1 DEF OpToRel
  <2> QED BY <2>1, <2>2
<1> QED BY <1>2

LEMMA Numbers == NumSymbols \in Nat /\ NumSymbols > 0 /\ Nodes \subseteq Nat
BY FenwickAssumption DEF Nodes

LEMMA PowerFacts ==
  ASSUME NEW p
  PROVE  p \in Powers <=> IsPower(p) /\ p <= NumSymbols
<1>1. IsPower(p) => p \in Nat /\ p > 0
  BY DEF IsPower
<1> QED BY <1>1, PowersAre, Numbers DEF Nodes

\* p is the lowest set bit of i.
IsLowBit(p, i) == IsPower(p) /\ Divides(p, i) /\ ~ Divides(2 * p, i)

LEMMA LowBitExists ==
  ASSUME NEW i \in Nodes
  PROVE  \E p \in Powers : IsLowBit(p, i)
<1>1. i \in Nat /\ i > 0 /\ i <= NumSymbols /\ NumSymbols \in Nat
  BY Numbers DEF Nodes
<1> DEFINE Good(p) == IsPower(p) /\ Divides(p, i)
           S == {n \in Nat : \E p \in Nat : n = i - p /\ p <= i /\ Good(p)}
<1>2. i - 1 \in S
  <2>1. Good(1)
    BY <1>1, PowerOne, DividesSelf
  <2> HIDE DEF Good
  <2> QED BY <1>1, <2>1
<1>3. PICK n \in S : \A k \in S : n <= k
  <2>1. S \subseteq Nat /\ S # {}
    BY <1>2
  <2> HIDE DEF S
  <2> QED BY <2>1, Least
<1>4. PICK p \in Nat : n = i - p /\ p <= i /\ Good(p)
  BY <1>3
<1>5. p > 0
  BY <1>4 DEF IsPower
<1>6. ~ Divides(2 * p, i)
  <2> SUFFICES ASSUME Divides(2 * p, i) PROVE FALSE
    OBVIOUS
  <2>1. 2 * p <= i /\ 2 * p \in Nat
    BY <1>1, <1>4, DividesBounds
  <2>2. Good(2 * p)
    BY <1>4, PowerDouble
  <2>3. i - 2 * p \in Nat /\ i - 2 * p < n
    BY <1>1, <1>4, <1>5, <2>1
  <2>4. i - 2 * p \in S
    <3> HIDE DEF Good
    <3> QED BY <2>1, <2>2, <2>3
  <2>5. n <= i - 2 * p
    BY <1>3, <2>4
  <2>6. n \in Nat
    BY <1>3
  <2> QED BY <2>3, <2>5, <2>6
<1>7. p \in Powers
  BY <1>1, <1>4, PowerFacts
<1> QED BY <1>4, <1>6, <1>7 DEF IsLowBit

LEMMA LowBitUnique ==
  ASSUME NEW i \in Nat, NEW p, NEW q, IsLowBit(p, i), IsLowBit(q, i)
  PROVE  p = q
<1>1. p \in Nat /\ q \in Nat
  BY DEF IsLowBit, IsPower
<1>2. ASSUME NEW x \in Nat, NEW y \in Nat, IsLowBit(x, i), IsLowBit(y, i), x < y PROVE FALSE
  <2>1. Divides(2 * x, y)
    BY <1>2, PowerChain DEF IsLowBit
  <2>2. 2 * x \in Nat
    BY <1>2
  <2>3. Divides(2 * x, i)
    BY <1>2, <2>1, <2>2, DividesTrans DEF IsLowBit
  <2> QED BY <1>2, <2>3 DEF IsLowBit
<1>3. ~ (p < q) /\ ~ (q < p)
  BY <1>1, <1>2
<1> QED BY <1>1, <1>3

LEMMA LowBitIs ==
  ASSUME NEW i \in Nodes
  PROVE  /\ LowBit(i) \in Powers
         /\ \A p : IsLowBit(p, i) <=> p = LowBit(i)
<1>1. ASSUME NEW p \in Powers PROVE (i % p = 0 /\ i % (2 * p) # 0) <=> IsLowBit(p, i)
  <2>1. IsPower(p) /\ p \in Nat /\ p > 0 /\ 2 * p \in Nat /\ 2 * p > 0 /\ i \in Nat
    BY <1>1, PowerFacts, Numbers DEF IsPower
  <2> QED BY <2>1, DividesMod DEF IsLowBit
<1>2. \E p \in Powers : i % p = 0 /\ i % (2 * p) # 0
  BY <1>1, LowBitExists
<1>3. LowBit(i) \in Powers /\ i % LowBit(i) = 0 /\ i % (2 * LowBit(i)) # 0
  BY <1>2, Zenon DEF LowBit
<1>4. IsLowBit(LowBit(i), i)
  BY <1>1, <1>3
<1>5. i \in Nat
  BY Numbers
<1> QED BY <1>3, <1>4, <1>5, LowBitUnique

\* A node covers the symbols after the node it goes down to.
LEMMA LowBitSteps ==
  ASSUME NEW i \in Nodes
  PROVE  LET p == LowBit(i)
         IN  /\ IsPower(p) /\ p \in Nat /\ p > 0 /\ p <= i /\ i \in Nat /\ i > 0
             /\ i <= NumSymbols
             /\ Divides(p, i) /\ ~ Divides(2 * p, i)
             /\ Divides(2 * p, i - p) /\ Divides(2 * p, i + p)
             /\ i - p \in 0 .. i - 1 /\ i - p \in 0 .. NumSymbols
             /\ i + p \in 1 .. 2 * NumSymbols /\ i + p > i
<1> DEFINE p == LowBit(i)
<1>1. i \in Nat /\ i > 0 /\ i <= NumSymbols /\ NumSymbols \in Nat
  BY Numbers DEF Nodes
<1>2. IsPower(p) /\ Divides(p, i) /\ ~ Divides(2 * p, i)
  BY LowBitIs DEF IsLowBit
<1>3. p \in Nat /\ p > 0
  BY <1>2 DEF IsPower
<1>4. i >= p /\ Divides(2 * p, i - p) /\ Divides(2 * p, i + p)
  BY <1>1, <1>2, <1>3, DividesOdd
<1> HIDE DEF p
<1>5. i - p \in 0 .. i - 1 /\ i - p \in 0 .. NumSymbols /\ i + p \in 1 .. 2 * NumSymbols /\ i + p > i
  BY <1>1, <1>3, <1>4
<1>6. /\ IsPower(p) /\ p \in Nat /\ p > 0 /\ p <= i /\ i \in Nat /\ i > 0 /\ i <= NumSymbols
      /\ Divides(p, i) /\ ~ Divides(2 * p, i) /\ Divides(2 * p, i - p) /\ Divides(2 * p, i + p)
  BY <1>1, <1>2, <1>3, <1>4
<1> QED BY <1>5, <1>6 DEF p

\* The sums of counts up to each symbol, and the table that they make.
IsSums(P) == P \in [0 .. NumSymbols -> Nat] /\ P[0] = 0

TreeOf(P) == [i \in Nodes |-> P[i] - P[i - LowBit(i)]]
TableOf(P) == [tree |-> TreeOf(P), total |-> P[NumSymbols]]

LEMMA CumFreqIs ==
  ASSUME NEW P, IsSums(P), NEW s \in 0 .. NumSymbols
  PROVE  CumFreq(TableOf(P), s) = P[s]
<1> DEFINE tree == TreeOf(P)
           Eq(f) == f = [i \in 0 .. NumSymbols |->
                          IF i = 0 THEN 0 ELSE TableOf(P).tree[i] + f[i - LowBit(i)]]
           sum == CHOOSE f : Eq(f)
<1>1. CumFreq(TableOf(P), s) = sum[s]
  BY Zenon DEF CumFreq
<1>2. NumSymbols \in Nat /\ P \in [0 .. NumSymbols -> Nat] /\ P[0] = 0
  BY Numbers DEF IsSums
<1>3. ASSUME NEW i \in 0 .. NumSymbols, i # 0
      PROVE  /\ i \in Nodes /\ i - LowBit(i) \in 0 .. NumSymbols /\ i - LowBit(i) < i
             /\ TableOf(P).tree[i] = P[i] - P[i - LowBit(i)]
  <2>1. i \in Nodes
    BY <1>2, <1>3 DEF Nodes
  <2>2. i - LowBit(i) \in 0 .. NumSymbols /\ i - LowBit(i) < i
    BY <1>2, <2>1, LowBitSteps
  <2> QED BY <2>1, <2>2 DEF TableOf, TreeOf
<1>4. Eq(P)
  <2> SUFFICES ASSUME NEW i \in 0 .. NumSymbols
               PROVE  P[i] = IF i = 0 THEN 0 ELSE TableOf(P).tree[i] + P[i - LowBit(i)]
    BY <1>2
  <2>1. CASE i = 0
    BY <1>2, <2>1
  <2>2. CASE i # 0
    BY <1>2, <1>3, <2>2
  <2> QED BY <2>1, <2>2
<1>5. Eq(sum)
  BY <1>4, Zenon
<1> HIDE DEF sum
<1>6. ASSUME NEW i \in 0 .. NumSymbols
      PROVE  sum[i] = IF i = 0 THEN 0 ELSE TableOf(P).tree[i] + sum[i - LowBit(i)]
  BY <1>5
<1> DEFINE S == {i \in 0 .. NumSymbols : sum[i] # P[i]}
<1>7. ASSUME S # {} PROVE FALSE
  <2>1. PICK i \in S : \A k \in S : i <= k
    <3>1. S \subseteq Nat
      OBVIOUS
    <3> HIDE DEF S
    <3> QED BY <1>7, <3>1, Least
  <2>2. i # 0
    BY <1>2, <1>6, <2>1
  <2> DEFINE k == i - LowBit(i)
  <2>3. k \in 0 .. NumSymbols /\ k < i /\ TableOf(P).tree[i] = P[i] - P[k]
    BY <1>3, <2>1, <2>2
  <2>4. sum[k] = P[k]
    <3>1. k \notin S
      <4> HIDE DEF k
      <4> QED BY <2>1, <2>3
    <3> QED BY <2>3, <3>1
  <2>5. sum[i] = (P[i] - P[k]) + P[k]
    BY <1>6, <2>1, <2>2, <2>3, <2>4
  <2>6. P[i] \in Nat /\ P[k] \in Nat
    BY <1>2, <2>1, <2>3
  <2> QED BY <2>1, <2>5, <2>6
<1> QED BY <1>1, <1>7

LEMMA FreqOfIs ==
  ASSUME NEW P, IsSums(P), NEW s \in Symbols
  PROVE  /\ s \in 0 .. NumSymbols /\ s + 1 \in 0 .. NumSymbols
         /\ FreqOf(TableOf(P), s) = P[s + 1] - P[s]
<1>1. s \in 0 .. NumSymbols /\ s + 1 \in 0 .. NumSymbols
  BY Numbers DEF Symbols
<1> QED BY <1>1, CumFreqIs DEF FreqOf

\* The nodes that add() changes are those that cover the symbol.
Covers(i) == {j \in Nodes : j - LowBit(j) < i /\ i <= j}

LEMMA CoversStep ==
  ASSUME NEW i \in Nodes, NEW j \in Nodes, i # j
  PROVE  j - LowBit(j) < i /\ i <= j
         <=> j - LowBit(j) < i + LowBit(i) /\ i + LowBit(i) <= j
<1> DEFINE p == LowBit(i)
           q == LowBit(j)
<1>1. /\ IsPower(p) /\ p \in Nat /\ p > 0 /\ p <= i /\ i \in Nat /\ i > 0
      /\ Divides(p, i) /\ ~ Divides(2 * p, i) /\ Divides(2 * p, i - p)
      /\ Divides(2 * p, i + p)
  BY LowBitSteps
<1>2. /\ IsPower(q) /\ q \in Nat /\ q > 0 /\ q <= j /\ j \in Nat /\ j > 0
      /\ Divides(q, j) /\ ~ Divides(2 * q, j) /\ Divides(2 * q, j - q)
      /\ Divides(2 * q, j + q)
  BY LowBitSteps
<1> HIDE DEF p, q
<1>3. 2 * p \in Nat /\ 2 * q \in Nat /\ j - q \in Nat /\ i + p \in Nat
  BY <1>1, <1>2
<1>4. Divides(p, 2 * p) /\ Divides(q, 2 * q)
  BY <1>1, <1>2, DividesSelf
<1>5. Divides(q, j - q) /\ Divides(p, i + p)
  BY <1>1, <1>2, <1>3, <1>4, DividesTrans, Zenon
<1>6. p < q => Divides(2 * p, q) /\ Divides(2 * p, j) /\ Divides(2 * p, j - q)
  BY <1>1, <1>2, <1>3, <1>5, PowerChain, DividesTrans, Zenon
<1>7. q < p => Divides(2 * q, p) /\ Divides(2 * q, i) /\ Divides(2 * q, i + p)
  BY <1>1, <1>2, <1>3, <1>5, PowerChain, DividesTrans, Zenon
<1>8. ASSUME j - q < i, i <= j PROVE j - q < i + p /\ i + p <= j
  <2>1. i < j
    BY <1>1, <1>2, <1>8
  <2>2. p < q
    <3> SUFFICES ASSUME q <= p PROVE FALSE
      BY <1>1, <1>2
    <3>1. Divides(q, i)
      <4>1. CASE q = p
        BY <1>1, <4>1
      <4>2. CASE q < p
        BY <1>1, <1>2, <1>3, <1>4, <1>7, <4>2, DividesTrans, Zenon
      <4> QED BY <1>1, <1>2, <4>1, <4>2
    <3>2. (j - q) + q <= i
      BY <1>1, <1>2, <1>3, <1>5, <1>8, <3>1, DividesApart
    <3> QED BY <1>1, <1>2, <2>1, <3>2
  <2>3. Divides(p, j)
    BY <1>1, <1>2, <1>3, <1>4, <1>6, <2>2, DividesTrans, Zenon
  <2>4. i + p <= j
    BY <1>1, <1>2, <2>1, <2>3, DividesApart
  <2> QED BY <1>1, <1>2, <1>8, <2>4
<1>9. ASSUME j - q < i + p, i + p <= j PROVE j - q < i /\ i <= j
  <2>1. ASSUME i <= j - q PROVE FALSE
    <3>1. CASE p < q
      <4>1. Divides(p, j - q)
        BY <1>1, <1>2, <1>3, <1>4, <1>6, <3>1, DividesTrans, Zenon
      <4>2. ~ (i < j - q)
        <5>1. i < j - q => i + p <= j - q
          BY <1>1, <1>3, <4>1, DividesApart
        <5> QED BY <1>1, <1>3, <1>9, <5>1
      <4>3. i = j - q
        BY <1>1, <1>3, <2>1, <4>2
      <4> QED BY <1>1, <1>6, <3>1, <4>3
    <3>2. CASE p = q
      <4>1. ~ (i < j - q)
        <5>1. i < j - q => i + p <= j - q
          BY <1>1, <1>3, <1>5, <3>2, DividesApart
        <5> QED BY <1>1, <1>3, <1>9, <5>1
      <4>2. i = j - q
        BY <1>1, <1>3, <2>1, <4>1
      <4> QED BY <1>1, <1>2, <3>2, <4>2
    <3>3. CASE q < p
      <4>1. Divides(q, i + p)
        BY <1>1, <1>2, <1>3, <1>4, <1>7, <3>3, DividesTrans, Zenon
      <4>2. (j - q) + q <= i + p
        BY <1>2, <1>3, <1>5, <1>9, <4>1, DividesApart
      <4>3. i + p = j
        BY <1>1, <1>2, <1>3, <1>9, <4>2
      <4> QED BY <1>2, <1>7, <3>3, <4>3
    <3> QED BY <1>1, <1>2, <3>1, <3>2, <3>3
  <2> QED BY <1>1, <1>2, <1>3, <1>9, <2>1
<1> QED BY <1>8, <1>9 DEF p, q

LEMMA CoversUp ==
  ASSUME NEW i \in Nodes
  PROVE  /\ i + LowBit(i) \in 1 .. 2 * NumSymbols /\ i + LowBit(i) > i
         /\ i \in 1 .. 2 * NumSymbols /\ ~ (i > NumSymbols)
         /\ Covers(i) = {i} \union Covers(i + LowBit(i))
<1>1. /\ i + LowBit(i) \in 1 .. 2 * NumSymbols /\ i + LowBit(i) > i
      /\ i \in 1 .. 2 * NumSymbols /\ ~ (i > NumSymbols)
  BY Numbers, LowBitSteps DEF Nodes
<1>2. i \in Covers(i)
  <2>1. i - LowBit(i) < i /\ i <= i
    BY LowBitSteps
  <2> QED BY <2>1 DEF Covers
<1>3. ASSUME NEW j \in Nodes, i # j PROVE j \in Covers(i) <=> j \in Covers(i + LowBit(i))
  <2>1. j - LowBit(j) < i /\ i <= j
          <=> j - LowBit(j) < i + LowBit(i) /\ i + LowBit(i) <= j
    BY <1>3, CoversStep, Zenon
  <2> QED BY <2>1, Zenon DEF Covers
<1>4. Covers(i) \subseteq Nodes /\ Covers(i + LowBit(i)) \subseteq Nodes
  BY DEF Covers
<1>5. Covers(i) = {i} \union Covers(i + LowBit(i))
  BY <1>2, <1>3, <1>4, Zenon
<1> QED BY <1>1, <1>5

LEMMA CoversNone ==
  ASSUME NEW i \in 1 .. 2 * NumSymbols
  PROVE  /\ i > NumSymbols => Covers(i) = {}
         /\ ~ (i > NumSymbols) => i \in Nodes
BY Numbers DEF Covers, Nodes

LEMMA AboveIs ==
  ASSUME NEW s \in Symbols, NEW above,
         above = [i \in 1 .. 2 * NumSymbols |->
                   IF i > NumSymbols THEN {} ELSE {i} \union above[i + LowBit(i)]]
  PROVE  above[s + 1] = Covers(s + 1)
<1>1. NumSymbols \in Nat /\ NumSymbols > 0 /\ s + 1 \in 1 .. 2 * NumSymbols /\ Nodes \subseteq Nat
  BY Numbers DEF Symbols
<1>2. ASSUME NEW i \in 1 .. 2 * NumSymbols
      PROVE  above[i] = IF i > NumSymbols THEN {} ELSE {i} \union above[i + LowBit(i)]
  OBVIOUS
<1> DEFINE S == {n \in Nat : \E i \in 1 .. 2 * NumSymbols :
                               n = 2 * NumSymbols - i /\ above[i] # Covers(i)}
<1>5. ASSUME S # {} PROVE FALSE
  <2>1. PICK n \in S : \A k \in S : n <= k
    <3>1. S \subseteq Nat
      OBVIOUS
    <3> HIDE DEF S
    <3> QED BY <1>5, <3>1, Least
  <2>2. PICK i \in 1 .. 2 * NumSymbols : n = 2 * NumSymbols - i /\ above[i] # Covers(i)
    BY <2>1
  <2>3. i \in Nodes
    BY <1>2, <2>2, CoversNone
  <2> DEFINE k == i + LowBit(i)
  <2>4. k \in 1 .. 2 * NumSymbols /\ k > i /\ ~ (i > NumSymbols)
        /\ Covers(i) = {i} \union Covers(k)
    BY <2>3, CoversUp
  <2>5. above[i] = {i} \union above[k]
    BY <1>2, <2>2, <2>4
  <2> HIDE DEF k
  <2>6. above[k] # Covers(k)
    BY <2>2, <2>4, <2>5
  <2>7. 2 * NumSymbols - k \in S /\ 2 * NumSymbols - k < n
    BY <1>1, <2>2, <2>4, <2>6
  <2>8. n <= 2 * NumSymbols - k
    BY <2>1, <2>7
  <2> QED BY <1>1, <2>2, <2>4, <2>7, <2>8
<1>6. ASSUME above[s + 1] # Covers(s + 1) PROVE FALSE
  <2>1. PICK k \in 1 .. 2 * NumSymbols : above[k] # Covers(k)
    BY <1>1, <1>6
  <2>2. 2 * NumSymbols - k \in S
    BY <1>1, <2>1
  <2> QED BY <1>5, <2>2
<1> QED BY <1>6

\* The sums after delta more occurrences of sym.
Raised(P, sym, delta) ==
  [s \in 0 .. NumSymbols |-> IF s > sym THEN P[s] + delta ELSE P[s]]

LEMMA AddIs ==
  ASSUME NEW P, IsSums(P), NEW sym \in Symbols, NEW delta \in Nat
  PROVE  /\ IsSums(Raised(P, sym, delta))
         /\ Add(TreeOf(P), sym, delta) = TreeOf(Raised(P, sym, delta))
<1> DEFINE Eq(f) == f = [i \in 1 .. 2 * NumSymbols |->
                          IF i > NumSymbols THEN {} ELSE {i} \union f[i + LowBit(i)]]
           above == CHOOSE f : Eq(f)
           Q == Raised(P, sym, delta)
<1>1. Add(TreeOf(P), sym, delta)
        = [i \in Nodes |-> IF i \in above[sym + 1] THEN TreeOf(P)[i] + delta ELSE TreeOf(P)[i]]
  BY Zenon DEF Add
<1>2. NumSymbols \in Nat /\ P \in [0 .. NumSymbols -> Nat] /\ P[0] = 0 /\ sym \in Nat
      /\ Nodes \subseteq Nat
  BY Numbers DEF IsSums, Symbols
<1>3. \E f : Eq(f)
  <2> DEFINE g == [i \in 1 .. 2 * NumSymbols |-> Covers(i)]
  <2>1. ASSUME NEW i \in 1 .. 2 * NumSymbols
        PROVE  Covers(i) = IF i > NumSymbols THEN {} ELSE {i} \union g[i + LowBit(i)]
    <3>1. CASE i > NumSymbols
      BY <3>1, CoversNone
    <3>2. CASE ~ (i > NumSymbols)
      <4> DEFINE k == i + LowBit(i)
      <4>1. k \in 1 .. 2 * NumSymbols /\ Covers(i) = {i} \union Covers(k)
        BY <3>2, CoversNone, CoversUp
      <4> HIDE DEF k
      <4>2. g[k] = Covers(k)
        BY <4>1
      <4> HIDE DEF g
      <4> QED BY <3>2, <4>1, <4>2 DEF k
    <3> QED BY <3>1, <3>2
  <2>2. Eq(g)
    BY <2>1
  <2> QED BY <2>2
<1>4. Eq(above)
  BY <1>3, Zenon
<1> HIDE DEF above
<1>5. above[sym + 1] = Covers(sym + 1)
  BY <1>4, AboveIs
<1>6. IsSums(Q)
  <2>1. \A s \in 0 .. NumSymbols : P[s] \in Nat /\ P[s] + delta \in Nat
    BY <1>2
  <2>2. Q \in [0 .. NumSymbols -> Nat]
    BY <2>1 DEF Raised
  <2>3. 0 \in 0 .. NumSymbols /\ ~ (0 > sym)
    BY <1>2
  <2>4. Q[0] = 0
    BY <1>2, <2>3 DEF Raised
  <2> QED BY <2>2, <2>4 DEF IsSums
<1>7. ASSUME NEW i \in Nodes
      PROVE  (IF i \in Covers(sym + 1) THEN TreeOf(P)[i] + delta ELSE TreeOf(P)[i])
               = Q[i] - Q[i - LowBit(i)]
  <2> DEFINE k == i - LowBit(i)
  <2>1. i \in 0 .. NumSymbols /\ k \in 0 .. NumSymbols /\ k < i /\ i \in Nat /\ k \in Nat
    BY LowBitSteps
  <2>2. TreeOf(P)[i] = P[i] - P[k] /\ P[i] \in Nat /\ P[k] \in Nat
    BY <1>2, <2>1 DEF TreeOf
  <2>3. i \in Covers(sym + 1) <=> k <= sym /\ sym < i
    <3>1. i \in Covers(sym + 1) <=> k < sym + 1 /\ sym + 1 <= i
      BY DEF Covers
    <3> QED BY <1>2, <2>1, <3>1
  <2>4. /\ Q[i] = IF i > sym THEN P[i] + delta ELSE P[i]
        /\ Q[k] = IF k > sym THEN P[k] + delta ELSE P[k]
    BY <2>1 DEF Raised
  <2> HIDE DEF k, Q
  <2>5. CASE k <= sym /\ sym < i
    BY <1>2, <2>1, <2>2, <2>3, <2>4, <2>5 DEF k
  <2>6. CASE ~ (k <= sym /\ sym < i)
    BY <1>2, <2>1, <2>2, <2>3, <2>4, <2>6 DEF k
  <2> QED BY <2>5, <2>6
<1>8. Add(TreeOf(P), sym, delta) = TreeOf(Q)
  <2> HIDE DEF Q
  <2> QED BY <1>1, <1>5, <1>7, Zenon DEF TreeOf
<1> QED BY <1>6, <1>8

\* P are the sums of the counts f.
SumsOf(P, f) == IsSums(P) /\ \A s \in Symbols : f[s] \in Nat /\ P[s + 1] = P[s] + f[s]

LEMMA BuildIs ==
  ASSUME NEW f, NEW P, SumsOf(P, f)
  PROVE  Build(f) = TableOf(P)
<1> DEFINE Eq(b) == b = [s \in 0 .. NumSymbols |->
                          IF s = 0 THEN [tree |-> [i \in Nodes |-> 0], total |-> 0]
                          ELSE LET t == b[s - 1]
                               IN  [tree |-> Add(t.tree, s - 1, f[s - 1]),
                                    total |-> t.total + f[s - 1]]]
           built == CHOOSE b : Eq(b)
           Upto(s) == [k \in 0 .. NumSymbols |-> IF k < s THEN P[k] ELSE P[s]]
           w == [s \in 0 .. NumSymbols |-> TableOf(Upto(s))]
<1>1. Build(f) = built[NumSymbols]
  BY Zenon DEF Build
<1>2. NumSymbols \in Nat /\ P \in [0 .. NumSymbols -> Nat] /\ P[0] = 0 /\ NumSymbols > 0
  BY Numbers DEF SumsOf, IsSums
<1>3. ASSUME NEW s \in 0 .. NumSymbols PROVE IsSums(Upto(s))
  <2>1. 0 \in 0 .. NumSymbols /\ (0 < s \/ s = 0)
    BY <1>2
  <2>2. Upto(s) \in [0 .. NumSymbols -> Nat]
    BY <1>2
  <2>3. Upto(s)[0] = 0
    BY <1>2, <2>1
  <2> QED BY <2>2, <2>3 DEF IsSums
<1>4. TableOf(Upto(0)) = [tree |-> [i \in Nodes |-> 0], total |-> 0]
  <2>1. \A k \in 0 .. NumSymbols : Upto(0)[k] = 0
    BY <1>2
  <2>2. NumSymbols \in 0 .. NumSymbols
    BY <1>2
  <2>3. ASSUME NEW i \in Nodes
        PROVE  Upto(0)[i] - Upto(0)[i - LowBit(i)] = 0
    <3>1. i \in 0 .. NumSymbols /\ i - LowBit(i) \in 0 .. NumSymbols
      BY LowBitSteps
    <3> QED BY <2>1, <3>1
  <2> HIDE DEF Upto
  <2> QED BY <2>1, <2>2, <2>3, Zenon DEF TableOf, TreeOf
<1>5. ASSUME NEW s \in 0 .. NumSymbols, s # 0
      PROVE  /\ s - 1 \in 0 .. NumSymbols
             /\ [tree |-> Add(TableOf(Upto(s - 1)).tree, s - 1, f[s - 1]),
                 total |-> TableOf(Upto(s - 1)).total + f[s - 1]] = TableOf(Upto(s))
  <2>1. s - 1 \in 0 .. NumSymbols /\ s - 1 \in Symbols /\ s \in Nat /\ (s - 1) + 1 = s
    BY <1>2, <1>5 DEF Symbols
  <2>2. f[s - 1] \in Nat /\ P[s] = P[s - 1] + f[s - 1]
    BY <2>1, Zenon DEF SumsOf
  <2>3. Raised(Upto(s - 1), s - 1, f[s - 1]) = Upto(s)
    <3>1. ASSUME NEW k \in 0 .. NumSymbols
          PROVE  (IF k > s - 1 THEN Upto(s - 1)[k] + f[s - 1] ELSE Upto(s - 1)[k])
                   = IF k < s THEN P[k] ELSE P[s]
      <4>1. CASE k < s - 1
        BY <2>1, <4>1
      <4>2. CASE k = s - 1
        BY <2>1, <4>2
      <4>3. CASE k > s - 1
        <5>1. ~ (k < s) /\ ~ (k < s - 1)
          BY <2>1, <4>3
        <5> QED BY <2>2, <4>3, <5>1
      <4> QED BY <2>1, <4>1, <4>2, <4>3
    <3> QED BY <3>1 DEF Raised
  <2>4. Add(TreeOf(Upto(s - 1)), s - 1, f[s - 1]) = TreeOf(Upto(s))
    <3> HIDE DEF Upto
    <3> QED BY <1>3, <2>1, <2>2, <2>3, AddIs
  <2>5. Upto(s - 1)[NumSymbols] + f[s - 1] = Upto(s)[NumSymbols]
    <3>1. NumSymbols \in 0 .. NumSymbols /\ ~ (NumSymbols < s - 1)
      BY <1>2, <2>1
    <3>2. Upto(s - 1)[NumSymbols] = P[s - 1]
      BY <3>1
    <3>3. Upto(s)[NumSymbols] = P[s]
      BY <1>2, <2>1, <3>1
    <3> QED BY <2>2, <3>2, <3>3
  <2> HIDE DEF Upto
  <2>6. /\ TableOf(Upto(s - 1)).tree = TreeOf(Upto(s - 1))
        /\ TableOf(Upto(s - 1)).total = Upto(s - 1)[NumSymbols]
    BY DEF TableOf
  <2> QED BY <2>1, <2>4, <2>5, <2>6 DEF TableOf
<1> HIDE DEF Upto
<1>6. ASSUME NEW s \in 0 .. NumSymbols, NEW b, s # 0, b[s - 1] = TableOf(Upto(s - 1))
      PROVE  (LET t == b[s - 1]
              IN  [tree |-> Add(t.tree, s - 1, f[s - 1]), total |-> t.total + f[s - 1]])
               = TableOf(Upto(s))
  BY <1>5, <1>6
<1>7. Eq(w)
  <2> SUFFICES ASSUME NEW s \in 0 .. NumSymbols
               PROVE  TableOf(Upto(s)) =
                        IF s = 0 THEN [tree |-> [i \in Nodes |-> 0], total |-> 0]
                        ELSE LET t == w[s - 1]
                             IN  [tree |-> Add(t.tree, s - 1, f[s - 1]),
                                  total |-> t.total + f[s - 1]]
    BY Zenon
  <2>1. CASE s = 0
    BY <1>4, <2>1
  <2>2. CASE s # 0
    <3>1. w[s - 1] = TableOf(Upto(s - 1))
      BY <1>5, <2>2
    <3> HIDE DEF w
    <3> QED BY <1>6, <2>2, <3>1, Zenon
  <2> QED BY <2>1, <2>2
<1>8. Eq(built)
  BY <1>7, Zenon
<1> HIDE DEF built, w
<1>9. ASSUME NEW s \in 0 .. NumSymbols
      PROVE  built[s] = IF s = 0 THEN [tree |-> [i \in Nodes |-> 0], total |-> 0]
                        ELSE LET t == built[s - 1]
                             IN  [tree |-> Add(t.tree, s - 1, f[s - 1]),
                                  total |-> t.total + f[s - 1]]
  BY <1>8, Zenon
<1> DEFINE S == {s \in 0 .. NumSymbols : built[s] # TableOf(Upto(s))}
<1>10. ASSUME S # {} PROVE FALSE
  <2>1. PICK s \in S : \A k \in S : s <= k
    <3>1. S \subseteq Nat
      OBVIOUS
    <3> HIDE DEF S
    <3> QED BY <1>10, <3>1, Least
  <2>2. s # 0
    BY <1>4, <1>9, <2>1
  <2>3. s - 1 \in 0 .. NumSymbols /\ s - 1 < s
    BY <1>5, <2>1, <2>2
  <2>4. built[s - 1] = TableOf(Upto(s - 1))
    <3>1. s - 1 \notin S
      BY <2>1, <2>3
    <3> QED BY <2>3, <3>1
  <2>5. built[s] = TableOf(Upto(s))
    BY <1>6, <1>9, <2>1, <2>2, <2>4, Zenon
  <2> QED BY <2>1, <2>5, Zenon
<1>11. NumSymbols \in 0 .. NumSymbols
  BY <1>2
<1>12. Upto(NumSymbols) = P
  <2>1. \A k \in 0 .. NumSymbols : P[k] = IF k < NumSymbols THEN P[k] ELSE P[NumSymbols]
    BY <1>2
  <2>2. P = [k \in 0 .. NumSymbols |-> P[k]]
    BY <1>2
  <2> QED BY <2>1, <2>2, Zenon DEF Upto
<1> QED BY <1>1, <1>10, <1>11, <1>12

\* Every table of counts has its sums.
LEMMA SumsExist ==
  ASSUME NEW f \in [Symbols -> Nat]
  PROVE  \E P : SumsOf(P, f)
<1> DEFINE Upto(n, P) == /\ P \in [0 .. n -> Nat] /\ P[0] = 0
                         /\ \A s \in Symbols : s < n => P[s + 1] = P[s] + f[s]
           S == {n \in 0 .. NumSymbols : ~ \E P : Upto(n, P)}
<1>1. NumSymbols \in Nat /\ Symbols \subseteq Nat
  BY Numbers DEF Symbols
<1>2. ASSUME S # {} PROVE FALSE
  <2>1. PICK n \in S : \A k \in S : n <= k
    <3>1. S \subseteq Nat
      OBVIOUS
    <3> HIDE DEF S
    <3> QED BY <1>2, <3>1, Least
  <2>2. CASE n = 0
    <3> DEFINE P == [k \in 0 .. 0 |-> 0]
    <3>1. P \in [0 .. 0 -> Nat] /\ P[0] = 0
      OBVIOUS
    <3>2. \A s \in Symbols : ~ (s < 0)
      BY <1>1
    <3> HIDE DEF P
    <3> QED BY <2>1, <2>2, <3>1, <3>2
  <2>3. CASE n # 0
    <3>1. n - 1 \in 0 .. NumSymbols /\ n - 1 < n /\ n \in Nat
      BY <1>1, <2>1, <2>3
    <3>2. n - 1 \notin S
      BY <2>1, <3>1
    <3>3. PICK P : Upto(n - 1, P)
      BY <3>1, <3>2
    <3> DEFINE Q == [k \in 0 .. n |-> IF k < n THEN P[k] ELSE P[n - 1] + f[n - 1]]
    <3>4. n - 1 \in Symbols
      BY <1>1, <3>1 DEF Symbols
    <3>5. /\ \A k \in 0 .. n - 1 : P[k] \in Nat
          /\ P[0] = 0 /\ n - 1 \in 0 .. n - 1 /\ 0 \in 0 .. n - 1
      BY <3>1, <3>3
    <3>6. \A k \in 0 .. n : k < n => k \in 0 .. n - 1
      BY <3>1
    <3>7. f[n - 1] \in Nat
      BY <3>4
    <3>8. Q \in [0 .. n -> Nat]
      BY <3>5, <3>6, <3>7
    <3>9. Q[0] = 0
      BY <3>1, <3>5
    <3>10. ASSUME NEW s \in Symbols, s < n PROVE Q[s + 1] = Q[s] + f[s]
      <4>1. s \in 0 .. n /\ s + 1 \in 0 .. n
        BY <1>1, <3>1, <3>10
      <4>2. CASE s = n - 1
        <5>1. Q[s + 1] = P[n - 1] + f[n - 1] /\ Q[s] = P[n - 1]
          BY <3>1, <4>1, <4>2
        <5> QED BY <4>2, <5>1
      <4>3. CASE s < n - 1
        <5>1. P[s + 1] = P[s] + f[s]
          BY <3>3, <4>3
        <5>2. Q[s + 1] = P[s + 1] /\ Q[s] = P[s]
          BY <1>1, <3>1, <4>1, <4>3
        <5> QED BY <5>1, <5>2
      <4> QED BY <1>1, <3>1, <3>10, <4>2, <4>3
    <3> HIDE DEF Q
    <3> QED BY <2>1, <3>8, <3>9, <3>10
  <2> QED BY <2>2, <2>3
<1>3. PICK P : Upto(NumSymbols, P)
  <2>1. NumSymbols \in 0 .. NumSymbols /\ NumSymbols \notin S
    BY <1>1, <1>2
  <2> QED BY <2>1
<1>4. \A s \in Symbols : s < NumSymbols /\ f[s] \in Nat
  BY <1>1 DEF Symbols
<1> QED BY <1>3, <1>4 DEF SumsOf, IsSums

\* Every symbol has a share of the total.
Rising(P) == IsSums(P) /\ \A s \in Symbols : P[s] < P[s + 1]

LEMMA RisingIs ==
  ASSUME NEW P, Rising(P), NEW a \in 0 .. NumSymbols, NEW b \in 0 .. NumSymbols, a <= b
  PROVE  P[a] \in Nat /\ P[b] \in Nat /\ P[a] <= P[b]
<1> DEFINE S == {n \in 0 .. NumSymbols : a <= n /\ ~ (P[a] <= P[n])}
<1>1. NumSymbols \in Nat /\ \A k \in 0 .. NumSymbols : P[k] \in Nat
  BY Numbers DEF Rising, IsSums
<1>2. ASSUME S # {} PROVE FALSE
  <2>1. PICK n \in S : \A k \in S : n <= k
    <3>1. S \subseteq Nat
      OBVIOUS
    <3> HIDE DEF S
    <3> QED BY <1>2, <3>1, Least
  <2>2. a < n
    BY <1>1, <2>1
  <2>3. n - 1 \in 0 .. NumSymbols /\ n - 1 < n /\ a <= n - 1 /\ n - 1 \in Symbols
        /\ (n - 1) + 1 = n
    BY <1>1, <2>1, <2>2 DEF Symbols
  <2>4. P[a] <= P[n - 1]
    <3>1. n - 1 \notin S
      BY <2>1, <2>3
    <3> QED BY <2>3, <3>1
  <2>5. P[n - 1] < P[n]
    BY <2>3, Zenon DEF Rising
  <2> QED BY <1>1, <2>1, <2>3, <2>4, <2>5
<1> QED BY <1>1, <1>2

\* The largest multiple of p up to s.
LEMMA Multiple ==
  ASSUME NEW p \in Nat, p > 0, NEW s \in Nat
  PROVE  /\ s - (s % p) \in Nat /\ s - (s % p) <= s /\ s < (s - (s % p)) + p
         /\ Divides(p, s - (s % p))
         /\ \A r \in Nat : Divides(p, r) /\ r <= s /\ s < r + p => r = s - (s % p)
<1>0. s % p \in Nat /\ s % p < p /\ s \div p \in Nat /\ s % p <= s
  OBVIOUS
<1>1. s - (s % p) = p * (s \div p)
  <2> DEFINE m == p * (s \div p)
             r == s % p
  <2>1. m \in Nat
    BY <1>0
  <2>2. r = s - m /\ r \in Nat
    BY <1>0
  <2> HIDE DEF m, r
  <2>3. s - r = m
    BY <2>1, <2>2
  <2> QED BY <2>3 DEF m, r
<1>2. Divides(p, s - (s % p))
  BY <1>0, <1>1, Zenon DEF Divides
<1>3. PICK m \in Nat : m = s - (s % p)
  BY <1>0
<1>4. m <= s /\ s < m + p
  BY <1>0, <1>3
<1>5. ASSUME NEW r \in Nat, Divides(p, r), r <= s, s < r + p PROVE r = m
  <2>1. ~ (r < m) /\ ~ (m < r)
    <3>1. r < m => r + p <= m
      BY <1>2, <1>3, <1>5, DividesApart
    <3>2. m < r => m + p <= r
      BY <1>2, <1>3, <1>5, DividesApart
    <3> QED BY <1>4, <1>5, <3>1, <3>2
  <2> QED BY <2>1
<1> QED BY <1>2, <1>3, <1>4, <1>5

\* One step of the search: what lies below the node fits exactly if the symbol is above it.
LEMMA FindStep ==
  ASSUME NEW P, Rising(P), NEW s \in Symbols, NEW x \in Nat, P[s] <= x, x < P[s + 1],
         NEW p \in Powers
  PROVE  LET big == s - (s % (2 * p))
             node == big + p
             t == TableOf(P)
         IN  /\ big \in 0 .. NumSymbols /\ P[big] \in Nat /\ P[big] <= x
             /\ node <= NumSymbols /\ t.tree[node] <= x - P[big]
                  => s - (s % p) = node /\ (x - P[big]) - t.tree[node] = x - P[node]
             /\ ~ (node <= NumSymbols /\ t.tree[node] <= x - P[big]) => s - (s % p) = big
<1> DEFINE big == s - (s % (2 * p))
           node == big + p
           t == TableOf(P)
<1>1. /\ NumSymbols \in Nat /\ s \in Nat /\ s < NumSymbols /\ s \in 0 .. NumSymbols
      /\ s + 1 \in 0 .. NumSymbols
  BY Numbers DEF Symbols
<1>2. IsPower(p) /\ p \in Nat /\ p > 0 /\ p <= NumSymbols /\ 2 * p \in Nat /\ 2 * p > 0
  BY PowerFacts DEF IsPower
<1>3. big \in Nat /\ big <= s /\ s < big + 2 * p /\ Divides(2 * p, big)
  BY <1>1, <1>2, Multiple
<1> HIDE DEF big
<1>4. big \in 0 .. NumSymbols /\ P[big] \in Nat /\ P[big] <= P[s] /\ P[s] \in Nat
  <2>1. big \in 0 .. NumSymbols
    BY <1>1, <1>3
  <2> QED BY <1>1, <1>3, <2>1, RisingIs
<1>5. Divides(p, 2 * p) /\ Divides(p, p)
  BY <1>2, DividesSelf
<1>6. Divides(p, big)
  BY <1>2, <1>3, <1>5, DividesTrans, Zenon
<1>7. node \in Nat /\ Divides(p, node)
  BY <1>2, <1>3, <1>5, <1>6, DividesSum
<1>8. ASSUME node <= NumSymbols
      PROVE  t.tree[node] = P[node] - P[big] /\ P[node] \in Nat
  <2>1. node \in Nodes
    BY <1>2, <1>3, <1>8 DEF Nodes
  <2>2. ~ Divides(2 * p, node)
    <3> SUFFICES ASSUME Divides(2 * p, node) PROVE FALSE
      OBVIOUS
    <3>1. big + 2 * p <= node
      BY <1>2, <1>3, <1>7, DividesApart
    <3> QED BY <1>2, <1>3, <3>1
  <2>3. IsLowBit(p, node)
    BY <1>2, <1>7, <2>2 DEF IsLowBit
  <2>4. LowBit(node) = p
    BY <2>1, <2>3, LowBitIs
  <2>5. node - p = big
    BY <1>2, <1>3
  <2>6. t.tree[node] = P[node] - P[big]
    BY <2>1, <2>4, <2>5 DEF TableOf, TreeOf
  <2>7. node \in 0 .. NumSymbols
    BY <1>7, <1>8
  <2>8. P[node] \in Nat
    BY <2>7 DEF Rising, IsSums
  <2> QED BY <2>6, <2>8
<1>9. ASSUME node <= NumSymbols PROVE P[node] <= x <=> node <= s
  <2>1. node \in 0 .. NumSymbols
    BY <1>7, <1>9
  <2>2. CASE node <= s
    <3>1. P[node] <= P[s]
      BY <1>1, <2>1, <2>2, RisingIs
    <3> QED BY <1>4, <1>8, <1>9, <2>2, <3>1
  <2>3. CASE s + 1 <= node
    <3>1. P[s + 1] <= P[node] /\ P[s + 1] \in Nat
      BY <1>1, <2>1, <2>3, RisingIs
    <3>2. ~ (node <= s)
      BY <1>1, <1>7, <2>3
    <3> QED BY <1>8, <1>9, <3>1, <3>2
  <2> QED BY <1>1, <1>7, <2>2, <2>3
<1>10. ASSUME node <= s PROVE s - (s % p) = node
  <2>1. s < node + p
    BY <1>1, <1>2, <1>3
  <2> QED BY <1>1, <1>2, <1>7, <1>10, <2>1, Multiple
<1>11. ASSUME ~ (node <= s) PROVE s - (s % p) = big
  <2>1. s < big + p
    BY <1>1, <1>2, <1>3, <1>11
  <2> QED BY <1>1, <1>2, <1>3, <1>6, <2>1, Multiple
<1>12. P[big] <= x
  BY <1>4
<1>13. ASSUME node <= NumSymbols, t.tree[node] <= x - P[big]
       PROVE  s - (s % p) = node /\ (x - P[big]) - t.tree[node] = x - P[node]
  <2>1. t.tree[node] = P[node] - P[big] /\ P[node] \in Nat
    BY <1>8, <1>13
  <2> HIDE DEF t, node
  <2>2. P[node] <= x
    BY <1>4, <1>13, <2>1
  <2>3. s - (s % p) = node
    BY <1>9, <1>10, <1>13, <2>2
  <2>4. (x - P[big]) - t.tree[node] = x - P[node]
    BY <1>4, <2>1
  <2> QED BY <2>3, <2>4
<1>14. ASSUME ~ (node <= NumSymbols /\ t.tree[node] <= x - P[big])
       PROVE  s - (s % p) = big
  <2>1. CASE ~ (node <= NumSymbols)
    <3>1. ~ (node <= s)
      BY <1>1, <1>7, <2>1
    <3> QED BY <1>11, <3>1
  <2>2. CASE node <= NumSymbols
    <3>1. t.tree[node] = P[node] - P[big] /\ P[node] \in Nat
      BY <1>8, <2>2
    <3>2. ~ (t.tree[node] <= x - P[big])
      BY <1>14, <2>2
    <3> HIDE DEF t, node
    <3>3. ~ (P[node] <= x)
      BY <1>4, <3>1, <3>2
    <3> QED BY <1>9, <1>11, <2>2, <3>3
  <2> QED BY <2>1, <2>2
<1> QED BY <1>4, <1>12, <1>13, <1>14 DEF big

LEMMA FindIs ==
  ASSUME NEW P, Rising(P), NEW s \in Symbols, NEW x \in Nat, P[s] <= x, x < P[s + 1]
  PROVE  Find(TableOf(P), x) = [sym |-> s, lo |-> P[s]]
<1> DEFINE t == TableOf(P)
           Step(f, p) == LET b == IF 2 * p <= NumSymbols THEN f[2 * p]
                                  ELSE [idx |-> 0, rem |-> x]
                             node == b.idx + p
                         IN  IF node <= NumSymbols /\ t.tree[node] <= b.rem
                             THEN [idx |-> node, rem |-> b.rem - t.tree[node]]
                             ELSE b
           search == CHOOSE f : f = [p \in Powers |-> Step(f, p)]
           At(k) == [idx |-> k, rem |-> x - P[k]]
           w == [p \in Powers |-> At(s - (s % p))]
<1>1. Find(t, x) = [sym |-> search[1].idx, lo |-> x - search[1].rem]
  BY Zenon DEF Find
<1>2. NumSymbols \in Nat /\ NumSymbols > 0 /\ s \in Nat /\ s < NumSymbols /\ P[0] = 0
  BY Numbers DEF Symbols, Rising, IsSums
\* Whoever starts from the right place takes the right step.
<1>3. ASSUME NEW f, NEW p \in Powers, 2 * p \in Powers => f[2 * p] = At(s - (s % (2 * p)))
      PROVE  Step(f, p) = At(s - (s % p))
  <2> DEFINE big == s - (s % (2 * p))
             node == big + p
             b == IF 2 * p <= NumSymbols THEN f[2 * p] ELSE [idx |-> 0, rem |-> x]
  <2>1. IsPower(p) /\ p \in Nat /\ p > 0 /\ IsPower(2 * p) /\ 2 * p \in Nat /\ 2 * p > 0
    BY PowerFacts, PowerDouble DEF IsPower
  <2>2. b = At(big)
    <3>1. CASE 2 * p <= NumSymbols
      <4>1. 2 * p \in Powers
        BY <2>1, <3>1, PowerFacts
      <4> QED BY <1>3, <3>1, <4>1
    <3>2. CASE ~ (2 * p <= NumSymbols)
      <4>1. s < 0 + 2 * p /\ 0 <= s
        BY <1>2, <2>1, <3>2
      <4>2. Divides(2 * p, 0)
        BY <2>1, DividesSelf
      <4>3. 0 = big
        BY <1>2, <2>1, <4>1, <4>2, Multiple
      <4>4. x - P[0] = x
        BY <1>2
      <4>5. b = [idx |-> 0, rem |-> x] /\ At(0) = [idx |-> 0, rem |-> x]
        BY <3>2, <4>4
      <4> QED BY <4>3, <4>5
    <3> QED BY <3>1, <3>2
  <2>3. /\ node <= NumSymbols /\ t.tree[node] <= x - P[big]
             => s - (s % p) = node /\ (x - P[big]) - t.tree[node] = x - P[node]
        /\ ~ (node <= NumSymbols /\ t.tree[node] <= x - P[big]) => s - (s % p) = big
    BY FindStep
  <2>4. Step(f, p) = IF b.idx + p <= NumSymbols /\ t.tree[b.idx + p] <= b.rem
                     THEN [idx |-> b.idx + p, rem |-> b.rem - t.tree[b.idx + p]]
                     ELSE b
    OBVIOUS
  <2> HIDE DEF big, b, Step, t
  <2>5. b.idx = big /\ b.rem = x - P[big]
    BY <2>2
  <2>6. CASE node <= NumSymbols /\ t.tree[node] <= x - P[big]
    <3>1. Step(f, p) = [idx |-> node, rem |-> (x - P[big]) - t.tree[node]]
      BY <2>4, <2>5, <2>6
    <3> QED BY <2>3, <2>6, <3>1
  <2>7. CASE ~ (node <= NumSymbols /\ t.tree[node] <= x - P[big])
    <3>1. Step(f, p) = b
      BY <2>4, <2>5, <2>7
    <3> QED BY <2>2, <2>3, <2>7, <3>1
  <2> QED BY <2>6, <2>7
<1> HIDE DEF Step, At
<1>4. w = [p \in Powers |-> Step(w, p)]
  <2> SUFFICES ASSUME NEW p \in Powers PROVE At(s - (s % p)) = Step(w, p)
    BY Zenon
  <2>1. 2 * p \in Powers => w[2 * p] = At(s - (s % (2 * p)))
    BY Zenon
  <2> HIDE DEF w
  <2> QED BY <1>3, <2>1
<1>5. search = [p \in Powers |-> Step(search, p)]
  BY <1>4, Zenon
<1> HIDE DEF search, w
<1> DEFINE S == {n \in Nat : \E p \in Powers : n = NumSymbols - p /\ search[p] # At(s - (s % p))}
<1>6. ASSUME S # {} PROVE FALSE
  <2>1. PICK n \in S : \A k \in S : n <= k
    <3>1. S \subseteq Nat
      OBVIOUS
    <3> HIDE DEF S
    <3> QED BY <1>6, <3>1, Least
  <2>2. PICK p \in Powers : n = NumSymbols - p /\ search[p] # At(s - (s % p))
    BY <2>1
  <2>3. p \in Nat /\ p > 0
    BY PowerFacts DEF IsPower
  <2>4. ASSUME 2 * p \in Powers PROVE search[2 * p] = At(s - (s % (2 * p)))
    <3> DEFINE q == 2 * p
    <3>1. q \in Powers /\ q <= NumSymbols /\ q \in Nat /\ p < q
      BY <2>3, <2>4, PowerFacts
    <3> HIDE DEF q
    <3>2. NumSymbols - q \in Nat /\ NumSymbols - q < n
      BY <1>2, <2>2, <2>3, <3>1
    <3>3. NumSymbols - q \notin S
      BY <2>1, <3>2
    <3>4. search[q] = At(s - (s % q))
      BY <3>1, <3>2, <3>3
    <3> QED BY <3>4 DEF q
  <2>5. Step(search, p) = At(s - (s % p))
    BY <1>3, <2>4
  <2>6. search[p] = Step(search, p)
    BY <1>5, Zenon
  <2> QED BY <2>2, <2>5, <2>6
<1>7. search[1] = At(s)
  <2>1. 1 \in Powers
    BY <1>2, PowerOne, PowerFacts
  <2>2. s - (s % 1) = s
    BY <1>2
  <2>3. search[1] = At(s - (s % 1))
    <3>1. NumSymbols - 1 \in Nat /\ NumSymbols - 1 \notin S
      BY <1>2, <1>6
    <3> QED BY <2>1, <3>1
  <2> QED BY <2>2, <2>3
<1>8. P[s] \in Nat
  <2>1. s \in 0 .. NumSymbols
    BY <1>2
  <2> QED BY <2>1 DEF Rising, IsSums
<1>9. search[1].idx = s /\ search[1].rem = x - P[s] /\ x - (x - P[s]) = P[s]
  BY <1>7, <1>8 DEF At
<1> QED BY <1>1, <1>9

\* The halved counts of a table.
Halved(P) == [s \in Symbols |-> IF P[s + 1] - P[s] > 1 THEN (P[s + 1] - P[s]) \div 2 ELSE 1]

LEMMA RescaledIs ==
  ASSUME NEW P, Rising(P), NEW Q, SumsOf(Q, Halved(P))
  PROVE  Rescaled(TableOf(P)) = TableOf(Q)
<1>1. \A s \in Symbols : FreqOf(TableOf(P), s) = P[s + 1] - P[s]
  BY FreqOfIs DEF Rising
<1>2. [s \in Symbols |-> IF FreqOf(TableOf(P), s) > 1
                         THEN FreqOf(TableOf(P), s) \div 2 ELSE 1] = Halved(P)
  BY <1>1, Zenon DEF Halved
<1> QED BY <1>2, BuildIs DEF Rescaled

\* No count becomes 0, and the sum is no more than half of the sum of what was there and
\* a 1 for each symbol.
LEMMA HalvedSums ==
  ASSUME NEW P, Rising(P)
  PROVE  /\ Halved(P) \in [Symbols -> Nat] /\ \A s \in Symbols : Halved(P)[s] > 0
         /\ \A Q : SumsOf(Q, Halved(P)) =>
              Rising(Q) /\ 2 * Q[NumSymbols] <= P[NumSymbols] + NumSymbols
<1>1. NumSymbols \in Nat /\ \A k \in 0 .. NumSymbols : P[k] \in Nat
  BY Numbers DEF Rising, IsSums
<1>2. ASSUME NEW s \in Symbols
      PROVE  /\ Halved(P)[s] \in Nat /\ Halved(P)[s] > 0 /\ P[s] \in Nat /\ P[s + 1] \in Nat
             /\ 2 * Halved(P)[s] + P[s] <= P[s + 1] + 1
  <2>1. P[s] \in Nat /\ P[s + 1] \in Nat /\ P[s] < P[s + 1]
    <3>1. s \in 0 .. NumSymbols /\ s + 1 \in 0 .. NumSymbols
      BY <1>1 DEF Symbols
    <3> QED BY <1>1, <3>1 DEF Rising
  <2>2. PICK f \in Nat : f = P[s + 1] - P[s]
    BY <2>1
  <2>3. Halved(P)[s] = IF f > 1 THEN f \div 2 ELSE 1
    BY <2>2 DEF Halved
  <2>4. Halved(P)[s] \in Nat /\ Halved(P)[s] > 0 /\ 2 * Halved(P)[s] <= f + 1
    <3>1. f > 0
      BY <2>1, <2>2
    <3>2. CASE f > 1
      BY <2>3, <3>2
    <3>3. CASE f = 1
      BY <2>3, <3>3
    <3> QED BY <3>1, <3>2, <3>3
  <2> QED BY <2>1, <2>2, <2>4
<1>3. Halved(P) \in [Symbols -> Nat]
  <2>1. Halved(P) = [s \in Symbols |-> Halved(P)[s]]
    BY DEF Halved
  <2> QED BY <1>2, <2>1
<1>4. ASSUME NEW Q, SumsOf(Q, Halved(P))
      PROVE  Rising(Q) /\ 2 * Q[NumSymbols] <= P[NumSymbols] + NumSymbols
  <2>1. /\ Q \in [0 .. NumSymbols -> Nat] /\ Q[0] = 0 /\ P[0] = 0
        /\ \A s \in Symbols : Q[s + 1] = Q[s] + Halved(P)[s]
    BY <1>4 DEF SumsOf, IsSums, Rising
  <2>2. ASSUME NEW s \in Symbols PROVE Q[s] < Q[s + 1]
    <3>1. Q[s] \in Nat
      BY <1>1, <2>1 DEF Symbols
    <3> QED BY <1>2, <2>1, <3>1
  <2> DEFINE S == {n \in 0 .. NumSymbols : ~ (2 * Q[n] <= P[n] + n)}
  <2>3. ASSUME S # {} PROVE FALSE
    <3>1. PICK n \in S : \A k \in S : n <= k
      <4>1. S \subseteq Nat
        OBVIOUS
      <4> HIDE DEF S
      <4> QED BY <2>3, <4>1, Least
    <3>2. n # 0
      BY <2>1, <3>1
    <3>3. n - 1 \in 0 .. NumSymbols /\ n - 1 < n /\ n - 1 \in Symbols /\ (n - 1) + 1 = n
          /\ n \in Nat
      BY <1>1, <3>1, <3>2 DEF Symbols
    <3>4. 2 * Q[n - 1] <= P[n - 1] + (n - 1)
      <4>1. n - 1 \notin S
        BY <3>1, <3>3
      <4> QED BY <3>3, <4>1
    <3>5. Q[n] = Q[n - 1] + Halved(P)[n - 1]
      BY <2>1, <3>3
    <3>6. /\ Halved(P)[n - 1] \in Nat /\ P[n - 1] \in Nat /\ P[n] \in Nat
          /\ 2 * Halved(P)[n - 1] + P[n - 1] <= P[n] + 1
      BY <1>2, <3>3
    <3>7. Q[n - 1] \in Nat
      BY <2>1, <3>3
    <3>8. 2 * Q[n] <= P[n] + n
      BY <3>3, <3>4, <3>5, <3>6, <3>7
    <3> QED BY <3>1, <3>8
  <2>4. NumSymbols \in 0 .. NumSymbols
    BY <1>1
  <2>5. 2 * Q[NumSymbols] <= P[NumSymbols] + NumSymbols
    BY <2>3, <2>4
  <2>6. IsSums(Q)
    BY <2>1 DEF IsSums
  <2> QED BY <2>2, <2>5, <2>6 DEF Rising
<1> QED BY <1>2, <1>3, <1>4

LEMMA RaisedIs ==
  ASSUME NEW P, Rising(P), NEW sym \in Symbols
  PROVE  LET Q == Raised(P, sym, Increment)
         IN  /\ Rising(Q) /\ Q[NumSymbols] = P[NumSymbols] + Increment
             /\ \A s \in Symbols : Q[s + 1] - Q[s] = IF s = sym THEN P[s + 1] - P[s] + Increment
                                                     ELSE P[s + 1] - P[s]
             /\ [tree |-> Add(TableOf(P).tree, sym, Increment),
                 total |-> TableOf(P).total + Increment] = TableOf(Q)
<1> DEFINE Q == Raised(P, sym, Increment)
<1>1. /\ NumSymbols \in Nat /\ Increment \in Nat /\ sym \in Nat /\ sym < NumSymbols
      /\ \A k \in 0 .. NumSymbols : P[k] \in Nat
      /\ \A s \in Symbols : s \in Nat /\ s \in 0 .. NumSymbols /\ s + 1 \in 0 .. NumSymbols
  BY Numbers, FenwickAssumption DEF Rising, IsSums, Symbols
<1>2. IsSums(Q) /\ Add(TreeOf(P), sym, Increment) = TreeOf(Q)
  BY <1>1, AddIs DEF Rising
<1>3. \A k \in 0 .. NumSymbols : Q[k] = IF k > sym THEN P[k] + Increment ELSE P[k]
  BY DEF Raised
<1> HIDE DEF Q
<1>4. ASSUME NEW s \in Symbols
      PROVE  /\ Q[s] < Q[s + 1]
             /\ Q[s + 1] - Q[s] = IF s = sym THEN P[s + 1] - P[s] + Increment
                                  ELSE P[s + 1] - P[s]
  <2>1. P[s] < P[s + 1] /\ P[s] \in Nat /\ P[s + 1] \in Nat
    BY <1>1 DEF Rising
  <2>2. /\ Q[s] = IF s > sym THEN P[s] + Increment ELSE P[s]
        /\ Q[s + 1] = IF s + 1 > sym THEN P[s + 1] + Increment ELSE P[s + 1]
    BY <1>1, <1>3
  <2>3. CASE s < sym
    BY <1>1, <2>1, <2>2, <2>3
  <2>4. CASE s = sym
    BY <1>1, <2>1, <2>2, <2>4
  <2>5. CASE s > sym
    BY <1>1, <2>1, <2>2, <2>5
  <2> QED BY <1>1, <2>3, <2>4, <2>5
<1>5. Q[NumSymbols] = P[NumSymbols] + Increment
  <2>1. NumSymbols \in 0 .. NumSymbols /\ NumSymbols > sym
    BY <1>1
  <2> QED BY <1>3, <2>1
<1>6. [tree |-> Add(TableOf(P).tree, sym, Increment), total |-> TableOf(P).total + Increment]
        = TableOf(Q)
  BY <1>2, <1>5 DEF TableOf
<1>7. Rising(Q)
  BY <1>2, <1>4 DEF Rising
<1> QED BY <1>4, <1>5, <1>6, <1>7 DEF Q

\* The tables that the code can have: rising sums that do not pass the limit.
Tables == {TableOf(P) : P \in {S \in [0 .. NumSymbols -> Nat] :
                                 Rising(S) /\ S[NumSymbols] <= MaxTotal}}

LEMMA TablesAre ==
  ASSUME NEW t
  PROVE  t \in Tables <=> \E P : Rising(P) /\ P[NumSymbols] <= MaxTotal /\ t = TableOf(P)
<1>1. \A P : Rising(P) => P \in [0 .. NumSymbols -> Nat]
  BY DEF Rising, IsSums
<1> QED BY <1>1, Zenon DEF Tables

LEMMA ResetIs ==
  LET P == [s \in 0 .. NumSymbols |-> s]
  IN  /\ Rising(P) /\ P[NumSymbols] = NumSymbols /\ Reset = TableOf(P)
      /\ \A s \in Symbols : P[s + 1] - P[s] = 1
<1> DEFINE P == [s \in 0 .. NumSymbols |-> s]
           f == [s \in Symbols |-> 1]
<1>1. NumSymbols \in Nat /\ NumSymbols > 0
      /\ \A s \in Symbols : s \in Nat /\ s \in 0 .. NumSymbols /\ s + 1 \in 0 .. NumSymbols
  BY Numbers DEF Symbols
<1>2. IsSums(P) /\ P[NumSymbols] = NumSymbols
  BY <1>1 DEF IsSums
<1>3. ASSUME NEW s \in Symbols
      PROVE  P[s] < P[s + 1] /\ f[s] \in Nat /\ P[s + 1] = P[s] + f[s] /\ P[s + 1] - P[s] = 1
  BY <1>1
<1> HIDE DEF P
<1>4. Rising(P)
  BY <1>2, <1>3 DEF Rising
<1>5. SumsOf(P, f)
  BY <1>2, <1>3, Zenon DEF SumsOf
<1>6. Reset = TableOf(P)
  BY <1>5, BuildIs DEF Reset
<1> QED BY <1>2, <1>3, <1>4, <1>6 DEF P

\* What update() makes of the sums of a table.
LEMMA UpdatedIs ==
  ASSUME NEW P, Rising(P), P[NumSymbols] <= MaxTotal, NEW sym \in Symbols
  PROVE  LET Q == Raised(P, sym, Increment)
         IN  /\ Q[NumSymbols] <= MaxTotal => Updated(TableOf(P), sym) = TableOf(Q)
             /\ ~ (Q[NumSymbols] <= MaxTotal) =>
                  \E R : /\ SumsOf(R, Halved(Q)) /\ Rising(R) /\ R[NumSymbols] <= MaxTotal
                         /\ Updated(TableOf(P), sym) = TableOf(R)
<1> DEFINE Q == Raised(P, sym, Increment)
<1>1. /\ Rising(Q) /\ Q[NumSymbols] = P[NumSymbols] + Increment
      /\ [tree |-> Add(TableOf(P).tree, sym, Increment),
          total |-> TableOf(P).total + Increment] = TableOf(Q)
  BY RaisedIs
<1> HIDE DEF Q
<1>2. /\ NumSymbols \in Nat /\ Increment \in Nat /\ MaxTotal \in Nat
      /\ NumSymbols + Increment <= MaxTotal
  BY FenwickAssumption
<1>3. P[NumSymbols] \in Nat /\ Q[NumSymbols] \in Nat
  BY <1>1, <1>2 DEF Rising, IsSums
<1>4. TableOf(Q).total = Q[NumSymbols]
  BY DEF TableOf
<1>5. Updated(TableOf(P), sym) = IF Q[NumSymbols] > MaxTotal THEN Rescaled(TableOf(Q))
                                 ELSE TableOf(Q)
  BY <1>1, <1>4, Zenon DEF Updated
<1>6. ASSUME ~ (Q[NumSymbols] <= MaxTotal)
      PROVE  \E R : /\ SumsOf(R, Halved(Q)) /\ Rising(R) /\ R[NumSymbols] <= MaxTotal
                    /\ Updated(TableOf(P), sym) = TableOf(R)
  <2>1. PICK R : SumsOf(R, Halved(Q))
    BY <1>1, HalvedSums, SumsExist
  <2>2. Rising(R) /\ 2 * R[NumSymbols] <= Q[NumSymbols] + NumSymbols
    BY <1>1, <2>1, HalvedSums
  <2>3. R[NumSymbols] \in Nat
    BY <1>2, <2>2 DEF Rising, IsSums
  <2>4. R[NumSymbols] <= MaxTotal
    BY <1>1, <1>2, <1>3, <2>2, <2>3
  <2>5. Updated(TableOf(P), sym) = Rescaled(TableOf(Q))
    BY <1>2, <1>3, <1>5, <1>6
  <2>6. Rescaled(TableOf(Q)) = TableOf(R)
    BY <1>1, <2>1, RescaledIs
  <2> QED BY <2>1, <2>2, <2>4, <2>5, <2>6
<1>7. ASSUME Q[NumSymbols] <= MaxTotal PROVE Updated(TableOf(P), sym) = TableOf(Q)
  BY <1>2, <1>3, <1>5, <1>7
<1> QED BY <1>6, <1>7 DEF Q

LEMMA TablesKeep ==
  /\ Reset \in Tables
  /\ \A t \in Tables, s \in Symbols : Updated(t, s) \in Tables
<1>1. Reset \in Tables
  <2>1. NumSymbols <= MaxTotal
    BY FenwickAssumption
  <2> QED BY <2>1, ResetIs, TablesAre
<1>2. ASSUME NEW t \in Tables, NEW sym \in Symbols PROVE Updated(t, sym) \in Tables
  <2>1. PICK P : Rising(P) /\ P[NumSymbols] <= MaxTotal /\ t = TableOf(P)
    BY TablesAre, Zenon
  <2> DEFINE Q == Raised(P, sym, Increment)
  <2>2. Rising(Q)
    BY <2>1, RaisedIs
  <2>3. /\ Q[NumSymbols] <= MaxTotal => Updated(TableOf(P), sym) = TableOf(Q)
        /\ ~ (Q[NumSymbols] <= MaxTotal) =>
             \E R : /\ SumsOf(R, Halved(Q)) /\ Rising(R) /\ R[NumSymbols] <= MaxTotal
                    /\ Updated(TableOf(P), sym) = TableOf(R)
    BY <2>1, UpdatedIs
  <2> HIDE DEF Q
  <2> QED BY <2>1, <2>2, <2>3, TablesAre, Zenon
<1> QED BY <1>1, <1>2

\* Tables of a set T, in which each symbol has a share of the total and find() returns
\* the symbol in whose share the target lies.
KeepsPromise(T) ==
  /\ Reset \in T
  /\ \A t \in T, s \in Symbols : Updated(t, s) \in T
  /\ \A t \in T : t.total \in 1 .. MaxTotal
  /\ \A t \in T, s \in Symbols :
       /\ CumFreq(t, s) \in Nat /\ FreqOf(t, s) \in Nat /\ FreqOf(t, s) > 0
       /\ CumFreq(t, s) + FreqOf(t, s) <= t.total
       /\ \A x \in Nat :
            CumFreq(t, s) <= x /\ x < CumFreq(t, s) + FreqOf(t, s)
              => Find(t, x) = [sym |-> s, lo |-> CumFreq(t, s)]

LEMMA TablesPromise == KeepsPromise(Tables)
<1>0. NumSymbols \in Nat /\ NumSymbols > 0 /\ MaxTotal \in Nat
  BY FenwickAssumption
<1>1. ASSUME NEW t \in Tables PROVE t.total \in 1 .. MaxTotal
  <2>1. PICK P : Rising(P) /\ P[NumSymbols] <= MaxTotal /\ t = TableOf(P)
    BY TablesAre, Zenon
  <2>2. t.total = P[NumSymbols]
    BY <2>1 DEF TableOf
  <2>3. 0 \in Symbols /\ 0 \in 0 .. NumSymbols /\ 1 \in 0 .. NumSymbols
        /\ NumSymbols \in 0 .. NumSymbols /\ 1 <= NumSymbols /\ 0 + 1 = 1
    BY <1>0 DEF Symbols
  <2>4. P[0] < P[1] /\ P[0] \in Nat
    BY <2>1, <2>3 DEF Rising, IsSums
  <2>5. P[1] <= P[NumSymbols] /\ P[1] \in Nat /\ P[NumSymbols] \in Nat
    BY <2>1, <2>3, RisingIs
  <2> QED BY <1>0, <2>1, <2>2, <2>4, <2>5
<1>2. ASSUME NEW t \in Tables, NEW s \in Symbols
      PROVE  /\ CumFreq(t, s) \in Nat /\ FreqOf(t, s) \in Nat /\ FreqOf(t, s) > 0
             /\ CumFreq(t, s) + FreqOf(t, s) <= t.total
             /\ \A x \in Nat :
                  CumFreq(t, s) <= x /\ x < CumFreq(t, s) + FreqOf(t, s)
                    => Find(t, x) = [sym |-> s, lo |-> CumFreq(t, s)]
  <2>1. PICK P : Rising(P) /\ P[NumSymbols] <= MaxTotal /\ t = TableOf(P)
    BY TablesAre, Zenon
  <2>2. /\ CumFreq(t, s) = P[s] /\ FreqOf(t, s) = P[s + 1] - P[s]
        /\ s \in 0 .. NumSymbols /\ s + 1 \in 0 .. NumSymbols
    BY <2>1, CumFreqIs, FreqOfIs DEF Rising
  <2>3. P[s] < P[s + 1] /\ P[s] \in Nat /\ P[s + 1] \in Nat
    BY <2>1, <2>2 DEF Rising, IsSums
  <2>4. P[s + 1] <= P[NumSymbols] /\ t.total = P[NumSymbols] /\ P[NumSymbols] \in Nat
    <3>1. NumSymbols \in 0 .. NumSymbols /\ s + 1 <= NumSymbols
      BY <1>0, <2>2
    <3>2. P[s + 1] <= P[NumSymbols] /\ P[NumSymbols] \in Nat
      BY <2>1, <2>2, <3>1, RisingIs
    <3> QED BY <2>1, <3>2 DEF TableOf
  <2>5. P[s] + (P[s + 1] - P[s]) = P[s + 1]
    BY <2>3
  <2>6. ASSUME NEW x \in Nat, P[s] <= x, x < P[s + 1] PROVE Find(t, x) = [sym |-> s, lo |-> P[s]]
    BY <2>1, <2>6, FindIs
  <2>7. FreqOf(t, s) \in Nat /\ FreqOf(t, s) > 0
    BY <2>2, <2>3
  <2> QED BY <2>2, <2>3, <2>4, <2>5, <2>6, <2>7
<1> QED BY <1>1, <1>2, TablesKeep DEF KeepsPromise

LEMMA TotalIs ==
  ASSUME NEW f, NEW P, SumsOf(P, f)
  PROVE  Plain!Total(f) = P[NumSymbols]
<1> DEFINE Eq(u) == u = [s \in 0 .. NumSymbols |-> IF s = 0 THEN 0 ELSE u[s - 1] + f[s - 1]]
           upTo == CHOOSE u : Eq(u)
<1>1. Plain!Total(f) = upTo[NumSymbols]
  BY Zenon DEF Plain!Total
<1>2. NumSymbols \in Nat /\ P \in [0 .. NumSymbols -> Nat] /\ P[0] = 0
  BY Numbers DEF SumsOf, IsSums
<1>3. ASSUME NEW s \in 0 .. NumSymbols, s # 0
      PROVE  s - 1 \in 0 .. NumSymbols /\ s - 1 < s /\ P[s] = P[s - 1] + f[s - 1]
  <2>1. s - 1 \in 0 .. NumSymbols /\ s - 1 < s /\ s - 1 \in Symbols /\ (s - 1) + 1 = s
    BY <1>2, <1>3 DEF Symbols
  <2>2. P[s] = P[s - 1] + f[s - 1]
    BY <2>1, Zenon DEF SumsOf
  <2> QED BY <2>1, <2>2
<1>4. Eq(P)
  <2> SUFFICES ASSUME NEW s \in 0 .. NumSymbols
               PROVE  P[s] = IF s = 0 THEN 0 ELSE P[s - 1] + f[s - 1]
    BY <1>2
  <2> QED BY <1>2, <1>3
<1>5. Eq(upTo)
  BY <1>4, Zenon
<1> HIDE DEF upTo
<1>6. \A s \in 0 .. NumSymbols : upTo[s] = IF s = 0 THEN 0 ELSE upTo[s - 1] + f[s - 1]
  BY <1>5, Zenon
<1> DEFINE S == {s \in 0 .. NumSymbols : upTo[s] # P[s]}
<1>7. ASSUME S # {} PROVE FALSE
  <2>1. PICK s \in S : \A k \in S : s <= k
    <3>1. S \subseteq Nat
      OBVIOUS
    <3> HIDE DEF S
    <3> QED BY <1>7, <3>1, Least
  <2>2. s # 0
    BY <1>2, <1>6, <2>1
  <2>3. s - 1 \in 0 .. NumSymbols /\ s - 1 < s /\ P[s] = P[s - 1] + f[s - 1]
    BY <1>3, <2>1, <2>2
  <2>4. upTo[s - 1] = P[s - 1]
    <3>1. s - 1 \notin S
      BY <2>1, <2>3
    <3> QED BY <2>3, <3>1
  <2> QED BY <1>6, <2>1, <2>2, <2>3, <2>4
<1>8. NumSymbols \in 0 .. NumSymbols
  BY <1>2
<1> QED BY <1>1, <1>7, <1>8

\* The counts of a table.
CountsOf(t) == [s \in Symbols |-> FreqOf(t, s)]

LEMMA CountsAre ==
  ASSUME NEW P, Rising(P)
  PROVE  /\ CountsOf(TableOf(P)) = [s \in Symbols |-> P[s + 1] - P[s]]
         /\ SumsOf(P, [s \in Symbols |-> P[s + 1] - P[s]])
<1>1. \A s \in Symbols : FreqOf(TableOf(P), s) = P[s + 1] - P[s]
  BY FreqOfIs DEF Rising
<1>2. CountsOf(TableOf(P)) = [s \in Symbols |-> P[s + 1] - P[s]]
  BY <1>1, Zenon DEF CountsOf
<1>3. ASSUME NEW s \in Symbols
      PROVE  P[s + 1] - P[s] \in Nat /\ P[s + 1] = P[s] + (P[s + 1] - P[s])
  <2>1. P[s] \in Nat /\ P[s + 1] \in Nat /\ P[s] < P[s + 1]
    <3>1. s \in 0 .. NumSymbols /\ s + 1 \in 0 .. NumSymbols
      BY Numbers DEF Symbols
    <3> QED BY <3>1 DEF Rising, IsSums
  <2> QED BY <2>1
<1>4. SumsOf(P, [s \in Symbols |-> P[s + 1] - P[s]])
  BY <1>3 DEF SumsOf, Rising
<1> QED BY <1>2, <1>4

\* update() on the tree is an occurrence in the plain table.
LEMMA UpdateCounts ==
  ASSUME NEW t \in Tables, NEW sym \in Symbols
  PROVE  LET more == [CountsOf(t) EXCEPT ![sym] = @ + Increment]
         IN  CountsOf(Updated(t, sym)) =
               IF Plain!Total(more) > MaxTotal
               THEN [s \in Plain!Symbols |-> Plain!Half(more[s])] ELSE more
<1> DEFINE more == [CountsOf(t) EXCEPT ![sym] = @ + Increment]
<1>1. PICK P : Rising(P) /\ P[NumSymbols] <= MaxTotal /\ t = TableOf(P)
  BY TablesAre, Zenon
<1> DEFINE Q == Raised(P, sym, Increment)
           diffs(S) == [s \in Symbols |-> S[s + 1] - S[s]]
<1>2. /\ Rising(Q) /\ Q[NumSymbols] = P[NumSymbols] + Increment
      /\ \A s \in Symbols : Q[s + 1] - Q[s] = IF s = sym THEN P[s + 1] - P[s] + Increment
                                              ELSE P[s + 1] - P[s]
  BY <1>1, RaisedIs
<1>3. /\ Q[NumSymbols] <= MaxTotal => Updated(t, sym) = TableOf(Q)
      /\ ~ (Q[NumSymbols] <= MaxTotal) =>
           \E R : /\ SumsOf(R, Halved(Q)) /\ Rising(R) /\ R[NumSymbols] <= MaxTotal
                  /\ Updated(t, sym) = TableOf(R)
  BY <1>1, UpdatedIs
<1> HIDE DEF Q
<1>4. CountsOf(t) = diffs(P)
  BY <1>1, CountsAre
<1>5. more = diffs(Q)
  <2>1. more = [s \in Symbols |-> IF s = sym THEN diffs(P)[sym] + Increment ELSE diffs(P)[s]]
    BY <1>4
  <2>2. ASSUME NEW s \in Symbols
        PROVE  (IF s = sym THEN diffs(P)[sym] + Increment ELSE diffs(P)[s]) = Q[s + 1] - Q[s]
    BY <1>2
  <2> HIDE DEF more
  <2> QED BY <2>1, <2>2, Zenon
<1>6. Plain!Total(more) = Q[NumSymbols]
  <2>1. SumsOf(Q, diffs(Q))
    BY <1>2, CountsAre
  <2> HIDE DEF more, diffs
  <2> QED BY <1>5, <2>1, TotalIs
<1>7. Q[NumSymbols] \in Nat /\ MaxTotal \in Nat
  <2>1. NumSymbols \in 0 .. NumSymbols
    BY Numbers
  <2> QED BY <1>2, <2>1, FenwickAssumption DEF Rising, IsSums
<1>8. CASE Q[NumSymbols] <= MaxTotal
  <2>1. CountsOf(Updated(t, sym)) = diffs(Q)
    BY <1>2, <1>3, <1>8, CountsAre
  <2>2. ~ (Plain!Total(more) > MaxTotal)
    BY <1>6, <1>7, <1>8
  <2> HIDE DEF more, diffs
  <2> QED BY <1>5, <2>1, <2>2 DEF more
<1>9. CASE ~ (Q[NumSymbols] <= MaxTotal)
  <2>1. PICK R : /\ SumsOf(R, Halved(Q)) /\ Rising(R)
                 /\ Updated(t, sym) = TableOf(R)
    BY <1>3, <1>9
  <2>2. CountsOf(Updated(t, sym)) = diffs(R)
    BY <2>1, CountsAre
  <2>3. Plain!Total(more) > MaxTotal
    BY <1>6, <1>7, <1>9
  <2>4. Plain!Symbols = Symbols
    BY DEF Plain!Symbols, Symbols
  <2>5. ASSUME NEW s \in Symbols PROVE Plain!Half(more[s]) = R[s + 1] - R[s]
    <3>1. more[s] = Q[s + 1] - Q[s]
      BY <1>5
    <3>2. Plain!Half(more[s]) = Halved(Q)[s]
      <4> HIDE DEF more
      <4> QED BY <3>1, Zenon DEF Plain!Half, Halved
    <3>3. R[s + 1] = R[s] + Halved(Q)[s] /\ Halved(Q)[s] \in Nat
      BY <2>1, Zenon DEF SumsOf
    <3>4. R[s] \in Nat
      <4>1. s \in 0 .. NumSymbols
        BY Numbers DEF Symbols
      <4> QED BY <2>1, <4>1 DEF Rising, IsSums
    <3> QED BY <3>2, <3>3, <3>4
  <2>6. [s \in Plain!Symbols |-> Plain!Half(more[s])] = diffs(R)
    <3> HIDE DEF more
    <3> QED BY <2>4, <2>5, Zenon
  <2> HIDE DEF more, diffs
  <2> QED BY <2>2, <2>3, <2>6, Zenon DEF more
<1> QED BY <1>8, <1>9

\* No sequence of updates and rescalings makes the tree differ from a plain table of
\* counts.
THEOREM TableIsPlain == TableSpec => ImplementsTable
<1>1. TableInit => Plain!Init /\ table \in Tables
  <2> SUFFICES ASSUME TableInit PROVE Plain!Init /\ table \in Tables
    OBVIOUS
  <2> DEFINE P == [s \in 0 .. NumSymbols |-> s]
  <2>1. Rising(P) /\ Reset = TableOf(P) /\ \A s \in Symbols : P[s + 1] - P[s] = 1
    BY ResetIs
  <2> HIDE DEF P
  <2>2. CountsOf(table) = [s \in Symbols |-> P[s + 1] - P[s]]
    BY <2>1, CountsAre DEF TableInit
  <2>3. CountsOf(table) = [s \in Symbols |-> 1]
    BY <2>1, <2>2, Zenon
  <2>4. table \in Tables
    BY TablesKeep DEF TableInit
  <2> QED BY <2>3, <2>4 DEF Plain!Init, Plain!Symbols, Symbols, CountsOf
<1>2. table \in Tables /\ [TableNext]_table => (table \in Tables)'
  <2> SUFFICES ASSUME table \in Tables, [TableNext]_table PROVE (table \in Tables)'
    OBVIOUS
  <2>1. ASSUME NEW sym \in Symbols, Update(sym) PROVE table' \in Tables
    BY <2>1, TablesKeep DEF Update
  <2>2. (table \in Tables)' <=> table' \in Tables
    BY DEF Tables, TableOf, TreeOf, Rising, IsSums, LowBit, Powers, Nodes, Symbols
  <2> QED BY <2>1, <2>2 DEF TableNext
<1>3. table \in Tables /\ [TableNext]_table => [Plain!Next]_(CountsOf(table))
  <2> SUFFICES ASSUME table \in Tables, [TableNext]_table
               PROVE  [Plain!Next]_(CountsOf(table))
    OBVIOUS
  <2>1. ASSUME NEW sym \in Symbols, Update(sym) PROVE Plain!Next
    <3> DEFINE more == [CountsOf(table) EXCEPT ![sym] = @ + Increment]
    <3>1. CountsOf(table') = IF Plain!Total(more) > MaxTotal
                             THEN [s \in Plain!Symbols |-> Plain!Half(more[s])] ELSE more
      BY <2>1, UpdateCounts DEF Update
    <3>2. Plain!Count(sym)
      BY <3>1, Zenon DEF Plain!Count, CountsOf
    <3> QED BY <3>2 DEF Plain!Next, Plain!Symbols, Symbols
  <2>2. UNCHANGED table => UNCHANGED CountsOf(table)
    BY DEF CountsOf
  <2> QED BY <2>1, <2>2 DEF TableNext
<1> QED BY <1>1, <1>2, <1>3, PTL DEF TableSpec, ImplementsTable, Plain!Spec, CountsOf
-----------------------------------------------------------------------------
(***************************************************************************)
(* The round trip. The decoder goes through the states the encoder went    *)
(* through: a trace of them is what the invariant of both directions       *)
(* speaks of. Of the tables it only needs that they keep their promise.    *)
(***************************************************************************)

\* What the two directions have in common, after n bytes and m symbols.
Snap(l, r, p, tb, c, n, m) ==
  [low |-> l, range |-> r, pc |-> p, tables |-> tb, ctx |-> c, n |-> n, m |-> m]

IsSnap(a, T) ==
  /\ IsInterval(a.low, a.range) /\ a.pc \in {"ready", "normalize"}
  /\ a.pc = "ready" => a.range >= 65536
  /\ a.tables \in [Symbols -> T] /\ a.ctx \in Symbols
  /\ a.n \in Nat /\ a.m \in Nat

\* The steps between them, when the message is g and the bytes written are o.
CodesSymbol(a, b, g) ==
  /\ a.pc = "ready" /\ a.m < Len(g)
  /\ LET s == g[a.m + 1]
         t == a.tables[a.ctx]
         share == a.range \div t.total
     IN  b = Snap((a.low + CumFreq(t, s) * share) % Word, (share * FreqOf(t, s)) % Word,
                  "normalize", [a.tables EXCEPT ![a.ctx] = Updated(t, s)], s, a.n, a.m + 1)

IsSettled(a) == a.low \div 16777216 = ((a.low + a.range) % 4294967296) \div 16777216

WritesByte(a, b, o) ==
  /\ a.pc = "normalize" /\ a.n < Len(o)
  /\ IsSettled(a) \/ a.range < 65536
  /\ o[a.n + 1] = a.low \div 16777216
  /\ b = Snap((a.low * 256) % 4294967296, (Kept(a.low, a.range) * 256) % 4294967296,
              "normalize", a.tables, a.ctx, a.n + 1, a.m)

GetsReady(a, b) ==
  /\ a.pc = "normalize" /\ ~ IsSettled(a) /\ a.range >= 65536
  /\ b = Snap(a.low, a.range, "ready", a.tables, a.ctx, a.n, a.m)

Follows(a, b, g, o) == CodesSymbol(a, b, g) \/ WritesByte(a, b, o) \/ GetsReady(a, b)

Started == Snap(0, 4294967295, "ready", FreshModel, 0, 0, 0)

Trace(h, g, o, T) ==
  /\ (\E snaps : h \in Seq(snaps)) /\ Len(h) \in Nat /\ Len(h) > 0 /\ h[1] = Started
  /\ \A j \in 1 .. Len(h) : IsSnap(h[j], T)
  /\ \A j \in 1 .. Len(h) - 1 : Follows(h[j], h[j + 1], g, o)

\* The four bytes from the nth on.
WordAt(o, n) ==
  ByteOf(o, n + 1) * 16777216 + ByteOf(o, n + 2) * 65536 + ByteOf(o, n + 3) * 256
    + ByteOf(o, n + 4)

\* They lie in the interval.
Hits(a, o) == a.low <= WordAt(o, a.n) /\ WordAt(o, a.n) < a.low + a.range

CoderTypes ==
  /\ side \in {"encode", "decode", "done"} /\ pc \in {"ready", "normalize"}
  /\ msg \in Seq(Symbols) /\ out \in Seq(0 .. 255) /\ got \in Seq(Symbols)

Encoding(T) ==
  \E h : /\ Trace(h, msg, out, T)
         /\ h[Len(h)] = Snap(low, range, pc, tables, ctx, Len(out), Len(msg))

DecodingAt(h, t, T) ==
  /\ Trace(h, msg, out, T)
  /\ \A j \in 1 .. Len(h) : Hits(h[j], out)
  /\ h[Len(h)].m = Len(msg) /\ h[Len(h)].pc = "ready"
  /\ h[t] = Snap(low, range, pc, tables, ctx, pos - 4, Len(got))
  /\ pos \in Nat /\ code = WordAt(out, pos - 4)

CoderInv(T) ==
  /\ CoderTypes
  /\ side = "encode" => got = <<>> /\ Encoding(T)
  /\ side # "encode" =>
       /\ \E h : \E t \in 1 .. Len(h) : DecodingAt(h, t, T)
       /\ Len(got) <= Len(msg) /\ \A i \in 1 .. Len(got) : got[i] = msg[i]
  /\ side = "done" => Len(got) = Len(msg)

LEMMA Promise ==
  ASSUME NEW T, KeepsPromise(T), NEW t \in T, NEW s \in Symbols
  PROVE  /\ Updated(t, s) \in T /\ t.total \in 1 .. MaxTotal
         /\ CumFreq(t, s) \in Nat /\ FreqOf(t, s) \in Nat /\ FreqOf(t, s) > 0
         /\ CumFreq(t, s) + FreqOf(t, s) <= t.total
         /\ \A x \in Nat :
              CumFreq(t, s) <= x /\ x < CumFreq(t, s) + FreqOf(t, s)
                => Find(t, x) = [sym |-> s, lo |-> CumFreq(t, s)]
BY Zenon DEF KeepsPromise

LEMMA SymbolKeeps ==
  ASSUME Bytes, NEW T, KeepsPromise(T), NEW g \in Seq(Symbols), NEW a, NEW b, IsSnap(a, T),
         CodesSymbol(a, b, g)
  PROVE  LET s == g[a.m + 1]
             t == a.tables[a.ctx]
             share == a.range \div t.total
         IN  /\ IsSnap(b, T) /\ s \in Symbols /\ t \in T
             /\ share \in Nat /\ share > 0
             /\ CumFreq(t, s) * share \in Nat /\ FreqOf(t, s) * share \in Nat
             /\ CumFreq(t, s) * share + FreqOf(t, s) * share <= a.range
             /\ b.low = a.low + CumFreq(t, s) * share
             /\ b.range = FreqOf(t, s) * share
             /\ b.pc = "normalize" /\ b.n = a.n /\ b.m = a.m + 1
<1> DEFINE s == g[a.m + 1]
           t == a.tables[a.ctx]
           share == a.range \div t.total
           cum == CumFreq(t, s)
           freq == FreqOf(t, s)
<1>1. /\ IsInterval(a.low, a.range) /\ a.range >= 65536 /\ a.tables \in [Symbols -> T]
      /\ a.ctx \in Symbols /\ a.n \in Nat /\ a.m \in Nat /\ a.m < Len(g)
  BY DEF IsSnap, CodesSymbol
<1>2. s \in Symbols /\ t \in T
  BY <1>1
<1>3. b = Snap((a.low + cum * share) % 4294967296, (share * freq) % 4294967296, "normalize",
               [a.tables EXCEPT ![a.ctx] = Updated(t, s)], s, a.n, a.m + 1)
  BY Widths DEF CodesSymbol
<1>a. /\ Updated(t, s) \in T /\ t.total \in 1 .. MaxTotal
      /\ cum \in Nat /\ freq \in Nat /\ freq > 0 /\ cum + freq <= t.total
  <2> HIDE DEF s, t
  <2> QED BY <1>2, Promise, Zenon DEF cum, freq
<1> HIDE DEF s, t, cum, freq
<1>4. [a.tables EXCEPT ![a.ctx] = Updated(t, s)] \in [Symbols -> T]
  BY <1>1, <1>a
<1>5. t.total \in Nat /\ t.total > 0 /\ t.total <= 65536
  <2>1. MaxTotal \in Nat /\ MaxTotal <= 65536
    BY Limits
  <2> QED BY <1>a, <2>1
<1>6. cum \in Nat /\ freq \in Nat /\ freq > 0 /\ cum + freq <= t.total
  BY <1>a
<1>7. /\ share \in Nat /\ share > 0 /\ cum * share \in Nat /\ freq * share \in Nat
      /\ cum * share + freq * share <= a.range
      /\ (a.low + cum * share) % 4294967296 = a.low + cum * share
      /\ (share * freq) % 4294967296 = freq * share
      /\ IsInterval(a.low + cum * share, freq * share)
  <2>1. IsShare(a.low, a.range, t.total, share, cum, freq)
    BY <1>1, <1>5, <1>6 DEF IsShare
  <2> HIDE DEF share
  <2> QED BY <2>1, NarrowKeeps
<1> HIDE DEF share
<1>8. /\ b.low = a.low + cum * share /\ b.range = freq * share /\ b.pc = "normalize"
      /\ b.tables \in [Symbols -> T] /\ b.ctx = s /\ b.n = a.n /\ b.m = a.m + 1
  BY <1>3, <1>4, <1>7 DEF Snap
<1>9. IsSnap(b, T)
  BY <1>1, <1>2, <1>7, <1>8 DEF IsSnap
<1> QED BY <1>2, <1>7, <1>8, <1>9 DEF s, t, share, cum, freq

LEMMA ByteKeeps ==
  ASSUME NEW T, NEW o, NEW a, NEW b, IsSnap(a, T), WritesByte(a, b, o)
  PROVE  LET d == a.low \div 16777216
             w == Kept(a.low, a.range)
         IN  /\ IsSnap(b, T) /\ d \in 0 .. 255 /\ w \in Nat /\ w <= a.range
             /\ a.low - 16777216 * d \in Nat
             /\ b.low = (a.low - 16777216 * d) * 256 /\ b.range = w * 256
             /\ b.n = a.n + 1 /\ b.m = a.m /\ o[a.n + 1] = d
<1> DEFINE d == a.low \div 16777216
           w == Kept(a.low, a.range)
<1>1. /\ IsInterval(a.low, a.range) /\ a.tables \in [Symbols -> T]
      /\ a.ctx \in Symbols /\ a.n \in Nat /\ a.m \in Nat
  BY DEF IsSnap
<1>2. /\ d # ((a.low + a.range) % 4294967296) \div 16777216 => a.range < 65536
      /\ o[a.n + 1] = d
      /\ b = Snap((a.low * 256) % 4294967296, (w * 256) % 4294967296,
                  "normalize", a.tables, a.ctx, a.n + 1, a.m)
  BY DEF WritesByte, IsSettled
<1>3. /\ d \in 0 .. 255 /\ w \in Nat /\ w > 0 /\ w <= a.range
      /\ a.low - 16777216 * d \in Nat
      /\ a.low - 16777216 * d + w <= 16777216
      /\ (a.low * 256) % 4294967296 = (a.low - 16777216 * d) * 256
      /\ (w * 256) % 4294967296 = w * 256
      /\ a.low - 16777216 * d + w = 16777216 =>
           (a.low - 16777216 * d) * 256 >= 4294967296 - 16777216
  BY <1>1, <1>2, ShiftKeeps
<1> HIDE DEF d, w
<1>4. PICK x \in Nat : x = a.low - 16777216 * d
  BY <1>3
<1>5. /\ b.low = x * 256 /\ b.range = w * 256 /\ b.pc = "normalize" /\ b.tables = a.tables
      /\ b.ctx = a.ctx /\ b.n = a.n + 1 /\ b.m = a.m
  BY <1>2, <1>3, <1>4 DEF Snap
<1>6. IsInterval(x * 256, w * 256)
  BY <1>3, <1>4 DEF IsInterval
<1>7. IsSnap(b, T)
  BY <1>1, <1>5, <1>6 DEF IsSnap
<1> QED BY <1>2, <1>3, <1>4, <1>5, <1>7 DEF d, w

LEMMA ReadyKeeps ==
  ASSUME NEW T, NEW a, NEW b, IsSnap(a, T), GetsReady(a, b)
  PROVE  /\ IsSnap(b, T) /\ b.low = a.low /\ b.range = a.range /\ b.n = a.n /\ b.m = a.m
         /\ b.pc = "ready"
BY DEF GetsReady, IsSnap, Snap

\* A number of 32 bits, and the next one when a byte d goes at its top and e comes in.
IsWord(x) == x \in Nat /\ x < 4294967296
Moves(x, d, e, y) == x * 256 + e = d * 4294967296 + y

LEMMA ByteIs ==
  ASSUME NEW o \in Seq(0 .. 255), NEW i \in Nat, i > 0
  PROVE  ByteOf(o, i) \in 0 .. 255
<1>1. CASE i <= Len(o)
  <2>1. o[i] \in 0 .. 255
    BY <1>1, ElementOfSeq, LenProperties
  <2> QED BY <1>1, <2>1 DEF ByteOf
<1>2. CASE ~ (i <= Len(o))
  BY <1>2 DEF ByteOf
<1> QED BY <1>1, <1>2

\* The window of four bytes moves by one byte.
LEMMA WordMoves ==
  ASSUME NEW o \in Seq(0 .. 255), NEW n \in Nat
  PROVE  /\ IsWord(WordAt(o, n)) /\ IsWord(WordAt(o, n + 1))
         /\ ByteOf(o, n + 1) \in 0 .. 255 /\ ByteOf(o, n + 5) \in 0 .. 255
         /\ Moves(WordAt(o, n), ByteOf(o, n + 1), ByteOf(o, n + 5), WordAt(o, n + 1))
<1> DEFINE a == ByteOf(o, n + 1)
           b == ByteOf(o, n + 2)
           c == ByteOf(o, n + 3)
           d == ByteOf(o, n + 4)
           e == ByteOf(o, n + 5)
<1>2. a \in 0 .. 255 /\ b \in 0 .. 255 /\ c \in 0 .. 255 /\ d \in 0 .. 255 /\ e \in 0 .. 255
  <2>1. /\ n + 1 \in Nat /\ n + 2 \in Nat /\ n + 3 \in Nat /\ n + 4 \in Nat /\ n + 5 \in Nat
        /\ n + 1 > 0 /\ n + 2 > 0 /\ n + 3 > 0 /\ n + 4 > 0 /\ n + 5 > 0
    OBVIOUS
  <2> QED BY <2>1, ByteIs, Zenon
<1>3. WordAt(o, n) = a * 16777216 + b * 65536 + c * 256 + d
  BY DEF WordAt
<1>4. WordAt(o, n + 1) = b * 16777216 + c * 65536 + d * 256 + e
  <2>1. n + 1 + 1 = n + 2 /\ n + 1 + 2 = n + 3 /\ n + 1 + 3 = n + 4 /\ n + 1 + 4 = n + 5
    OBVIOUS
  <2> QED BY <2>1 DEF WordAt
<1> HIDE DEF a, b, c, d, e
<1>5. /\ IsWord(WordAt(o, n)) /\ IsWord(WordAt(o, n + 1))
      /\ Moves(WordAt(o, n), a, e, WordAt(o, n + 1))
  <2>1. PICK w, v \in Nat : /\ w = a * 16777216 + b * 65536 + c * 256 + d
                            /\ v = b * 16777216 + c * 65536 + d * 256 + e
    BY <1>2
  <2>2. w < 4294967296 /\ v < 4294967296 /\ w * 256 + e = a * 4294967296 + v
    BY <1>2, <2>1
  <2> QED BY <1>3, <1>4, <2>1, <2>2 DEF IsWord, Moves
<1> QED BY <1>2, <1>5 DEF a, e

\* An interval that the bytes lie in was cut out of intervals that they lie in.
LEMMA HitsBack ==
  ASSUME Bytes, NEW T, KeepsPromise(T), NEW g \in Seq(Symbols), NEW o \in Seq(0 .. 255),
         NEW a, NEW b, IsSnap(a, T), Follows(a, b, g, o), Hits(b, o)
  PROVE  Hits(a, o)
<1>0. /\ a.low \in Nat /\ a.range \in Nat /\ a.n \in Nat
  BY DEF IsSnap, IsInterval
<1>1. CASE CodesSymbol(a, b, g)
  <2> DEFINE s == g[a.m + 1]
             t == a.tables[a.ctx]
             share == a.range \div t.total
             below == CumFreq(t, s) * share
             width == FreqOf(t, s) * share
  <2>1. /\ below \in Nat /\ width \in Nat /\ below + width <= a.range
        /\ b.low = a.low + below /\ b.range = width /\ b.n = a.n
    BY <1>1, SymbolKeeps
  <2> HIDE DEF below, width
  <2>2. PICK x \in Nat : x = WordAt(o, a.n)
    <3>1. IsWord(WordAt(o, a.n))
      BY <1>0, WordMoves, Zenon
    <3> QED BY <3>1 DEF IsWord
  <2>3. b.low <= x /\ x < b.low + b.range
    BY <2>1, <2>2 DEF Hits
  <2>4. a.low <= x /\ x < a.low + a.range
    BY <1>0, <2>1, <2>3
  <2> QED BY <2>2, <2>4 DEF Hits
<1>2. CASE WritesByte(a, b, o)
  <2> DEFINE d == a.low \div 16777216
             w == Kept(a.low, a.range)
  <2>1. /\ d \in 0 .. 255 /\ w \in Nat /\ w <= a.range /\ a.low - 16777216 * d \in Nat
        /\ b.low = (a.low - 16777216 * d) * 256 /\ b.range = w * 256
        /\ b.n = a.n + 1 /\ o[a.n + 1] = d
    BY <1>2, ByteKeeps
  <2> HIDE DEF d, w
  <2>2. ByteOf(o, a.n + 1) = d
    BY <1>0, <1>2, <2>1 DEF WritesByte, ByteOf
  <2> DEFINE x == WordAt(o, a.n)
             y == WordAt(o, a.n + 1)
             e == ByteOf(o, a.n + 5)
  <2>3. IsWord(x) /\ IsWord(y) /\ e \in 0 .. 255 /\ Moves(x, ByteOf(o, a.n + 1), e, y)
    BY <1>0, WordMoves, Zenon
  <2>4. Hits(b, o) => b.low <= y /\ y < b.low + b.range
    BY <2>1 DEF Hits
  <2>5. a.low <= x /\ x < a.low + a.range => Hits(a, o)
    BY DEF Hits
  <2> HIDE DEF x, y, e
  <2>6. a.low <= x /\ x < a.low + a.range
    <3>a. PICK l, r \in Nat : l = a.low /\ r = a.range
      BY <1>0
    <3>b. PICK v \in Nat : v = w
      BY <2>1
    <3>c. PICK k \in Nat : k = d
      BY <2>1
    <3>d. PICK m, z \in Nat : m = x /\ z = y
      BY <2>3 DEF IsWord
    <3>e. PICK u \in Nat : u = l - 16777216 * k
      BY <2>1, <3>a, <3>c
    <3>1. /\ l = a.low /\ r = a.range /\ u = a.low - 16777216 * d /\ v = w /\ k = d
          /\ m = x /\ z = y
      BY <3>a, <3>b, <3>c, <3>d, <3>e
    <3>2. /\ l = u + 16777216 * k /\ v <= r /\ u * 256 <= z /\ z < u * 256 + v * 256
      BY <2>1, <2>4, <3>1
    <3>3. m * 256 + e = k * 4294967296 + z /\ e \in 0 .. 255
      BY <2>2, <2>3, <3>1 DEF Moves
    <3>4. l <= m /\ m < l + r
      BY <3>2, <3>3
    <3> QED BY <3>1, <3>4
  <2> QED BY <2>5, <2>6
<1>3. CASE GetsReady(a, b)
  BY <1>3, ReadyKeeps DEF Hits
<1> QED BY <1>1, <1>2, <1>3 DEF Follows

\* A sequence with nothing or more written after it.
Extends(s, t) ==
  /\ Len(s) \in Nat /\ Len(t) \in Nat /\ Len(s) <= Len(t)
  /\ \A i \in 1 .. Len(s) : t[i] = s[i]

LEMMA FollowsKeeps ==
  ASSUME Bytes, NEW T, KeepsPromise(T), NEW g \in Seq(Symbols), NEW o, NEW a, NEW b,
         IsSnap(a, T), Follows(a, b, g, o)
  PROVE  IsSnap(b, T)
BY SymbolKeeps, ByteKeeps, ReadyKeeps DEF Follows

\* A step that was possible is still possible when the message and the bytes are longer.
LEMMA FollowsStays ==
  ASSUME NEW g, NEW o, NEW g2, NEW o2, NEW a, NEW b, a.m \in Nat, a.n \in Nat,
         Extends(g, g2), Extends(o, o2),
         Follows(a, b, g, o)
  PROVE  Follows(a, b, g2, o2)
<1>1. CASE CodesSymbol(a, b, g)
  <2>1. a.m < Len(g2) /\ g2[a.m + 1] = g[a.m + 1]
    BY <1>1 DEF CodesSymbol, Extends
  <2> QED BY <1>1, <2>1 DEF Follows, CodesSymbol
<1>2. CASE WritesByte(a, b, o)
  <2>1. a.n < Len(o2) /\ o2[a.n + 1] = o[a.n + 1]
    BY <1>2 DEF WritesByte, Extends
  <2> QED BY <1>2, <2>1 DEF Follows, WritesByte
<1> QED BY <1>1, <1>2 DEF Follows

\* A trace with one more step.
LEMMA TraceGrows ==
  ASSUME Bytes, NEW T, KeepsPromise(T),
         NEW g \in Seq(Symbols), NEW g2 \in Seq(Symbols),
         NEW o \in Seq(0 .. 255), NEW o2 \in Seq(0 .. 255),
         Extends(g, g2), Extends(o, o2),
         NEW h, Trace(h, g, o, T), NEW b, Follows(h[Len(h)], b, g2, o2)
  PROVE  /\ Trace(Append(h, b), g2, o2, T)
         /\ Append(h, b)[Len(Append(h, b))] = b
<1>1. PICK snaps : h \in Seq(snaps)
  BY DEF Trace
<1>2. PICK n \in Nat : n = Len(h) /\ n > 0
  BY DEF Trace
<1> DEFINE k == Append(h, b)
<1>3. k \in Seq(snaps \cup {b}) /\ Len(k) = n + 1
  <2>1. h \in Seq(snaps \cup {b})
    BY <1>1, <1>2
  <2> QED BY <2>1, <1>2
<1>4. (\A j \in 1 .. n : k[j] = h[j]) /\ k[n + 1] = b
  BY <1>1, <1>2
<1> HIDE DEF k
<1>5. \A j \in 1 .. n : IsSnap(h[j], T)
  BY <1>2 DEF Trace
<1>6. IsSnap(b, T)
  BY <1>2, <1>5, FollowsKeeps
<1>7. \A j \in 1 .. n + 1 : IsSnap(k[j], T)
  <2>1. \A j \in 1 .. n : IsSnap(k[j], T)
    BY <1>4, <1>5
  <2>2. IsSnap(k[n + 1], T)
    BY <1>4, <1>6
  <2> QED BY <1>2, <2>1, <2>2
<1>8. \A j \in 1 .. n : Follows(k[j], k[j + 1], g2, o2)
  <2> TAKE j \in 1 .. n
  <2>1. k[j] = h[j]
    BY <1>4
  <2>2. CASE j = n
    BY <2>1, <2>2, <1>2, <1>4
  <2>3. CASE j < n
    <3>1. k[j + 1] = h[j + 1]
      BY <2>3, <1>2, <1>4
    <3>2. Follows(h[j], h[j + 1], g, o)
      BY <2>3, <1>2 DEF Trace
    <3>3. h[j].m \in Nat /\ h[j].n \in Nat
      BY <1>5 DEF IsSnap
    <3>5. Follows(h[j], h[j + 1], g2, o2)
      BY <3>2, <3>3, FollowsStays
    <3> QED BY <2>1, <3>1, <3>5
  <2> QED BY <1>2, <2>2, <2>3
<1>9. k[1] = Started
  BY <1>2, <1>4 DEF Trace
<1>10. Trace(k, g2, o2, T)
  <2>1. \E S : k \in Seq(S)
    BY <1>3
  <2>2. Len(k) - 1 = n
    BY <1>2, <1>3
  <2> QED BY <1>2, <1>3, <1>7, <1>8, <1>9, <2>1, <2>2 DEF Trace
<1> QED BY <1>2, <1>3, <1>4, <1>10 DEF k

\* An encoder's step, from the trace of its past to that of what it is now.
LEMMA EncodingStep ==
  ASSUME Bytes, NEW T, KeepsPromise(T), CoderTypes, CoderTypes', Encoding(T),
         Extends(msg, msg'), Extends(out, out'),
         Follows(Snap(low, range, pc, tables, ctx, Len(out), Len(msg)),
                 Snap(low', range', pc', tables', ctx', Len(out'), Len(msg')), msg', out')
  PROVE  Encoding(T)'
<1> DEFINE a == Snap(low, range, pc, tables, ctx, Len(out), Len(msg))
           b == Snap(low', range', pc', tables', ctx', Len(out'), Len(msg'))
<1>1. PICK h : Trace(h, msg, out, T) /\ h[Len(h)] = a
  BY DEF Encoding
<1>2. Follows(h[Len(h)], b, msg', out')
  BY <1>1
<1> HIDE DEF a, b
<1>3. msg \in Seq(Symbols) /\ msg' \in Seq(Symbols) /\ out \in Seq(0 .. 255)
      /\ out' \in Seq(0 .. 255)
  BY DEF CoderTypes
<1>4. Trace(Append(h, b), msg', out', T) /\ Append(h, b)[Len(Append(h, b))] = b
  BY <1>1, <1>2, <1>3, TraceGrows
<1> QED BY <1>4, Zenon DEF Encoding, b

LEMMA InitCoder == ASSUME Bytes, NEW T, KeepsPromise(T), Init PROVE CoderInv(T)
<1> DEFINE h == <<Started>>
<1>1. Started = Snap(low, range, pc, tables, ctx, 0, 0)
  BY Widths DEF Init, IntervalInit, Started
<1>2. 0 \in Symbols /\ NumSymbols \in Nat
  BY FenwickAssumption DEF Symbols
<1>3. FreshModel \in [Symbols -> T]
  BY DEF FreshModel, KeepsPromise
<1>4. IsSnap(Started, T)
  BY <1>2, <1>3 DEF IsSnap, Started, Snap, IsInterval
<1>5. Trace(h, msg, out, T) /\ h[Len(h)] = Started
  <2>1. h \in Seq({Started}) /\ Len(h) = 1 /\ h[1] = Started
    OBVIOUS
  <2> HIDE DEF h
  <2> QED BY <2>1, <1>4 DEF Trace
<1>6. Len(out) = 0 /\ Len(msg) = 0
  BY DEF Init
<1> HIDE DEF h
<1>7. Encoding(T)
  BY <1>1, <1>5, <1>6, Zenon DEF Encoding
<1>8. CoderTypes
  BY DEF Init, IntervalInit, CoderTypes
<1> QED BY <1>7, <1>8 DEF CoderInv, Init

\* An encoder is at the end of its trace.
LEMMA EncoderIs ==
  ASSUME NEW T, Encoding(T)
  PROVE  IsSnap(Snap(low, range, pc, tables, ctx, Len(out), Len(msg)), T)
<1>1. PICK h : /\ Trace(h, msg, out, T)
               /\ h[Len(h)] = Snap(low, range, pc, tables, ctx, Len(out), Len(msg))
  BY DEF Encoding
<1>2. Len(h) \in 1 .. Len(h)
  BY <1>1 DEF Trace
<1> QED BY <1>1, <1>2, Zenon DEF Trace

LEMMA ExtendsSame == ASSUME NEW S, NEW s \in Seq(S) PROVE Extends(s, s)
BY DEF Extends

LEMMA ExtendsAppend ==
  ASSUME NEW S, NEW s \in Seq(S), NEW x \in S
  PROVE  /\ Extends(s, Append(s, x)) /\ Append(s, x) \in Seq(S)
         /\ Len(Append(s, x)) = Len(s) + 1 /\ Append(s, x)[Len(s) + 1] = x
BY DEF Extends

LEMMA EncodeSymbolInv ==
  ASSUME Bytes, NEW T, KeepsPromise(T), CoderInv(T), NEW sym \in Symbols, EncodeSymbol(sym)
  PROVE  CoderInv(T)'
<1> DEFINE a == Snap(low, range, pc, tables, ctx, Len(out), Len(msg))
           b == Snap(low', range', pc', tables', ctx', Len(out'), Len(msg'))
<1>1. CoderTypes /\ Encoding(T) /\ got = <<>> /\ side = "encode"
  BY DEF CoderInv, EncodeSymbol
<1>2. /\ msg' = Append(msg, sym) /\ side' = side /\ out' = out /\ got' = got
      /\ pc = "ready" /\ pc' = "normalize"
  BY DEF EncodeSymbol, Narrow
<1>3. /\ Extends(msg, msg') /\ msg' \in Seq(Symbols) /\ Len(msg') = Len(msg) + 1
      /\ msg'[Len(msg) + 1] = sym
  BY <1>1, <1>2, ExtendsAppend DEF CoderTypes
<1>4. Extends(out, out')
  BY <1>1, <1>2, ExtendsSame DEF CoderTypes
<1>5. CoderTypes'
  BY <1>1, <1>2, <1>3 DEF CoderTypes
<1>6. CodesSymbol(a, b, msg')
  <2>1. a.pc = "ready" /\ a.m = Len(msg) /\ a.tables = tables /\ a.ctx = ctx /\ a.range = range
        /\ a.low = low /\ a.n = Len(out)
    BY <1>2 DEF Snap
  <2>2. a.m < Len(msg')
    <3>1. Len(msg) \in Nat
      BY <1>1 DEF CoderTypes
    <3> QED BY <1>3, <2>1, <3>1
  <2>3. msg'[a.m + 1] = sym
    BY <1>3, <2>1
  <2> DEFINE t == tables[ctx]
             share == range \div t.total
  <2>4. /\ low' = (low + CumFreq(t, sym) * share) % Word
        /\ range' = (share * FreqOf(t, sym)) % Word
        /\ tables' = [tables EXCEPT ![ctx] = Updated(t, sym)] /\ ctx' = sym
    BY DEF EncodeSymbol, Narrow, Learn
  <2> HIDE DEF a
  <2>5. b = Snap((a.low + CumFreq(t, sym) * share) % Word, (share * FreqOf(t, sym)) % Word,
                 "normalize", [tables EXCEPT ![ctx] = Updated(t, sym)], sym, a.n, a.m + 1)
    BY <1>2, <1>3, <2>1, <2>4
  <2> HIDE DEF b
  <2> QED BY <2>1, <2>2, <2>3, <2>5, Zenon DEF CodesSymbol
<1>7. Follows(a, b, msg', out')
  BY <1>6, Zenon DEF Follows
<1> HIDE DEF a, b
<1>8. Encoding(T)'
  BY <1>1, <1>3, <1>4, <1>5, <1>7, EncodingStep, Zenon DEF a, b
<1> QED BY <1>1, <1>2, <1>5, <1>8 DEF CoderInv

LEMMA EncodeByteInv ==
  ASSUME Bytes, NEW T, KeepsPromise(T), CoderInv(T), side = "encode", Shift, ShiftBytes,
         UNCHANGED <<side, tables, ctx, msg, got>>
  PROVE  CoderInv(T)'
<1> DEFINE a == Snap(low, range, pc, tables, ctx, Len(out), Len(msg))
           b == Snap(low', range', pc', tables', ctx', Len(out'), Len(msg'))
           d == low \div Top
<1>1. CoderTypes /\ Encoding(T) /\ got = <<>>
  BY DEF CoderInv
<1>2. out' = Append(out, d) /\ pc = "normalize" /\ pc' = "normalize"
  BY DEF ShiftBytes, Shift, ShiftSettled, ShiftForced, ShiftWith
<1>3. d \in 0 .. 255
  <2>1. low \in Nat /\ low < 4294967296
    BY <1>1, EncoderIs DEF IsSnap, IsInterval, Snap
  <2> QED BY <2>1, Widths
<1>4. Extends(msg, msg')
  BY <1>1, ExtendsSame DEF CoderTypes
<1>5. /\ Extends(out, out') /\ out' \in Seq(0 .. 255) /\ Len(out') = Len(out) + 1
      /\ out'[Len(out) + 1] = d
  BY <1>1, <1>2, <1>3, ExtendsAppend DEF CoderTypes
<1>6. CoderTypes'
  BY <1>1, <1>2, <1>5 DEF CoderTypes
<1>7. WritesByte(a, b, out')
  <2>1. a.pc = "normalize" /\ a.n = Len(out) /\ a.low = low /\ a.range = range
        /\ a.tables = tables /\ a.ctx = ctx /\ a.m = Len(msg)
    BY <1>2 DEF Snap
  <2>2. a.n < Len(out') /\ out'[a.n + 1] = low \div 16777216
    <3>1. Len(out) \in Nat
      BY <1>1 DEF CoderTypes
    <3> QED BY <1>5, <2>1, <3>1, Widths
  <2>3. /\ IsSettled(a) \/ a.range < 65536
        /\ low' = (low * 256) % 4294967296 /\ range' = (Kept(low, range) * 256) % 4294967296
    <3> HIDE DEF a
    <3> QED BY <2>1, Widths
            DEF Bytes, Shift, ShiftSettled, ShiftForced, Settled, ShiftWith, Kept, IsSettled
  <2>4. b = Snap((low * 256) % 4294967296, (Kept(low, range) * 256) % 4294967296,
                 "normalize", tables, ctx, Len(out) + 1, Len(msg))
    BY <1>2, <1>5, <2>3
  <2> HIDE DEF a, b
  <2> QED BY <2>1, <2>2, <2>3, <2>4 DEF WritesByte
<1>8. Follows(a, b, msg', out')
  BY <1>7, Zenon DEF Follows
<1> HIDE DEF a, b
<1>9. Encoding(T)'
  BY <1>1, <1>4, <1>5, <1>6, <1>8, EncodingStep, Zenon DEF a, b
<1> QED BY <1>1, <1>6, <1>9 DEF CoderInv

LEMMA EncodeReadyInv ==
  ASSUME Bytes, NEW T, KeepsPromise(T), CoderInv(T), side = "encode", Normalized,
         UNCHANGED coderVars
  PROVE  CoderInv(T)'
<1> DEFINE a == Snap(low, range, pc, tables, ctx, Len(out), Len(msg))
           b == Snap(low', range', pc', tables', ctx', Len(out'), Len(msg'))
<1>1. CoderTypes /\ Encoding(T) /\ got = <<>>
  BY DEF CoderInv
<1>2. /\ side' = side /\ msg' = msg /\ out' = out /\ got' = got /\ tables' = tables
      /\ ctx' = ctx /\ low' = low /\ range' = range /\ pc = "normalize" /\ pc' = "ready"
  BY DEF coderVars, Normalized
<1>3. Extends(msg, msg') /\ Extends(out, out')
  BY <1>1, <1>2, ExtendsSame DEF CoderTypes
<1>4. CoderTypes'
  BY <1>1, <1>2 DEF CoderTypes
<1>5. GetsReady(a, b)
  <2>1. a.pc = "normalize" /\ a.n = Len(out) /\ a.low = low /\ a.range = range
        /\ a.tables = tables /\ a.ctx = ctx /\ a.m = Len(msg)
    BY <1>2 DEF Snap
  <2>2. b = Snap(low, range, "ready", tables, ctx, Len(out), Len(msg))
    BY <1>2
  <2> HIDE DEF a, b
  <2>3. ~ IsSettled(a) /\ a.range >= 65536
    BY <2>1, Widths DEF Normalized, Settled, IsSettled
  <2> QED BY <2>1, <2>2, <2>3 DEF GetsReady
<1>6. Follows(a, b, msg', out')
  BY <1>5, Zenon DEF Follows
<1> HIDE DEF a, b
<1>7. Encoding(T)'
  BY <1>1, <1>3, <1>4, <1>6, EncodingStep, Zenon DEF a, b
<1> QED BY <1>1, <1>2, <1>4, <1>7 DEF CoderInv

\* A set of numbers has a least one.
LEMMA LeastNat ==
  ASSUME NEW N, N \subseteq Nat, N # {}
  PROVE  \E x \in N : \A y \in N : x <= y
<1> DEFINE Less == {p \in Nat \X Nat : p[1] < p[2]}
<1>1. IsWellFoundedOn(Less, Nat)
  BY NatLessThanWellFounded DEF OpToRel
<1>2. \A x, y \in Nat : y < x => <<y, x>> \in Less
  OBVIOUS
<1> HIDE DEF Less
<1>3. PICK x \in N : \A y \in N : ~ (<<y, x>> \in Less)
  BY <1>1, WFMin, Zenon
<1>4. ASSUME NEW y \in N PROVE x <= y
  <2>1. x \in Nat /\ y \in Nat
    OBVIOUS
  <2>2. ~ (y < x)
    BY <1>2, <1>3, <2>1, Zenon
  <2> QED BY <2>1, <2>2
<1> QED BY <1>4

\* The bytes lie in the first interval of a trace, and in all of them, if they lie in the
\* last.
LEMMA AllHit ==
  ASSUME Bytes, NEW T, KeepsPromise(T), NEW g \in Seq(Symbols), NEW o \in Seq(0 .. 255),
         NEW h, Trace(h, g, o, T), Hits(h[Len(h)], o)
  PROVE  \A j \in 1 .. Len(h) : Hits(h[j], o)
<1>1. PICK n \in Nat : n = Len(h) /\ n > 0
  BY DEF Trace
<1> DEFINE N == {k \in Nat : k < n /\ ~ Hits(h[n - k], o)}
<1>2. N = {}
  <2> SUFFICES ASSUME N # {} PROVE FALSE
    OBVIOUS
  <2>0. N \subseteq Nat
    OBVIOUS
  <2>1. PICK k \in N : \A i \in N : k <= i
    <3> HIDE DEF N
    <3> QED BY <2>0, LeastNat, Zenon
  <2>2. k \in Nat /\ k < n /\ ~ Hits(h[n - k], o)
    OBVIOUS
  <2>3. k # 0
    BY <1>1, <2>2
  <2>4. PICK i \in Nat : k = i + 1
    <3>1. k - 1 \in Nat /\ k = (k - 1) + 1
      BY <2>2, <2>3
    <3> QED BY <3>1
  <2>5. i \notin N
    BY <2>1, <2>4
  <2>6. Hits(h[n - i], o)
    BY <1>1, <2>2, <2>4, <2>5
  <2>7. PICK j \in 1 .. n - 1 : j = n - k /\ j + 1 = n - i
    <3>1. n - k \in 1 .. n - 1 /\ (n - k) + 1 = n - i
      BY <1>1, <2>2, <2>3, <2>4
    <3> QED BY <3>1
  <2>8. Follows(h[j], h[j + 1], g, o) /\ IsSnap(h[j], T)
    <3>1. j \in 1 .. Len(h) - 1 /\ j \in 1 .. Len(h)
      BY <1>1, <2>7
    <3> QED BY <3>1, Zenon DEF Trace
  <2>9. Hits(h[j], o)
    BY <2>6, <2>7, <2>8, HitsBack
  <2> QED BY <2>2, <2>7, <2>9
<1>3. ASSUME NEW j \in 1 .. n PROVE Hits(h[j], o)
  <2>1. n - j \in Nat /\ n - j < n /\ n - (n - j) = j
    BY <1>1
  <2>2. n - j \notin N
    <3> HIDE DEF N
    <3> QED BY <1>2
  <2>3. n - j \in Nat /\ n - j < n => Hits(h[n - (n - j)], o)
    BY <2>2, Zenon
  <2> QED BY <2>1, <2>3
<1> QED BY <1>1, <1>3

LEMMA TraceStays ==
  ASSUME NEW T, NEW g, NEW g2, NEW o, NEW o2, Extends(g, g2), Extends(o, o2),
         NEW h, Trace(h, g, o, T)
  PROVE  Trace(h, g2, o2, T)
<1>1. ASSUME NEW j \in 1 .. Len(h) - 1 PROVE Follows(h[j], h[j + 1], g2, o2)
  <2>1. Follows(h[j], h[j + 1], g, o)
    BY DEF Trace
  <2>2. j \in 1 .. Len(h)
    BY DEF Trace
  <2>3. h[j].m \in Nat /\ h[j].n \in Nat
    BY <2>2 DEF Trace, IsSnap
  <2> QED BY <2>1, <2>3, FollowsStays
<1> QED BY <1>1 DEF Trace

IsSplit(n, q, m) == q \in Nat /\ m \in 0 .. 255 /\ n = q * 256 + m

LEMMA LastByte == ASSUME NEW n \in Nat PROVE \E q, m : IsSplit(n, q, m)
<1> DEFINE q == n \div 256
           m == n - 256 * q
<1>1. q \in Nat /\ m \in 0 .. 255 /\ n = q * 256 + m
  OBVIOUS
<1>2. IsSplit(n, q, m)
  BY <1>1 DEF IsSplit
<1> QED BY <1>2

\* The four bytes of a number.
LEMMA DigitsOf ==
  ASSUME Bytes, NEW x, IsWord(x), NEW o \in Seq(0 .. 255)
  PROVE  /\ o \o Digits(x) \in Seq(0 .. 255) /\ Extends(o, o \o Digits(x))
         /\ WordAt(o \o Digits(x), Len(o)) = x
<1>1. x \in Nat /\ x < 4294967296
  BY DEF IsWord
<1>2. PICK y1, d : IsSplit(x, y1, d)
  <2>1. x \in Nat
    BY <1>1
  <2> QED BY <2>1, LastByte, Zenon
<1>3. PICK y2, c : IsSplit(y1, y2, c)
  <2>1. y1 \in Nat
    BY <1>2 DEF IsSplit
  <2> QED BY <2>1, LastByte, Zenon
<1>4. PICK a, b : IsSplit(y2, a, b)
  <2>1. y2 \in Nat
    BY <1>3 DEF IsSplit
  <2> QED BY <2>1, LastByte, Zenon
<1>5. a \in Nat /\ b \in 0 .. 255 /\ c \in 0 .. 255 /\ d \in 0 .. 255
  BY <1>2, <1>3, <1>4 DEF IsSplit
<1>6. x = a * 16777216 + b * 65536 + c * 256 + d
  BY <1>2, <1>3, <1>4 DEF IsSplit
<1>7. a \in 0 .. 255
  BY <1>1, <1>5, <1>6
<1>8. Digits(x) = <<a, b, c, d>>
  <2>1. x \div 16777216 = a
    BY <1>5, <1>6, <1>7
  <2>2. (x \div 65536) % 256 = b
    <3>1. x \div 65536 = a * 256 + b
      BY <1>5, <1>6, <1>7
    <3> QED BY <1>5, <3>1
  <2>3. (x \div 256) % 256 = c
    <3>1. x \div 256 = (a * 256 + b) * 256 + c
      BY <1>5, <1>6, <1>7
    <3> QED BY <1>5, <3>1
  <2>4. x % 256 = d
    BY <1>5, <1>6, <1>7
  <2>5. Digits(x) = <<x \div 16777216, (x \div 65536) % 256, (x \div 256) % 256, x % 256>>
    BY Widths DEF Digits, Bytes
  <2> QED BY <2>1, <2>2, <2>3, <2>4, <2>5
<1> DEFINE y == <<a, b, c, d>>
           p == o \o y
<1>9. y \in Seq(0 .. 255) /\ Len(y) = 4
  BY <1>5, <1>7
<1>10. PICK n \in Nat : n = Len(o)
  BY LenProperties
<1>11. /\ p \in Seq(0 .. 255) /\ Len(p) = n + 4
       /\ \A i \in 1 .. n + 4 : p[i] = IF i <= n THEN o[i] ELSE y[i - n]
  <2>1. /\ p \in Seq(0 .. 255) /\ Len(p) = Len(o) + Len(y)
        /\ \A i \in 1 .. Len(o) + Len(y) : p[i] = IF i <= Len(o) THEN o[i] ELSE y[i - Len(o)]
    <3> HIDE DEF y
    <3> QED BY <1>9, ConcatProperties, Zenon
  <2> HIDE DEF p, y
  <2> QED BY <1>9, <1>10, <2>1
<1>12. p[n + 1] = a /\ p[n + 2] = b /\ p[n + 3] = c /\ p[n + 4] = d
  <2>1. \A i \in 1 .. n + 4 : i > n => p[i] = y[i - n]
    <3> HIDE DEF p, y
    <3> QED BY <1>11
  <2>2. /\ n + 1 \in 1 .. n + 4 /\ n + 2 \in 1 .. n + 4 /\ n + 3 \in 1 .. n + 4
        /\ n + 4 \in 1 .. n + 4 /\ n + 1 > n /\ n + 2 > n /\ n + 3 > n /\ n + 4 > n
        /\ n + 1 - n = 1 /\ n + 2 - n = 2 /\ n + 3 - n = 3 /\ n + 4 - n = 4
    OBVIOUS
  <2>3. y[1] = a /\ y[2] = b /\ y[3] = c /\ y[4] = d
    OBVIOUS
  <2> HIDE DEF p, y
  <2> QED BY <2>1, <2>2, <2>3
<1>13. p = o \o Digits(x)
  BY <1>8, Zenon
<1> HIDE DEF p, y
<1>14. WordAt(p, n) = x
  BY <1>6, <1>11, <1>12 DEF WordAt, ByteOf
<1>15. Extends(o, p)
  BY <1>10, <1>11 DEF Extends
<1> QED BY <1>10, <1>11, <1>13, <1>14, <1>15

LEMMA FinishInv ==
  ASSUME Bytes, NEW T, KeepsPromise(T), CoderInv(T), Finish
  PROVE  CoderInv(T)'
<1> DEFINE a == Snap(low, range, pc, tables, ctx, Len(out), Len(msg))
<1>1. CoderTypes /\ Encoding(T) /\ got = <<>> /\ pc = "ready"
  BY DEF CoderInv, Finish
<1>2. PICK h : Trace(h, msg, out, T) /\ h[Len(h)] = a
  BY <1>1 DEF Encoding
<1>3. /\ out' = out \o Digits(low) /\ side' = "decode" /\ pos' = 4 /\ low' = 0
      /\ range' = Word - 1 /\ tables' = FreshModel /\ ctx' = 0 /\ pc' = pc /\ msg' = msg
      /\ got' = got
      /\ code' = ByteOf(out', 1) * Top + ByteOf(out', 2) * Bot + ByteOf(out', 3) * Base
                   + ByteOf(out', 4)
  BY DEF Finish, StartDecoder
<1>4. /\ a.low = low /\ a.range = range /\ a.pc = "ready" /\ a.n = Len(out) /\ a.m = Len(msg)
  BY <1>1 DEF Snap
<1>5. IsInterval(low, range)
  <2>1. IsSnap(a, T)
    BY <1>1, EncoderIs
  <2> HIDE DEF a
  <2> QED BY <1>4, <2>1 DEF IsSnap
<1> HIDE DEF a
<1>6. IsWord(low)
  BY <1>5 DEF IsWord, IsInterval
<1>7. msg \in Seq(Symbols) /\ out \in Seq(0 .. 255)
  BY <1>1 DEF CoderTypes
<1>8. out' \in Seq(0 .. 255) /\ Extends(out, out') /\ WordAt(out', Len(out)) = low
  BY <1>3, <1>6, <1>7, DigitsOf
<1>9. Trace(h, msg, out', T)
  BY <1>2, <1>7, <1>8, ExtendsSame, TraceStays
<1>10. Hits(a, out')
  BY <1>4, <1>5, <1>8 DEF Hits, IsInterval
<1>11. \A j \in 1 .. Len(h) : Hits(h[j], out')
  BY <1>2, <1>7, <1>8, <1>9, <1>10, AllHit
<1>12. h[1] = Snap(low', range', pc', tables', ctx', pos' - 4, Len(got'))
  <2>1. pos' - 4 = 0 /\ Len(got') = 0 /\ range' = 4294967295 /\ pc' = "ready"
    BY <1>1, <1>3, Widths
  <2>2. h[1] = Started
    BY <1>9 DEF Trace
  <2> QED BY <1>3, <2>1, <2>2 DEF Started
<1>13. code' = WordAt(out', pos' - 4)
  <2>1. pos' - 4 = 0
    BY <1>3
  <2>2. code' = ByteOf(out', 1) * 16777216 + ByteOf(out', 2) * 65536 + ByteOf(out', 3) * 256
                  + ByteOf(out', 4)
    <3>1. /\ ByteOf(out', 1) \in 0 .. 255 /\ ByteOf(out', 2) \in 0 .. 255
          /\ ByteOf(out', 3) \in 0 .. 255
      BY <1>8, ByteIs
    <3>2. code' = ByteOf(out', 1) * Top + ByteOf(out', 2) * Bot + ByteOf(out', 3) * Base
                    + ByteOf(out', 4)
      BY <1>3
    <3> QED BY <3>1, <3>2, Widths DEF Bytes
  <2>3. code' = WordAt(out', 0)
    <3>1. 0 + 1 = 1 /\ 0 + 2 = 2 /\ 0 + 3 = 3 /\ 0 + 4 = 4
      OBVIOUS
    <3> QED BY <2>2, <3>1 DEF WordAt
  <2> QED BY <2>1, <2>3
<1>14. h[Len(h)].m = Len(msg) /\ h[Len(h)].pc = "ready"
  BY <1>2, <1>4
<1>15. DecodingAt(h, 1, T)'
  BY <1>3, <1>9, <1>11, <1>12, <1>13, <1>14 DEF DecodingAt
<1>16. 1 \in 1 .. Len(h)
  BY <1>9 DEF Trace
<1>17. CoderTypes'
  BY <1>1, <1>3, <1>8 DEF CoderTypes
<1>18. Len(got') <= Len(msg') /\ \A i \in 1 .. Len(got') : got'[i] = msg'[i]
  BY <1>1, <1>3, <1>7
<1>19. \E k : \E t \in 1 .. Len(k) : DecodingAt(k, t, T)'
  BY <1>15, <1>16, Zenon
<1> QED BY <1>3, <1>17, <1>18, <1>19 DEF CoderInv

\* What lies between q and q + f shares of s is divided to a number between q and q + f.
LEMMA DivBetween ==
  ASSUME NEW n \in Nat, NEW s \in Nat, s > 0, NEW q \in Nat, NEW f \in Nat,
         q * s <= n, n < q * s + f * s
  PROVE  n \div s \in Nat /\ q <= n \div s /\ n \div s < q + f
<1>1. PICK x \in Nat : x = n \div s /\ s * x <= n /\ n < s * x + s
  <2>1. n \div s \in Nat /\ s * (n \div s) <= n /\ n < s * (n \div s) + s
    OBVIOUS
  <2> QED BY <2>1
<1>2. q <= x
  <2> SUFFICES ASSUME x + 1 <= q PROVE FALSE
    BY <1>1
  <2>1. (x + 1) * s <= q * s /\ (x + 1) * s \in Nat /\ q * s \in Nat
    BY Monotone
  <2>2. (x + 1) * s = s * x + s
    OBVIOUS
  <2> QED BY <1>1, <2>1, <2>2
<1>3. x < q + f
  <2> SUFFICES ASSUME q + f <= x PROVE FALSE
    BY <1>1
  <2>1. (q + f) * s <= x * s /\ (q + f) * s \in Nat /\ x * s \in Nat
    BY Monotone
  <2>2. (q + f) * s = q * s + f * s /\ x * s = s * x
    OBVIOUS
  <2> QED BY <1>1, <2>1, <2>2
<1> QED BY <1>1, <1>2, <1>3

\* The symbols decoded so far.
Matches == Len(got) <= Len(msg) /\ \A i \in 1 .. Len(got) : got[i] = msg[i]

\* A decoder at a step of the trace before the last one, and the step that follows there.
LEMMA DecoderIs ==
  ASSUME Bytes, NEW T, CoderTypes, NEW h, NEW t \in 1 .. Len(h), DecodingAt(h, t, T),
         pc = "normalize" \/ Len(got) < Len(msg)
  PROVE  /\ t + 1 \in 1 .. Len(h) /\ IsSnap(h[t], T) /\ IsSnap(h[t + 1], T)
         /\ h[t] = Snap(low, range, pc, tables, ctx, pos - 4, Len(got))
         /\ Follows(h[t], h[t + 1], msg, out) /\ Hits(h[t + 1], out)
<1>1. Len(h) \in Nat /\ t \in Nat /\ t <= Len(h)
  BY DEF DecodingAt, Trace
<1>2. h[t] = Snap(low, range, pc, tables, ctx, pos - 4, Len(got))
  BY DEF DecodingAt
<1>3. t # Len(h)
  <2>1. h[t].m = Len(got) /\ h[t].pc = pc
    BY <1>2 DEF Snap
  <2>2. h[Len(h)].m = Len(msg) /\ h[Len(h)].pc = "ready"
    BY DEF DecodingAt
  <2>3. Len(got) \in Nat /\ Len(msg) \in Nat
    BY DEF CoderTypes
  <2> QED BY <2>1, <2>2, <2>3
<1>4. t \in 1 .. Len(h) - 1 /\ t + 1 \in 1 .. Len(h)
  BY <1>1, <1>3
<1> QED BY <1>2, <1>4 DEF DecodingAt, Trace

\* After a step to the next one.
LEMMA DecodingMoves ==
  ASSUME NEW T, NEW h, NEW t \in 1 .. Len(h), DecodingAt(h, t, T), t + 1 \in 1 .. Len(h),
         msg' = msg, out' = out, pos' \in Nat, code' = WordAt(out, pos' - 4),
         h[t + 1] = Snap(low', range', pc', tables', ctx', pos' - 4, Len(got'))
  PROVE  \E k : \E i \in 1 .. Len(k) : DecodingAt(k, i, T)'
<1>1. DecodingAt(h, t + 1, T)'
  BY DEF DecodingAt
<1> QED BY <1>1, Zenon

\* What a decoder finds in its table is the next symbol of the message.
LEMMA DecodeFinds ==
  ASSUME Bytes, NEW T, KeepsPromise(T), CoderTypes, pc = "ready", Len(got) < Len(msg),
         NEW h, NEW t \in 1 .. Len(h), DecodingAt(h, t, T)
  PROVE  LET s == msg[Len(got) + 1]
             tab == tables[ctx]
             share == range \div tab.total
             cum == CumFreq(tab, s)
             freq == FreqOf(tab, s)
         IN  /\ s \in Symbols /\ tab \in T
             /\ Find(tab, Target(tab.total)) = [sym |-> s, lo |-> cum]
             /\ t + 1 \in 1 .. Len(h)
             /\ h[t + 1] = Snap((low + cum * share) % Word, (share * freq) % Word, "normalize",
                               [tables EXCEPT ![ctx] = Updated(tab, s)], s, pos - 4,
                               Len(got) + 1)
<1> DEFINE a == h[t]
           b == h[t + 1]
           s == msg[Len(got) + 1]
           tab == tables[ctx]
           share == range \div tab.total
           cum == CumFreq(tab, s)
           freq == FreqOf(tab, s)
<1>4. /\ t + 1 \in 1 .. Len(h) /\ IsSnap(a, T)
      /\ a = Snap(low, range, pc, tables, ctx, pos - 4, Len(got))
      /\ Follows(a, b, msg, out) /\ Hits(b, out)
  BY DecoderIs, Zenon
<1>5. /\ a.low = low /\ a.range = range /\ a.pc = "ready" /\ a.tables = tables /\ a.ctx = ctx
      /\ a.n = pos - 4 /\ a.m = Len(got)
  <2> HIDE DEF a
  <2> QED BY <1>4 DEF Snap
<1> HIDE DEF a, b
<1>6. CodesSymbol(a, b, msg)
  BY <1>4, <1>5 DEF Follows, WritesByte, GetsReady
<1>7. /\ s \in Symbols /\ tab \in T /\ share \in Nat /\ share > 0
      /\ cum * share \in Nat /\ freq * share \in Nat
      /\ b.low = low + cum * share /\ b.range = freq * share /\ b.n = pos - 4
      /\ cum * share + freq * share <= range
  <2>1. msg \in Seq(Symbols)
    BY DEF CoderTypes
  <2> DEFINE s2 == msg[a.m + 1]
             tab2 == a.tables[a.ctx]
             share2 == a.range \div tab2.total
  <2>2. /\ s2 \in Symbols /\ tab2 \in T /\ share2 \in Nat /\ share2 > 0
        /\ CumFreq(tab2, s2) * share2 \in Nat /\ FreqOf(tab2, s2) * share2 \in Nat
        /\ b.low = a.low + CumFreq(tab2, s2) * share2 /\ b.range = FreqOf(tab2, s2) * share2
        /\ b.n = a.n
        /\ CumFreq(tab2, s2) * share2 + FreqOf(tab2, s2) * share2 <= a.range
    BY <1>4, <1>6, <2>1, SymbolKeeps
  <2>3. s2 = s /\ tab2 = tab /\ share2 = share
    BY <1>5
  <2> HIDE DEF s2, tab2, share2, s, tab, share
  <2> QED BY <1>5, <2>2, <2>3 DEF cum, freq
<1>8. b = Snap((low + cum * share) % Word, (share * freq) % Word, "normalize",
               [tables EXCEPT ![ctx] = Updated(tab, s)], s, pos - 4, Len(got) + 1)
  BY <1>5, <1>6 DEF CodesSymbol
<1>9. cum \in Nat /\ freq \in Nat
  BY <1>7, Promise
<1>10. /\ Target(tab.total) \in Nat /\ cum <= Target(tab.total)
       /\ Target(tab.total) < cum + freq
  <2>1. code = WordAt(out, pos - 4) /\ pos - 4 \in Nat /\ out \in Seq(0 .. 255)
    BY <1>4, <1>5 DEF DecodingAt, CoderTypes, IsSnap
  <2>2. IsWord(code)
    BY <2>1, WordMoves, Zenon
  <2>3. b.low <= code /\ code < b.low + b.range
    BY <1>4, <1>7, <2>1 DEF Hits
  <2>4. low \in Nat
    BY <1>4, <1>5 DEF IsSnap, IsInterval
  <2> HIDE DEF share, cum, freq
  <2>5. PICK x, y \in Nat : x = cum * share /\ y = freq * share
    BY <1>7
  <2>6. PICK n \in Nat : n = code - low /\ n < 4294967296
    BY <1>7, <2>2, <2>3, <2>4, <2>5 DEF IsWord
  <2>7. (code - low) % Word = n
    BY <2>6, Widths
  <2>8. x <= n /\ n < x + y
    BY <1>7, <2>2, <2>3, <2>4, <2>5, <2>6 DEF IsWord
  <2>9. /\ n \div share \in Nat /\ cum <= n \div share /\ n \div share < cum + freq
    BY <1>7, <1>9, <2>5, <2>8, DivBetween
  <2>10. Target(tab.total) = n \div share
    BY <2>7 DEF Target, share
  <2> QED BY <2>9, <2>10
<1>11. Find(tab, Target(tab.total)) = [sym |-> s, lo |-> cum]
  BY <1>7, <1>10, Promise
<1> QED BY <1>4, <1>7, <1>8, <1>11 DEF b

LEMMA DecodeSymbolInv ==
  ASSUME Bytes, NEW T, KeepsPromise(T), CoderInv(T), DecodeSymbol
  PROVE  CoderInv(T)'
<1>1. /\ CoderTypes /\ Matches /\ side = "decode" /\ side' = side /\ msg' = msg /\ out' = out
      /\ code' = code /\ pos' = pos /\ Len(got) < Len(msg) /\ pc = "ready"
      /\ pc' = "normalize"
  BY DEF CoderInv, DecodeSymbol, Narrow, Matches
<1>2. PICK h : \E t \in 1 .. Len(h) : DecodingAt(h, t, T)
  BY <1>1 DEF CoderInv
<1>3. PICK t \in 1 .. Len(h) : DecodingAt(h, t, T)
  BY <1>2
<1> DEFINE b == h[t + 1]
           s == msg[Len(got) + 1]
           tab == tables[ctx]
           share == range \div tab.total
           cum == CumFreq(tab, s)
           freq == FreqOf(tab, s)
<1>4. /\ s \in Symbols /\ tab \in T
      /\ Find(tab, Target(tab.total)) = [sym |-> s, lo |-> cum]
      /\ t + 1 \in 1 .. Len(h)
      /\ b = Snap((low + cum * share) % Word, (share * freq) % Word, "normalize",
                  [tables EXCEPT ![ctx] = Updated(tab, s)], s, pos - 4, Len(got) + 1)
  BY <1>1, <1>3, DecodeFinds, Zenon
<1> HIDE DEF b
<1>12. /\ low' = (low + cum * share) % Word /\ range' = (share * freq) % Word
       /\ tables' = [tables EXCEPT ![ctx] = Updated(tab, s)] /\ ctx' = s
       /\ got' = Append(got, s)
  <2>1. LET found == Find(tab, Target(tab.total))
        IN  /\ Narrow(found.lo, FreqOf(tab, found.sym), tab.total)
            /\ Learn(found.sym)
            /\ got' = Append(got, found.sym)
    BY DEF DecodeSymbol
  <2> HIDE DEF tab, s, cum
  <2>2. Narrow(cum, freq, tab.total) /\ Learn(s) /\ got' = Append(got, s)
    BY <1>4, <2>1
  <2> QED BY <2>2 DEF Narrow, Learn, tab
<1>13. /\ got' \in Seq(Symbols) /\ Len(got') = Len(got) + 1
       /\ got'[Len(got) + 1] = s /\ \A i \in 1 .. Len(got) : got'[i] = got[i]
  <2> HIDE DEF s
  <2> QED BY <1>1, <1>4, <1>12 DEF CoderTypes
<1>14. b = Snap(low', range', pc', tables', ctx', pos' - 4, Len(got'))
  BY <1>1, <1>4, <1>12, <1>13
<1>15. \E k : \E i \in 1 .. Len(k) : DecodingAt(k, i, T)'
  <2>1. pos' \in Nat /\ code' = WordAt(out, pos' - 4)
    BY <1>1, <1>3 DEF DecodingAt
  <2> QED BY <1>1, <1>3, <1>4, <1>14, <2>1, DecodingMoves DEF b
<1>16. CoderTypes'
  BY <1>1, <1>13 DEF CoderTypes
<1>17. Matches'
  <2>1. Len(got) \in Nat /\ Len(msg) \in Nat
    BY <1>1 DEF CoderTypes
  <2> QED BY <1>1, <1>13, <2>1 DEF Matches
<1> QED BY <1>1, <1>15, <1>16, <1>17 DEF CoderInv, Matches

LEMMA DecodeByteInv ==
  ASSUME Bytes, NEW T, KeepsPromise(T), CoderInv(T), side # "encode", Shift, ShiftBytes,
         UNCHANGED <<side, tables, ctx, msg, got>>
  PROVE  CoderInv(T)'
<1>1. /\ CoderTypes /\ Matches /\ out' = out /\ pos' = pos + 1
      /\ code' = (code * Base + ByteOf(out, pos + 1)) % Word
      /\ pc = "normalize" /\ pc' = "normalize"
  BY DEF CoderInv, Matches, ShiftBytes, Shift, ShiftSettled, ShiftForced, ShiftWith
<1>2. PICK h : \E t \in 1 .. Len(h) : DecodingAt(h, t, T)
  BY DEF CoderInv
<1>3. PICK t \in 1 .. Len(h) : DecodingAt(h, t, T)
  BY <1>2
<1> DEFINE a == h[t]
           b == h[t + 1]
<1>4. /\ t + 1 \in 1 .. Len(h) /\ IsSnap(a, T)
      /\ a = Snap(low, range, pc, tables, ctx, pos - 4, Len(got))
      /\ Follows(a, b, msg, out)
  BY <1>1, <1>3, DecoderIs, Zenon
<1>5. /\ a.low = low /\ a.range = range /\ a.pc = "normalize" /\ a.tables = tables
      /\ a.ctx = ctx /\ a.n = pos - 4 /\ a.m = Len(got)
  <2> HIDE DEF a
  <2> QED BY <1>1, <1>4 DEF Snap
<1> HIDE DEF a, b
<1>6. /\ IsSettled(a) \/ a.range < 65536
      /\ low' = (low * 256) % 4294967296 /\ range' = (Kept(low, range) * 256) % 4294967296
  BY <1>5, Widths
     DEF Bytes, Shift, ShiftSettled, ShiftForced, Settled, ShiftWith, Kept, IsSettled
<1>7. a.range \in Nat /\ a.n \in Nat
  BY <1>4 DEF IsSnap, IsInterval
<1>8. WritesByte(a, b, out)
  <2>1. ~ GetsReady(a, b) /\ ~ CodesSymbol(a, b, msg)
    BY <1>5, <1>6, <1>7 DEF GetsReady, CodesSymbol
  <2> QED BY <1>4, <2>1 DEF Follows
<1>9. b = Snap((low * 256) % 4294967296, (Kept(low, range) * 256) % 4294967296,
               "normalize", tables, ctx, (pos - 4) + 1, Len(got))
  BY <1>5, <1>8 DEF WritesByte
<1>10. pos \in Nat /\ code = WordAt(out, pos - 4) /\ pos - 4 \in Nat
  BY <1>3, <1>5, <1>7 DEF DecodingAt
<1>11. b = Snap(low', range', pc', tables', ctx', pos' - 4, Len(got'))
  <2>1. pos' - 4 = (pos - 4) + 1
    BY <1>1, <1>10
  <2> QED BY <1>1, <1>6, <1>9, <2>1
<1>12. code' = WordAt(out, pos' - 4)
  <2>1. PICK n \in Nat : n = pos - 4 /\ pos + 1 = n + 5 /\ pos' - 4 = n + 1
    BY <1>1, <1>10
  <2>2. out \in Seq(0 .. 255)
    BY <1>1 DEF CoderTypes
  <2> DEFINE x == WordAt(out, n)
             y == WordAt(out, n + 1)
             e == ByteOf(out, n + 5)
             d == ByteOf(out, n + 1)
  <2>3. IsWord(x) /\ IsWord(y) /\ d \in 0 .. 255 /\ e \in 0 .. 255 /\ Moves(x, d, e, y)
    BY <2>2, WordMoves, Zenon
  <2>4. code' = (x * 256 + e) % 4294967296
    BY <1>1, <1>10, <2>1, Widths DEF Bytes
  <2> HIDE DEF x, y, e, d
  <2>5. (x * 256 + e) % 4294967296 = y
    BY <2>3 DEF IsWord, Moves
  <2> QED BY <2>1, <2>4, <2>5 DEF y
<1>13. pos' \in Nat
  BY <1>1, <1>10
<1>14. \E k : \E i \in 1 .. Len(k) : DecodingAt(k, i, T)'
  BY <1>1, <1>3, <1>4, <1>11, <1>12, <1>13, DecodingMoves DEF b
<1>15. CoderTypes' /\ Matches'
  BY <1>1 DEF CoderTypes, Matches
<1> QED BY <1>1, <1>14, <1>15 DEF CoderInv, Matches

LEMMA DecodeReadyInv ==
  ASSUME Bytes, NEW T, KeepsPromise(T), CoderInv(T), side # "encode", Normalized,
         UNCHANGED coderVars
  PROVE  CoderInv(T)'
<1>1. /\ CoderTypes /\ Matches /\ side' = side /\ msg' = msg /\ out' = out /\ got' = got
      /\ tables' = tables /\ ctx' = ctx /\ low' = low /\ range' = range
      /\ code' = code /\ pos' = pos /\ pc = "normalize" /\ pc' = "ready"
  BY DEF CoderInv, Matches, coderVars, Normalized
<1>2. PICK h : \E t \in 1 .. Len(h) : DecodingAt(h, t, T)
  BY DEF CoderInv
<1>3. PICK t \in 1 .. Len(h) : DecodingAt(h, t, T)
  BY <1>2
<1> DEFINE a == h[t]
           b == h[t + 1]
<1>4. /\ t + 1 \in 1 .. Len(h) /\ IsSnap(a, T)
      /\ a = Snap(low, range, pc, tables, ctx, pos - 4, Len(got))
      /\ Follows(a, b, msg, out)
  BY <1>1, <1>3, DecoderIs, Zenon
<1>5. /\ a.low = low /\ a.range = range /\ a.pc = "normalize" /\ a.tables = tables
      /\ a.ctx = ctx /\ a.n = pos - 4 /\ a.m = Len(got)
  <2> HIDE DEF a
  <2> QED BY <1>1, <1>4 DEF Snap
<1> HIDE DEF a, b
<1>6. ~ IsSettled(a) /\ a.range >= 65536
  BY <1>5, Widths DEF Normalized, Settled, IsSettled
<1>7. a.range \in Nat
  BY <1>4 DEF IsSnap, IsInterval
<1>8. GetsReady(a, b)
  <2>1. ~ WritesByte(a, b, out) /\ ~ CodesSymbol(a, b, msg)
    BY <1>5, <1>6, <1>7 DEF WritesByte, CodesSymbol
  <2> QED BY <1>4, <2>1 DEF Follows
<1>9. b = Snap(low', range', pc', tables', ctx', pos' - 4, Len(got'))
  BY <1>1, <1>5, <1>8 DEF GetsReady
<1>10. pos' \in Nat /\ code' = WordAt(out, pos' - 4)
  BY <1>1, <1>3 DEF DecodingAt
<1>11. \E k : \E i \in 1 .. Len(k) : DecodingAt(k, i, T)'
  BY <1>1, <1>3, <1>4, <1>9, <1>10, DecodingMoves DEF b
<1>12. CoderTypes' /\ Matches'
  BY <1>1 DEF CoderTypes, Matches
<1> QED BY <1>1, <1>11, <1>12 DEF CoderInv, Matches

LEMMA CoderStays ==
  ASSUME NEW T, CoderInv(T), UNCHANGED <<low, range, pc, tables, ctx, msg, out, code, pos, got>>,
         side' = side \/ (side = "decode" /\ side' = "done" /\ Len(got) = Len(msg))
  PROVE  CoderInv(T)'
<1>1. CoderTypes'
  BY DEF CoderInv, CoderTypes
<1>2. side' # "encode" => \E h : \E t \in 1 .. Len(h) : DecodingAt(h, t, T)'
  <2> SUFFICES ASSUME side' # "encode" PROVE \E h : \E t \in 1 .. Len(h) : DecodingAt(h, t, T)'
    OBVIOUS
  <2>1. side # "encode"
    OBVIOUS
  <2>2. PICK h : \E t \in 1 .. Len(h) : DecodingAt(h, t, T)
    BY <2>1 DEF CoderInv
  <2>3. PICK t \in 1 .. Len(h) : DecodingAt(h, t, T)
    BY <2>2
  <2>4. DecodingAt(h, t, T)'
    BY <2>3 DEF DecodingAt
  <2> QED BY <2>4
<1>3. side' = "encode" => got' = <<>> /\ Encoding(T)'
  <2>1. side' = "encode" => got = <<>> /\ Encoding(T)
    BY DEF CoderInv
  <2> QED BY <2>1 DEF Encoding
<1> QED BY <1>1, <1>2, <1>3 DEF CoderInv

\* Whatever the message, the encoder has gone through a trace and the decoder goes
\* through the same one.
THEOREM CoderInvariant == ASSUME Bytes PROVE Spec => []CoderInv(Tables)
<1>0. KeepsPromise(Tables)
  BY TablesPromise
<1>1. Init => CoderInv(Tables)
  BY <1>0, InitCoder
<1>2. CoderInv(Tables) /\ [Next]_vars => CoderInv(Tables)'
  <2> SUFFICES ASSUME CoderInv(Tables), [Next]_vars PROVE CoderInv(Tables)'
    OBVIOUS
  <2>1. CASE \E sym \in Symbols : EncodeSymbol(sym)
    BY <1>0, <2>1, EncodeSymbolInv
  <2>2. CASE Finish
    BY <1>0, <2>2, FinishInv
  <2>3. CASE DecodeSymbol
    BY <1>0, <2>3, DecodeSymbolInv
  <2>4. CASE DecodeDone
    BY <2>4, CoderStays DEF DecodeDone, intervalVars
  <2>5. CASE Shift /\ ShiftBytes /\ UNCHANGED <<side, tables, ctx, msg, got>>
    BY <1>0, <2>5, EncodeByteInv, DecodeByteInv
  <2>6. CASE Normalized /\ UNCHANGED coderVars
    BY <1>0, <2>6, EncodeReadyInv, DecodeReadyInv
  <2>7. CASE UNCHANGED vars
    BY <2>7, CoderStays DEF vars, intervalVars, coderVars
  <2>8. CASE Normalize
    BY <2>5, <2>6, <2>8 DEF Normalize
  <2> QED BY <2>1, <2>2, <2>3, <2>4, <2>7, <2>8 DEF Next
<1> QED BY <1>1, <1>2, PTL DEF Spec

\* The decoder reproduces the message.
THEOREM CoderExact == ASSUME Bytes PROVE Spec => []RoundTrip
<1>1. CoderInv(Tables) => RoundTrip
  <2> SUFFICES ASSUME CoderInv(Tables) PROVE RoundTrip
    OBVIOUS
  <2>1. /\ msg \in Seq(Symbols) /\ got \in Seq(Symbols)
        /\ Len(got) \in Nat /\ Len(msg) \in Nat
    BY DEF CoderInv, CoderTypes
  <2>2. Len(got) <= Len(msg) /\ \A i \in 1 .. Len(got) : got[i] = msg[i]
    BY <2>1 DEF CoderInv, CoderTypes
  <2>3. got = SubSeq(msg, 1, Len(got))
    <3>1. /\ SubSeq(msg, 1, Len(got)) \in Seq(Symbols)
          /\ Len(SubSeq(msg, 1, Len(got))) = Len(got)
          /\ \A i \in 1 .. Len(got) : SubSeq(msg, 1, Len(got))[i] = msg[i]
      BY <2>1, <2>2
    <3> QED BY <2>1, <2>2, <3>1, SeqEqual
  <2>4. side = "done" => got = msg
    <3> SUFFICES ASSUME side = "done" PROVE got = msg
      OBVIOUS
    <3>1. Len(got) = Len(msg)
      BY DEF CoderInv
    <3> QED BY <2>1, <2>2, <3>1, SeqEqual
  <2> QED BY <2>3, <2>4 DEF RoundTrip
<1> QED BY <1>1, CoderInvariant, PTL

\* What the bounds of a table leave to a symbol is what RangeInterval asks of it.
LEMMA SymbolFits ==
  ASSUME Bytes, NEW T, KeepsPromise(T), NEW t \in T, NEW s \in Symbols,
         Narrow(CumFreq(t, s), FreqOf(t, s), t.total)
  PROVE  Interval!NarrowAny
<1> DEFINE cum == CumFreq(t, s)
           freq == FreqOf(t, s)
           tot == t.total
<1>1. /\ tot \in 1 .. MaxTotal /\ cum \in Nat /\ freq \in Nat /\ freq > 0 /\ cum + freq <= tot
  BY Promise, Zenon
<1>2. Narrow(cum, freq, tot)
  OBVIOUS
<1> HIDE DEF cum, freq, tot
<1>3. tot \in 1 .. Interval!Bot /\ cum \in 0 .. tot - 1 /\ freq \in 1 .. tot - cum
  <2>1. Interval!Bot = 65536
    BY Widths DEF Bot, Interval!Bot
  <2>2. MaxTotal \in Nat /\ MaxTotal <= 65536
    BY Limits
  <2>0. tot \in Nat /\ 1 <= tot /\ tot <= MaxTotal
    BY <1>1, <2>2
  <2>3. tot <= 65536
    BY <2>0, <2>2
  <2>4. tot \in Nat /\ tot > 0
    BY <2>0
  <2>5. cum \in 0 .. tot - 1 /\ freq \in 1 .. tot - cum
    BY <1>1, <2>4
  <2> QED BY <2>0, <2>1, <2>3, <2>5
<1>4. Interval!Narrow(cum, freq, tot)
  BY <1>2 DEF Narrow, Interval!Narrow, Word, Interval!Word
<1> QED BY <1>3, <1>4, Zenon DEF Interval!NarrowAny

\* Both directions are runs of RangeInterval: what is proved of every sequence of symbols
\* there holds of the coder.
THEOREM CoderIsInterval ==
  ASSUME Bytes
  PROVE  Spec => ImplementsInterval
<1>0. KeepsPromise(Tables)
  BY TablesPromise
<1>1. Init => Interval!IntervalInit
  BY DEF Init, IntervalInit, Interval!IntervalInit, Word, Interval!Word
<1>2. CoderInv(Tables) /\ [Next]_vars
        => [Interval!IntervalNext \/ side' # side]_intervalVars
  <2> SUFFICES ASSUME CoderInv(Tables), [Next]_vars
               PROVE  Interval!IntervalNext \/ side' # side \/ UNCHANGED intervalVars
    OBVIOUS
  <2>1. ASSUME NEW sym \in Symbols, EncodeSymbol(sym) PROVE Interval!IntervalNext
    <3>1. tables[ctx] \in Tables
      <4> DEFINE a == Snap(low, range, pc, tables, ctx, Len(out), Len(msg))
      <4>1. IsSnap(a, Tables) /\ a.tables = tables /\ a.ctx = ctx
        BY <2>1, <1>0, EncoderIs DEF CoderInv, EncodeSymbol, Snap
      <4> HIDE DEF a
      <4> QED BY <4>1 DEF IsSnap
    <3>2. Narrow(CumFreq(tables[ctx], sym), FreqOf(tables[ctx], sym), tables[ctx].total)
      BY <2>1 DEF EncodeSymbol
    <3> QED BY <3>1, <3>2, <1>0, SymbolFits DEF Interval!IntervalNext
  <2>2. CASE DecodeSymbol
    <3> DEFINE s == msg[Len(got) + 1]
               tab == tables[ctx]
    <3>1. PICK h : \E t \in 1 .. Len(h) : DecodingAt(h, t, Tables)
      BY <2>2 DEF CoderInv, DecodeSymbol
    <3>2. PICK t \in 1 .. Len(h) : DecodingAt(h, t, Tables)
      BY <3>1
    <3>3. /\ s \in Symbols /\ tab \in Tables
          /\ Find(tab, Target(tab.total)) = [sym |-> s, lo |-> CumFreq(tab, s)]
      <4>1. CoderTypes /\ pc = "ready" /\ Len(got) < Len(msg)
        BY <2>2 DEF CoderInv, DecodeSymbol, Narrow
      <4> QED BY <3>2, <4>1, <1>0, DecodeFinds, Zenon
    <3>4. LET found == Find(tab, Target(tab.total))
          IN  Narrow(found.lo, FreqOf(tab, found.sym), tab.total)
      BY <2>2 DEF DecodeSymbol
    <3> HIDE DEF s, tab
    <3>5. Narrow(CumFreq(tab, s), FreqOf(tab, s), tab.total)
      BY <3>3, <3>4
    <3> QED BY <3>3, <3>5, <1>0, SymbolFits DEF Interval!IntervalNext
  <2>3. CASE Finish \/ DecodeDone
    BY <2>3 DEF Finish, StartDecoder, DecodeDone
  <2>4. CASE Normalize
    <3>1. CASE Shift
      BY <3>1 DEF Shift, ShiftSettled, ShiftForced, ShiftWith, Settled, Word, Top, Bot,
              Interval!IntervalNext, Interval!Shift, Interval!ShiftSettled,
              Interval!ShiftForced, Interval!ShiftWith, Interval!Settled, Interval!Word,
              Interval!Top, Interval!Bot
    <3>2. CASE Normalized
      BY <3>2 DEF Normalized, Settled, Word, Top, Bot, Interval!IntervalNext,
              Interval!Normalized, Interval!Settled, Interval!Word, Interval!Top,
              Interval!Bot
    <3> QED BY <2>4, <3>1, <3>2 DEF Normalize
  <2>5. CASE UNCHANGED vars
    BY <2>5 DEF vars
  <2> QED BY <2>1, <2>2, <2>3, <2>4, <2>5 DEF Next
<1> QED BY <1>1, <1>2, CoderInvariant, PTL DEF Spec, ImplementsInterval
-----------------------------------------------------------------------------
(* The rANS coder. First the recursive functions it is made of.             *)

\* A set of numbers that has 0, and with each number the next, has all.
LEMMA Climb ==
  ASSUME NEW n \in Nat, NEW S, 0 \in S, \A l \in 1 .. n : l - 1 \in S => l \in S
  PROVE  \A l \in 0 .. n : l \in S
<1> DEFINE Out == {l \in 0 .. n : l \notin S}
<1> SUFFICES ASSUME Out # {} PROVE FALSE
  OBVIOUS
<1>1. PICK m \in Out : \A l \in Out : m <= l
  <2>1. Out \subseteq Nat
    OBVIOUS
  <2> HIDE DEF Out
  <2> QED BY <2>1, Least
<1>2. m \in 1 .. n /\ m - 1 \in 0 .. n /\ ~ (m <= m - 1)
  OBVIOUS
<1>3. m - 1 \in S
  BY <1>1, <1>2
<1> QED BY <1>1, <1>2, <1>3

\* What starts at c and goes from each value to the next by G.
Evolves(f, n, c, G) == f[0] = c /\ \A l \in 1 .. n : f[l] = G[<<l, f[l - 1]>>]

\* A function on 0 .. n may be given by its first value and the step from one value to
\* the next.
LEMMA Evolution ==
  ASSUME NEW n \in Nat, NEW S, NEW c \in S, NEW G \in [(1 .. n) \X S -> S]
  PROVE  \E f \in [0 .. n -> S] : Evolves(f, n, c, G)
<1> DEFINE Upto(m, f) == f \in [0 .. m -> S] /\ f[0] = c
                         /\ \A l \in 1 .. m : f[l] = G[<<l, f[l - 1]>>]
           T == {m \in 0 .. n : \E f : Upto(m, f)}
<1>1. 0 \in T
  <2>1. Upto(0, [l \in 0 .. 0 |-> c])
    OBVIOUS
  <2> HIDE DEF Upto
  <2> QED BY <2>1
<1>2. ASSUME NEW m \in 1 .. n, m - 1 \in T PROVE m \in T
  <2>1. PICK f : Upto(m - 1, f)
    BY <1>2
  <2>2. m - 1 \in 0 .. m - 1 /\ m \in Nat /\ m # 0
    OBVIOUS
  <2> DEFINE g == [l \in 0 .. m |-> IF l = m THEN G[<<m, f[m - 1]>>] ELSE f[l]]
  <2>3. f[m - 1] \in S
    BY <2>1, <2>2
  <2>4. G[<<m, f[m - 1]>>] \in S
    BY <2>3
  <2>5. \A l \in 0 .. m : l # m => l \in 0 .. m - 1
    BY <2>2
  <2>6. g \in [0 .. m -> S]
    BY <2>1, <2>4, <2>5
  <2>7. g[0] = c
    BY <2>1, <2>2
  <2>8. ASSUME NEW l \in 1 .. m PROVE g[l] = G[<<l, g[l - 1]>>]
    <3>1. l - 1 \in 0 .. m /\ l - 1 # m /\ l \in 0 .. m
      BY <2>2
    <3>2. g[l - 1] = f[l - 1]
      BY <3>1
    <3>3. CASE l = m
      BY <3>1, <3>2, <3>3
    <3>4. CASE l # m
      <4>1. l \in 1 .. m - 1
        BY <2>2, <3>4
      <4> QED BY <2>1, <3>1, <3>2, <3>4, <4>1
    <3> QED BY <3>3, <3>4
  <2>9. Upto(m, g)
    <3> HIDE DEF g
    <3> QED BY <2>6, <2>7, <2>8
  <2> HIDE DEF Upto, g
  <2> QED BY <2>9
<1>3. n \in T
  <2> HIDE DEF T
  <2>1. \A l \in 0 .. n : l \in T
    BY <1>1, <1>2, Climb
  <2> QED BY <2>1
<1> QED BY <1>3 DEF Evolves

\* cum_freq: the running totals of the frequencies.
LEMMA CumulativeIs ==
  ASSUME NEW f \in [ByteValues -> Nat]
  PROVE  /\ Cumulative(f) \in [0 .. Base -> Nat]
         /\ Cumulative(f)[0] = 0
         /\ \A s \in ByteValues : Cumulative(f)[s + 1] = Cumulative(f)[s] + f[s]
<1> DEFINE Eq(t) == t = [s \in 0 .. Base |-> IF s = 0 THEN 0 ELSE t[s - 1] + f[s - 1]]
           cum == CHOOSE t : Eq(t)
<1>1. Cumulative(f) = cum
  BY Zenon DEF Cumulative
<1>2. Eq(cum)
  <2> DEFINE G == [y \in (1 .. Base) \X Nat |-> y[2] + f[y[1] - 1]]
  <2>1. G \in [(1 .. Base) \X Nat -> Nat]
    <3>1. \A s \in 1 .. Base : f[s - 1] \in Nat
      BY ByteAssumption DEF ByteValues
    <3> QED BY <3>1
  <2>2. \A s \in 1 .. Base, v \in Nat : G[<<s, v>>] = v + f[s - 1]
    OBVIOUS
  <2> HIDE DEF G
  <2>3. PICK t \in [0 .. Base -> Nat] : Evolves(t, Base, 0, G)
    <3>1. 0 \in Nat /\ Base \in Nat
      BY ByteAssumption
    <3> QED BY <2>1, <3>1, Evolution, Zenon
  <2>4. ASSUME NEW s \in 0 .. Base PROVE t[s] = IF s = 0 THEN 0 ELSE t[s - 1] + f[s - 1]
    <3>1. CASE s # 0
      <4>1. s \in 1 .. Base /\ s - 1 \in 0 .. Base
        BY <3>1, ByteAssumption
      <4>2. t[s - 1] \in Nat
        BY <4>1
      <4> QED BY <2>2, <2>3, <3>1, <4>1, <4>2 DEF Evolves
    <3> QED BY <2>3, <3>1 DEF Evolves
  <2>5. Eq(t)
    BY <2>4
  <2> QED BY <2>5, Zenon
<1> HIDE DEF cum
<1>3. cum[0] = 0 /\ \A s \in 1 .. Base : cum[s] = cum[s - 1] + f[s - 1]
  <2>1. \A s \in 0 .. Base : cum[s] = IF s = 0 THEN 0 ELSE cum[s - 1] + f[s - 1]
    BY <1>2
  <2>2. 0 \in 0 .. Base /\ \A s \in 1 .. Base : s \in 0 .. Base /\ s # 0
    BY ByteAssumption
  <2>3. cum[0] = 0
    BY <2>1, <2>2
  <2>4. ASSUME NEW s \in 1 .. Base PROVE cum[s] = cum[s - 1] + f[s - 1]
    <3>1. s \in 0 .. Base /\ s # 0
      BY <2>2
    <3> QED BY <2>1, <3>1, Zenon
  <2> QED BY <2>3, <2>4
<1>4. ASSUME NEW s \in ByteValues PROVE s + 1 \in 1 .. Base /\ cum[s + 1] = cum[s] + f[s]
  <2>1. PICK k \in 1 .. Base : k = s + 1 /\ k - 1 = s
    BY ByteAssumption DEF ByteValues
  <2>2. cum[k] = cum[k - 1] + f[k - 1]
    BY <1>3
  <2> QED BY <2>1, <2>2
<1> DEFINE Good == {s \in 0 .. Base : cum[s] \in Nat}
<1>5. 0 \in Good
  BY <1>3, ByteAssumption
<1>6. ASSUME NEW s \in 1 .. Base, s - 1 \in Good PROVE s \in Good
  <2>1. s - 1 \in ByteValues /\ s \in 0 .. Base
    BY ByteAssumption DEF ByteValues
  <2> QED BY <1>3, <1>6, <2>1
<1>7. \A s \in 0 .. Base : s \in Good
  <2> HIDE DEF Good
  <2> QED BY <1>5, <1>6, Climb, ByteAssumption
<1>8. cum \in [0 .. Base -> Nat]
  BY <1>2, <1>7
<1> QED BY <1>1, <1>3, <1>4, <1>8

\* x >> 8 * k.
LEMMA ShiftedIs ==
  ASSUME NEW x \in Nat
  PROVE  /\ Shifted(x) \in [0 .. 4 -> Nat]
         /\ Shifted(x)[0] = x
         /\ \A k \in 1 .. 4 : Shifted(x)[k] = Shifted(x)[k - 1] \div Base
<1> DEFINE Eq(t) == t = [k \in 0 .. 4 |-> IF k = 0 THEN x ELSE t[k - 1] \div Base]
           rest == CHOOSE t : Eq(t)
<1>1. Shifted(x) = rest
  BY Zenon DEF Shifted
<1> DEFINE a == x \div Base
           b == a \div Base
           c == b \div Base
           d == c \div Base
           t == [k \in 0 .. 4 |-> IF k = 0 THEN x ELSE IF k = 1 THEN a ELSE IF k = 2 THEN b
                                  ELSE IF k = 3 THEN c ELSE d]
<1>2. \A n \in Nat : n \div Base \in Nat
  BY ByteAssumption
<1>3. a \in Nat /\ b \in Nat /\ c \in Nat /\ d \in Nat
  BY <1>2
<1>4. Eq(t)
  <2>1. /\ t[0] = x /\ t[1] = a /\ t[2] = b /\ t[3] = c /\ t[4] = d
    OBVIOUS
  <2> HIDE DEF t
  <2>2. \A k \in 0 .. 4 : t[k] = IF k = 0 THEN x ELSE t[k - 1] \div Base
    <3> SUFFICES ASSUME NEW k \in 0 .. 4 PROVE t[k] = IF k = 0 THEN x ELSE t[k - 1] \div Base
      OBVIOUS
    <3>1. k = 0 \/ k = 1 \/ k = 2 \/ k = 3 \/ k = 4
      OBVIOUS
    <3> QED BY <2>1, <3>1
  <2>3. t = [k \in 0 .. 4 |-> t[k]]
    BY DEF t
  <2> QED BY <2>2, <2>3
<1> HIDE DEF t
<1>5. Eq(rest)
  BY <1>4, Zenon
<1> HIDE DEF rest
<1>6. rest[0] = x /\ \A k \in 1 .. 4 : rest[k] = rest[k - 1] \div Base
  <2>1. \A k \in 0 .. 4 : rest[k] = IF k = 0 THEN x ELSE rest[k - 1] \div Base
    BY <1>5
  <2> QED BY <2>1
<1>7. rest[1] \in Nat /\ rest[2] \in Nat /\ rest[3] \in Nat /\ rest[4] \in Nat
  BY <1>2, <1>6
<1>8. \A k \in 0 .. 4 : rest[k] \in Nat
  <2> SUFFICES ASSUME NEW k \in 0 .. 4 PROVE rest[k] \in Nat
    OBVIOUS
  <2>1. k = 0 \/ k = 1 \/ k = 2 \/ k = 3 \/ k = 4
    OBVIOUS
  <2> QED BY <1>6, <1>7, <2>1
<1>9. rest \in [0 .. 4 -> Nat]
  BY <1>5, <1>8
<1> QED BY <1>1, <1>6, <1>9
\* x with the next k bytes of a lane shifted in.
LEMMA RefilledIs ==
  ASSUME NEW l, NEW x \in Nat, \A k \in 1 .. 4 : ByteAt(l, lane[l].pos + k) \in Nat
  PROVE  /\ Refilled(l, x) \in [0 .. 4 -> Nat]
         /\ Refilled(l, x)[0] = x
         /\ \A k \in 1 .. 4 :
              Refilled(l, x)[k] = Refilled(l, x)[k - 1] * Base + ByteAt(l, lane[l].pos + k)
<1> DEFINE byte(k) == ByteAt(l, lane[l].pos + k)
           Eq(t) == t = [k \in 0 .. 4 |-> IF k = 0 THEN x ELSE t[k - 1] * Base + byte(k)]
           state == CHOOSE t : Eq(t)
<1>1. Refilled(l, x) = state
  BY Zenon DEF Refilled
<1>2. byte(1) \in Nat /\ byte(2) \in Nat /\ byte(3) \in Nat /\ byte(4) \in Nat
  OBVIOUS
<1> HIDE DEF byte
<1> DEFINE a == x * Base + byte(1)
           b == a * Base + byte(2)
           c == b * Base + byte(3)
           d == c * Base + byte(4)
           t == [k \in 0 .. 4 |-> IF k = 0 THEN x ELSE IF k = 1 THEN a ELSE IF k = 2 THEN b
                                  ELSE IF k = 3 THEN c ELSE d]
<1>3. \A n, m \in Nat : n * Base + m \in Nat
  BY ByteAssumption
<1>4. Eq(t)
  <2>1. /\ t[0] = x /\ t[1] = a /\ t[2] = b /\ t[3] = c /\ t[4] = d
    OBVIOUS
  <2> HIDE DEF t
  <2>2. \A k \in 0 .. 4 : t[k] = IF k = 0 THEN x ELSE t[k - 1] * Base + byte(k)
    <3> SUFFICES ASSUME NEW k \in 0 .. 4
                 PROVE  t[k] = IF k = 0 THEN x ELSE t[k - 1] * Base + byte(k)
      OBVIOUS
    <3>1. k = 0 \/ k = 1 \/ k = 2 \/ k = 3 \/ k = 4
      OBVIOUS
    <3> QED BY <2>1, <3>1
  <2>3. t = [k \in 0 .. 4 |-> t[k]]
    BY DEF t
  <2> QED BY <2>2, <2>3
<1> HIDE DEF t
<1>5. Eq(state)
  BY <1>4, Zenon
<1> HIDE DEF state
<1>6. state[0] = x /\ \A k \in 1 .. 4 : state[k] = state[k - 1] * Base + byte(k)
  <2>1. \A k \in 0 .. 4 : state[k] = IF k = 0 THEN x ELSE state[k - 1] * Base + byte(k)
    BY <1>5
  <2> QED BY <2>1
<1>7. state[1] \in Nat /\ state[2] \in Nat /\ state[3] \in Nat /\ state[4] \in Nat
  <2>1. /\ state[1] = state[0] * Base + byte(1) /\ state[2] = state[1] * Base + byte(2)
        /\ state[3] = state[2] * Base + byte(3) /\ state[4] = state[3] * Base + byte(4)
    BY <1>6
  <2>2. state[1] \in Nat
    BY <1>2, <1>3, <1>6, <2>1
  <2>3. state[2] \in Nat
    BY <1>2, <1>3, <2>1, <2>2
  <2>4. state[3] \in Nat
    BY <1>2, <1>3, <2>1, <2>3
  <2> QED BY <1>2, <1>3, <2>1, <2>2, <2>3, <2>4
<1>8. \A k \in 0 .. 4 : state[k] \in Nat
  <2> SUFFICES ASSUME NEW k \in 0 .. 4 PROVE state[k] \in Nat
    OBVIOUS
  <2>1. k = 0 \/ k = 1 \/ k = 2 \/ k = 3 \/ k = 4
    OBVIOUS
  <2> QED BY <1>6, <1>7, <2>1
<1>9. state \in [0 .. 4 -> Nat]
  BY <1>5, <1>8
<1> QED BY <1>1, <1>6, <1>9 DEF byte

\* The sizes of a table are powers of two.
LEMMA ScalesAre ==
  ASSUME NEW n \in 0 .. MaxScale
  PROVE  PowerOfTwo[n] \in Nat \ {0}
<1> DEFINE Eq(t) == t = [bits \in 0 .. MaxScale |-> IF bits = 0 THEN 1 ELSE 2 * t[bits - 1]]
           power == CHOOSE t : Eq(t)
<1>1. PowerOfTwo = power
  BY Zenon DEF PowerOfTwo
<1>2. MaxScale \in Nat
  BY RansAssumption
<1>3. Eq(power)
  <2> DEFINE G == [y \in (1 .. MaxScale) \X Nat |-> 2 * y[2]]
  <2>1. G \in [(1 .. MaxScale) \X Nat -> Nat]
    OBVIOUS
  <2>2. \A s \in 1 .. MaxScale, v \in Nat : G[<<s, v>>] = 2 * v
    OBVIOUS
  <2> HIDE DEF G
  <2>3. PICK t \in [0 .. MaxScale -> Nat] : Evolves(t, MaxScale, 1, G)
    <3>1. 1 \in Nat
      OBVIOUS
    <3> QED BY <1>2, <2>1, <3>1, Evolution, Zenon
  <2>4. ASSUME NEW s \in 0 .. MaxScale PROVE t[s] = IF s = 0 THEN 1 ELSE 2 * t[s - 1]
    <3>1. CASE s # 0
      <4>1. s \in 1 .. MaxScale /\ s - 1 \in 0 .. MaxScale
        BY <1>2, <3>1
      <4>2. t[s - 1] \in Nat
        BY <4>1
      <4> QED BY <2>2, <2>3, <3>1, <4>1, <4>2 DEF Evolves
    <3> QED BY <2>3, <3>1 DEF Evolves
  <2>5. Eq(t)
    BY <2>4
  <2> QED BY <2>5, Zenon
<1> HIDE DEF power
<1> DEFINE Good == {bits \in 0 .. MaxScale : power[bits] \in Nat \ {0}}
<1>4. \A bits \in 0 .. MaxScale : power[bits] = IF bits = 0 THEN 1 ELSE 2 * power[bits - 1]
  BY <1>3
<1>5. 0 \in Good
  BY <1>2, <1>4
<1>6. ASSUME NEW s \in 1 .. MaxScale, s - 1 \in Good PROVE s \in Good
  <2>1. s \in 0 .. MaxScale /\ s # 0
    BY <1>2
  <2>2. power[s] = 2 * power[s - 1]
    BY <1>4, <2>1, Zenon
  <2> QED BY <1>6, <2>1, <2>2
<1>7. \A s \in 0 .. MaxScale : s \in Good
  <2> HIDE DEF Good
  <2> QED BY <1>2, <1>5, <1>6, Climb
<1> QED BY <1>1, <1>7
-----------------------------------------------------------------------------
(* One symbol forwards and backwards.                                       *)

\* A table for M slots.
IsTable(f, m) ==
  /\ f \in [ByteValues -> Nat] /\ m \in Nat \ {0}
  /\ m <= Base * Base /\ RansL % m = 0
  /\ Cumulative(f)[Base] = m

\* The states between two symbols.
States == RansL .. RansL * Base - 1

\* The bound a state is brought below before it takes symbol s.
Bound(f, m, s) == ((RansL \div m) * Base) * f[s]

\* State x lost k bytes and took symbol s, and is now y.
Codes(f, m, x, s, k, y) ==
  LET z == Shifted(x)[k]
  IN  /\ s \in ByteValues /\ f[s] > 0
      /\ z < Bound(f, m, s)
      /\ y = (z \div f[s]) * m + (z % f[s]) + Cumulative(f)[s]

LEMMA DivMod ==
  ASSUME NEW n \in Int, NEW b \in Nat \ {0}
  PROVE  /\ n \div b \in Int /\ n % b \in 0 .. b - 1
         /\ n = b * (n \div b) + (n % b)
OBVIOUS

\* A quotient lies where the product says.
LEMMA Quotient ==
  ASSUME NEW n \in Nat, NEW b \in Nat \ {0}, NEW c \in Nat
  PROVE  /\ n \div b \in Nat
         /\ n < c * b => n \div b < c
         /\ c * b <= n => c <= n \div b
<1> DEFINE q == n \div b
           r == n % b
<1>1. q \in Int /\ r \in 0 .. b - 1 /\ n = b * q + r
  BY DivMod
<1>2. q \in Nat
  OBVIOUS
<1> HIDE DEF q, r
<1>3. n = q * b + r
  BY <1>1
<1>4. ASSUME n < c * b PROVE q < c
  <2> SUFFICES ASSUME c <= q PROVE FALSE
    BY <1>2
  <2>1. c * b <= q * b /\ c * b \in Nat /\ q * b \in Nat
    BY <1>2, Monotone
  <2> QED BY <1>1, <1>3, <1>4, <2>1
<1>5. ASSUME c * b <= n PROVE c <= q
  <2> SUFFICES ASSUME q + 1 <= c PROVE FALSE
    BY <1>2
  <2>1. (q + 1) * b <= c * b /\ (q + 1) * b \in Nat /\ c * b \in Nat
    BY <1>2, Monotone
  <2>2. (q + 1) * b = q * b + b
    BY <1>2
  <2> QED BY <1>1, <1>3, <1>5, <2>1, <2>2
<1> QED BY <1>2, <1>4, <1>5 DEF q

\* The shares of the symbols follow one another.
LEMMA Shares ==
  ASSUME NEW f \in [ByteValues -> Nat]
  PROVE  /\ \A s, t \in ByteValues : s < t =>
              Cumulative(f)[s] + f[s] <= Cumulative(f)[t]
         /\ \A s \in ByteValues : /\ Cumulative(f)[s] \in Nat
                                  /\ Cumulative(f)[s] + f[s] <= Cumulative(f)[Base]
<1> DEFINE c == Cumulative(f)
<1>0. Base \in Nat /\ Base > 0
  BY ByteAssumption
<1>1. c \in [0 .. Base -> Nat] /\ \A s \in ByteValues : c[s + 1] = c[s] + f[s]
  BY CumulativeIs
<1> HIDE DEF c
<1>2. ASSUME NEW s \in ByteValues, NEW t \in 0 .. Base, s < t PROVE c[s] + f[s] <= c[t]
  <2> DEFINE Good == {u \in 0 .. Base : s < u => c[s] + f[s] <= c[u]}
  <2>1. 0 \in Good
    BY <1>0 DEF ByteValues
  <2>2. ASSUME NEW u \in 1 .. Base, u - 1 \in Good PROVE u \in Good
    <3>1. PICK v \in ByteValues : v = u - 1 /\ u = v + 1
      BY <1>0 DEF ByteValues
    <3>2. u \in 0 .. Base /\ s \in Int
      BY DEF ByteValues
    <3>3. c[u] = c[v] + f[v] /\ c[v] \in Nat /\ f[v] \in Nat
      BY <1>1, <3>1, <1>0 DEF ByteValues
    <3>4. CASE s = v
      BY <1>1, <3>1, <3>2, <3>3, <3>4
    <3>5. CASE s < v
      <4>1. c[s] + f[s] <= c[v]
        BY <2>2, <3>1, <3>5
      <4>2. c[s] \in Nat /\ f[s] \in Nat /\ c[u] \in Nat
        BY <1>1, <1>0, <3>2 DEF ByteValues
      <4> QED BY <3>2, <3>3, <4>1, <4>2
    <3>6. CASE s > v
      BY <3>1, <3>2, <3>6, <1>0 DEF ByteValues
    <3>7. s = v \/ s < v \/ s > v
      BY <3>2 DEF ByteValues
    <3> QED BY <3>4, <3>5, <3>6, <3>7
  <2>3. \A u \in 0 .. Base : u \in Good
    <3> HIDE DEF Good
    <3> QED BY <1>0, <2>1, <2>2, Climb
  <2> QED BY <1>2, <2>3
<1>3. \A s \in ByteValues : s \in 0 .. Base /\ s < Base /\ c[s] \in Nat
  BY <1>0, <1>1 DEF ByteValues
<1>4. Base \in 0 .. Base
  BY <1>0
<1> QED BY <1>2, <1>3, <1>4 DEF c

\* The parts of a table and of its states.
LEMMA TableParts ==
  ASSUME NEW f, NEW m, IsTable(f, m), NEW s \in ByteValues, f[s] > 0
  PROVE  \E q \in Nat \ {0} :
           /\ q = RansL \div m /\ RansL = q * m
           /\ f[s] \in Nat \ {0} /\ Cumulative(f)[s] \in Nat /\ f[s] + Cumulative(f)[s] <= m
           /\ Bound(f, m, s) = (q * Base) * f[s]
           /\ q * Base \in Nat
<1>1. f[s] \in Nat \ {0} /\ Cumulative(f)[s] \in Nat /\ f[s] + Cumulative(f)[s] <= m
  BY Shares DEF IsTable
<1>2. m \in Nat \ {0} /\ RansL \in Nat \ {0} /\ RansL % m = 0
  BY RansAssumption DEF IsTable
<1> DEFINE q == RansL \div m
<1>3. q \in Int /\ RansL = m * q + (RansL % m)
  BY <1>2, DivMod
<1>4. q \in Nat
  BY <1>2
<1>5. RansL = q * m /\ q # 0
  <2> HIDE DEF q
  <2>1. m * q = q * m /\ m * q \in Nat
    BY <1>2, <1>4
  <2>2. q = 0 => q * m = 0
    BY <1>2
  <2> QED BY <1>2, <1>3, <2>1, <2>2
<1>6. Base \in Nat
  BY ByteAssumption
<1>7. q * Base \in Nat
  <2> HIDE DEF q
  <2> QED BY <1>4, <1>6
<1>8. Bound(f, m, s) = (q * Base) * f[s]
  BY DEF Bound
<1> HIDE DEF q
<1>9. q \in Nat \ {0}
  BY <1>4, <1>5
<1>10. q = RansL \div m
  BY DEF q
<1> QED BY <1>1, <1>5, <1>7, <1>8, <1>9, <1>10

LEMMA Ordering ==
  /\ Base \in Nat \ {0} /\ RansL \in Nat \ {0}
  /\ RansL * Base \in Nat
  /\ \A x \in States : x \in Nat
BY ByteAssumption, RansAssumption DEF States

\* Three products in another order.
LEMMA Swap ==
  ASSUME NEW a \in Nat, NEW b \in Nat, NEW c \in Nat
  PROVE  /\ (a * b) * c = (a * c) * b /\ (a * b) * c = a * (b * c)
         /\ (a * b) * c \in Nat
OBVIOUS

\* No bound exceeds a word, so that x_max does not wrap.
LEMMA BoundFits ==
  ASSUME NEW f, NEW m, IsTable(f, m), NEW s \in ByteValues, f[s] > 0
  PROVE  Bound(f, m, s) \in Nat /\ Bound(f, m, s) <= RansL * Base
         /\ Bound(f, m, s) % Word = Bound(f, m, s)
<1>1. PICK q \in Nat \ {0} :
        /\ RansL = q * m /\ f[s] \in Nat \ {0} /\ Cumulative(f)[s] \in Nat
        /\ f[s] + Cumulative(f)[s] <= m /\ Bound(f, m, s) = (q * Base) * f[s] /\ q * Base \in Nat
  BY TableParts
<1>2. m \in Nat /\ f[s] <= m
  BY <1>1 DEF IsTable
<1>3. f[s] * (q * Base) <= m * (q * Base)
  BY <1>1, <1>2, Monotone
<1>4. f[s] * (q * Base) = (q * Base) * f[s]
  BY <1>1
<1>5. m * (q * Base) = RansL * Base
  <2>1. (q * Base) * m = (q * m) * Base
    BY <1>1, <1>2, Ordering, Swap
  <2>2. (q * Base) * m = m * (q * Base)
    BY <1>1, <1>2
  <2> QED BY <1>1, <2>1, <2>2
<1>6. Bound(f, m, s) \in Nat
  BY <1>1, <1>2
<1>7. RansL * Base < Word /\ Word \in Nat
  <2>1. Word \in Nat
    <3>1. Base * Base \in Nat /\ (Base * Base) * Base \in Nat
      BY Ordering
    <3> QED BY <3>1, Ordering DEF Word
  <2> QED BY <2>1, RansAssumption
<1>8. Bound(f, m, s) <= RansL * Base
  BY <1>1, <1>3, <1>4, <1>5
<1>9. \A n \in Nat : n < Word => n % Word = n
  BY <1>7
<1> QED BY <1>6, <1>7, <1>8, <1>9, Ordering

\* A symbol costs two bytes at most, whatever a word could hold.
LEMMA TwoBytes ==
  ASSUME NEW f, NEW m, IsTable(f, m), NEW s \in ByteValues, f[s] > 0, NEW x \in States
  PROVE  Shifted(x)[2] < Bound(f, m, s)
<1>1. PICK q \in Nat \ {0} :
        /\ RansL = q * m /\ f[s] \in Nat \ {0} /\ Cumulative(f)[s] \in Nat
        /\ f[s] + Cumulative(f)[s] <= m /\ Bound(f, m, s) = (q * Base) * f[s] /\ q * Base \in Nat
  BY TableParts
<1>2. m \in Nat /\ m <= Base * Base /\ Base * Base \in Nat
  BY Ordering DEF IsTable
<1>3. m * q <= (Base * Base) * q
  BY <1>1, <1>2, Monotone
<1>4. RansL <= (q * Base) * Base
  <2>1. (Base * Base) * q = (q * Base) * Base /\ m * q = q * m
    BY <1>2, Ordering, Swap
  <2> QED BY <1>1, <1>3, <2>1
<1>5. x \in Nat /\ x < RansL * Base
  BY Ordering DEF States
<1> DEFINE a == x \div Base
           b == a \div Base
<1>6. Shifted(x)[1] = a /\ Shifted(x)[2] = b
  <2>1. /\ Shifted(x)[0] = x /\ Shifted(x)[1] = Shifted(x)[0] \div Base
        /\ Shifted(x)[2] = Shifted(x)[1] \div Base
    BY <1>5, ShiftedIs
  <2> QED BY <2>1
<1>7. a \in Nat /\ a < RansL
  BY <1>5, Ordering, Quotient
<1> HIDE DEF a
<1>8. (q * Base) * Base \in Nat
  BY <1>1, Ordering
<1>9. b \in Nat /\ b < q * Base
  <2>1. a < (q * Base) * Base
    BY <1>4, <1>7, <1>8, Ordering
  <2>2. Base \in Nat \ {0}
    BY Ordering
  <2> QED BY <1>1, <1>7, <2>1, <2>2, Quotient, Zenon
<1> HIDE DEF b
<1>10. 1 * (q * Base) <= f[s] * (q * Base) /\ f[s] * (q * Base) = (q * Base) * f[s]
  BY <1>1, Monotone
<1>11. 1 * (q * Base) = q * Base /\ (q * Base) * f[s] \in Nat
  BY <1>1
<1> QED BY <1>1, <1>6, <1>9, <1>10, <1>11

\* A symbol leaves a state between the same limits.
LEMMA CodesToState ==
  ASSUME NEW f, NEW m, IsTable(f, m), NEW s \in ByteValues, f[s] > 0, NEW x \in States,
         NEW k \in 0 .. 2, \A j \in 0 .. k - 1 : Shifted(x)[j] >= Bound(f, m, s),
         NEW y, Codes(f, m, x, s, k, y)
  PROVE  y \in States /\ y % Word = y
<1>1. PICK q \in Nat \ {0} :
        /\ RansL = q * m /\ f[s] \in Nat \ {0} /\ Cumulative(f)[s] \in Nat
        /\ f[s] + Cumulative(f)[s] <= m /\ Bound(f, m, s) = (q * Base) * f[s] /\ q * Base \in Nat
  BY TableParts
<1> DEFINE z == Shifted(x)[k]
           d == z \div f[s]
           r == z % f[s]
<1>2. x \in Nat /\ RansL <= x /\ m \in Nat /\ Base \in Nat \ {0} /\ f[s] <= m
  BY <1>1, Ordering DEF States, IsTable
<1>3. z \in Nat /\ z < (q * Base) * f[s]
  <2>1. k \in 0 .. 4
    OBVIOUS
  <2> QED BY <1>1, <1>2, <2>1, ShiftedIs DEF Codes
<1>4. q * f[s] <= z
  <2>1. CASE k = 0
    <3>1. z = x
      BY <1>2, <2>1, ShiftedIs
    <3>2. f[s] * q <= m * q
      BY <1>1, <1>2, Monotone
    <3>3. f[s] * q = q * f[s] /\ m * q = q * m /\ q * f[s] \in Nat
      BY <1>1, <1>2
    <3> QED BY <1>1, <1>2, <3>1, <3>2, <3>3
  <2>2. CASE k # 0
    <3>1. k - 1 \in 0 .. k - 1 /\ k \in 1 .. 4 /\ k - 1 \in 0 .. 4
      BY <2>2
    <3> DEFINE w == Shifted(x)[k - 1]
    <3>2. w \in Nat /\ z = w \div Base /\ w >= (q * Base) * f[s]
      BY <1>1, <1>2, <3>1, ShiftedIs
    <3> HIDE DEF w, z
    <3>3. (q * Base) * f[s] = (q * f[s]) * Base /\ q * f[s] \in Nat
      BY <1>1, <1>2, Swap
    <3>4. (q * f[s]) * Base <= w
      BY <1>1, <3>2, <3>3
    <3> QED BY <1>2, <3>2, <3>3, <3>4, Quotient
  <2> QED BY <2>1, <2>2
<1>5. y = d * m + r + Cumulative(f)[s]
  BY DEF Codes
<1> HIDE DEF z
<1>6. d \in Nat /\ d < q * Base /\ q <= d
  BY <1>1, <1>3, <1>4, Quotient
<1>7. r \in Nat /\ r < f[s]
  <2>1. z \in Int
    BY <1>3
  <2>2. r \in 0 .. f[s] - 1
    BY <1>1, <2>1, DivMod, Zenon
  <2> HIDE DEF r
  <2> QED BY <1>1, <2>2
<1> HIDE DEF d, r
<1>8. (d + 1) * m <= (q * Base) * m /\ (d + 1) * m = d * m + m /\ q * m <= d * m /\ d * m \in Nat
  <2>1. d + 1 \in Nat /\ d + 1 <= q * Base
    BY <1>1, <1>6
  <2> QED BY <1>1, <1>2, <1>6, <2>1, Monotone
<1>9. (q * Base) * m = RansL * Base /\ RansL * Base \in Nat
  BY <1>1, <1>2, Swap, Ordering
<1>10. RansL <= y /\ y < RansL * Base /\ y \in Nat
  <2>1. y \in Nat
    BY <1>1, <1>5, <1>7, <1>8
  <2>2. y < d * m + m
    BY <1>1, <1>2, <1>5, <1>7, <1>8
  <2>3. d * m <= y
    BY <1>1, <1>5, <1>7, <1>8
  <2>4. (q * Base) * m \in Nat /\ q * m \in Nat /\ RansL \in Nat
    BY <1>9, Ordering, <1>1, <1>2
  <2>5. d * m + m <= RansL * Base
    BY <1>8, <1>9
  <2> QED BY <1>1, <1>2, <1>8, <1>9, <2>1, <2>2, <2>3, <2>4, <2>5
<1>11. RansL * Base < Word /\ Word \in Nat
  <2>1. Base * Base \in Nat /\ (Base * Base) * Base \in Nat
    BY Ordering
  <2> QED BY <2>1, Ordering, RansAssumption DEF Word
<1>12. \A n \in Nat : n < Word => n % Word = n
  BY <1>11
<1> QED BY <1>9, <1>10, <1>11, <1>12, Ordering DEF States

\* The symbol whose share a slot lies in.
LEMMA SlotOf ==
  ASSUME NEW f, NEW m, IsTable(f, m), NEW s \in ByteValues, NEW slot \in Nat,
         Cumulative(f)[s] <= slot, slot < Cumulative(f)[s] + f[s]
  PROVE  {t \in ByteValues : Cumulative(f)[t] <= slot /\ slot < Cumulative(f)[t + 1]} = {s}
<1> DEFINE c == Cumulative(f)
<1>1. /\ \A t \in ByteValues : c[t] \in Nat /\ c[t + 1] = c[t] + f[t] /\ f[t] \in Nat
      /\ \A t, u \in ByteValues : t < u => c[t] + f[t] <= c[u]
  BY Shares, CumulativeIs DEF IsTable
<1> HIDE DEF c
<1>2. c[s] <= slot /\ slot < c[s + 1]
  BY <1>1 DEF c
<1>3. ASSUME NEW t \in ByteValues, c[t] <= slot, slot < c[t + 1] PROVE t = s
  <2>1. t \in Int /\ s \in Int
    BY DEF ByteValues
  <2>2. CASE t < s
    <3>1. c[t] + f[t] <= c[s] /\ c[t + 1] = c[t] + f[t]
      BY <1>1, <2>2
    <3>2. c[t + 1] \in Nat /\ c[s] \in Nat
      BY <1>1
    <3> QED BY <1>2, <1>3, <3>1, <3>2
  <2>3. CASE s < t
    <3>1. c[s] + f[s] <= c[t] /\ c[s + 1] = c[s] + f[s]
      BY <1>1, <2>3
    <3>2. c[s + 1] \in Nat /\ c[t] \in Nat
      BY <1>1
    <3> QED BY <1>2, <1>3, <3>1, <3>2
  <2> QED BY <2>1, <2>2, <2>3
<1>4. {t \in ByteValues : c[t] <= slot /\ slot < c[t + 1]} = {s}
  BY <1>2, <1>3
<1> QED BY <1>4 DEF c

\* What is left of state y without the symbol s, and that it is what was left of x
\* without its k lowest bytes.
Before(f, m, s, y) == f[s] * (y \div m) + (y % m) - Cumulative(f)[s]
Restores(f, m, s, y, x, k) == Before(f, m, s, y) = Shifted(x)[k]

\* The state tells the symbol, and what the state was before it.
LEMMA CodesBack ==
  ASSUME NEW f, NEW m, IsTable(f, m), NEW s, NEW x \in States,
         NEW k \in 0 .. 2, NEW y, Codes(f, m, x, s, k, y)
  PROVE  /\ y % m \in Nat
         /\ Cumulative(f)[s] <= y % m /\ y % m < Cumulative(f)[s] + f[s]
         /\ Restores(f, m, s, y, x, k)
<1>0. s \in ByteValues /\ f[s] > 0
  BY DEF Codes
<1>1. /\ f[s] \in Nat \ {0} /\ Cumulative(f)[s] \in Nat /\ f[s] + Cumulative(f)[s] <= m
  BY <1>0, TableParts
<1> DEFINE z == Shifted(x)[k]
           d == z \div f[s]
           r == z % f[s]
           c == Cumulative(f)[s]
<1>2. m \in Nat \ {0} /\ z \in Nat
  <2>1. k \in 0 .. 4 /\ x \in Nat
    BY Ordering
  <2> QED BY <2>1, ShiftedIs DEF IsTable
<1>3. y = d * m + r + c
  BY DEF Codes
<1> HIDE DEF z, c
<1>4. d \in Nat
  BY <1>1, <1>2, Quotient
<1>5. r \in Nat /\ r < f[s] /\ z = f[s] * d + r
  <2>1. z \in Int
    BY <1>2
  <2>2. r \in 0 .. f[s] - 1 /\ z = f[s] * d + r
    BY <1>1, <2>1, DivMod, Zenon
  <2> HIDE DEF r, d
  <2> QED BY <1>1, <2>2
<1> HIDE DEF d, r
<1>6. c \in Nat /\ f[s] + c <= m
  BY <1>1 DEF c
<1>7. r + c \in 0 .. m - 1
  BY <1>1, <1>2, <1>5, <1>6
<1>8. y \div m = d /\ y % m = r + c
  <2> DEFINE e == r + c
  <2>1. e \in 0 .. m - 1 /\ y = d * m + e /\ y = m * d + e /\ y \in Nat
    BY <1>2, <1>3, <1>4, <1>5, <1>6, <1>7
  <2> HIDE DEF e
  <2>2. y \div m = d
    <3>1. d * m <= y /\ y < (d + 1) * m
      <4>1. (d + 1) * m = d * m + m /\ d * m \in Nat
        BY <1>2, <1>4
      <4> QED BY <1>2, <2>1, <4>1
    <3>2. d <= y \div m /\ y \div m < d + 1 /\ y \div m \in Nat
      BY <1>2, <1>4, <2>1, <3>1, Quotient
    <3> QED BY <1>4, <3>2
  <2>3. y \in Int
    BY <2>1
  <2>4. y = m * (y \div m) + (y % m) /\ y % m \in 0 .. m - 1
    BY <1>2, <2>3, DivMod, Zenon
  <2>5. m * d \in Nat
    BY <1>2, <1>4
  <2>6. y % m = e
    <3> DEFINE u == y % m
    <3>1. y = m * d + u /\ u \in 0 .. m - 1
      BY <2>2, <2>4, Zenon
    <3> HIDE DEF u
    <3>2. u = e
      BY <2>1, <2>5, <3>1
    <3> QED BY <3>2 DEF u
  <2> QED BY <2>2, <2>6 DEF e
<1>9. f[s] * d \in Nat
  BY <1>1, <1>4
<1> QED BY <1>1, <1>5, <1>6, <1>7, <1>8, <1>9 DEF z, c, Before, Restores

\* Shifting in what was shifted out leads back to the state, through numbers that are
\* too small for one.
LEMMA Refills ==
  ASSUME NEW x \in States, NEW k \in 0 .. 2, NEW st \in [0 .. 4 -> Nat],
         st[0] = Shifted(x)[k],
         \A j \in 1 .. k : st[j] = st[j - 1] * Base + (Shifted(x)[k - j] % Base)
  PROVE  st[k] = x /\ \A j \in 0 .. k - 1 : st[j] < RansL
<1> DEFINE a == x \div Base
           b == a \div Base
<1>1. x \in Nat /\ RansL <= x /\ x < RansL * Base
  BY Ordering DEF States
<1>2. Shifted(x)[0] = x /\ Shifted(x)[1] = a /\ Shifted(x)[2] = b
  <2>1. /\ Shifted(x)[0] = x /\ Shifted(x)[1] = Shifted(x)[0] \div Base
        /\ Shifted(x)[2] = Shifted(x)[1] \div Base
    BY <1>1, ShiftedIs
  <2> QED BY <2>1
<1>3. Base \in Nat \ {0} /\ RansL \in Nat
  BY Ordering
<1>4. a \in Nat /\ a < RansL /\ b \in Nat
  <2>1. a \in Nat /\ a < RansL
    BY <1>1, <1>3, Quotient
  <2> HIDE DEF a
  <2> QED BY <1>3, <2>1, Quotient
<1>5. x = a * Base + (x % Base) /\ a = b * Base + (a % Base)
  <2>1. x \in Int /\ a \in Int
    BY <1>1, <1>4
  <2>2. x = Base * a + (x % Base) /\ a = Base * b + (a % Base)
    BY <1>3, <2>1, DivMod, Zenon
  <2> HIDE DEF a, b
  <2> QED BY <1>3, <1>4, <2>2
<1>6. b < RansL
  <2>1. a % Base \in 0 .. Base - 1
    <3>1. a \in Int
      BY <1>4
    <3> QED BY <1>3, <3>1, DivMod, Zenon
  <2>2. 1 * b <= Base * b /\ 1 * b = b /\ Base * b = b * Base /\ b * Base \in Nat
    <3> HIDE DEF b
    <3> QED BY <1>3, <1>4, Monotone
  <2> DEFINE e == a % Base
  <2>3. a = b * Base + e /\ e \in 0 .. Base - 1
    BY <1>5, <2>1
  <2> HIDE DEF a, b, e
  <2> QED BY <1>3, <1>4, <2>2, <2>3
<1> HIDE DEF a, b
<1>7. CASE k = 0
  BY <1>2, <1>7
<1>8. CASE k = 1
  <2>1. st[1] = st[0] * Base + (Shifted(x)[0] % Base)
    BY <1>8
  <2>2. st[0] = a
    BY <1>2, <1>8
  <2> QED BY <1>2, <1>4, <1>5, <1>8, <2>1, <2>2
<1>9. CASE k = 2
  <2>1. /\ st[1] = st[0] * Base + (Shifted(x)[1] % Base)
        /\ st[2] = st[1] * Base + (Shifted(x)[0] % Base)
    BY <1>9
  <2>2. st[0] = b
    BY <1>2, <1>9
  <2>3. st[1] = a
    BY <1>2, <1>5, <2>1, <2>2
  <2>4. st[2] = x
    BY <1>2, <1>5, <2>1, <2>3
  <2>5. \A j \in 0 .. k - 1 : j = 0 \/ j = 1
    BY <1>9
  <2> QED BY <1>4, <1>6, <1>9, <2>2, <2>3, <2>4, <2>5
<1> QED BY <1>7, <1>8, <1>9

\* The flushed bytes of a state give it back.
LEMMA Unflushed ==
  ASSUME NEW x \in States
  PROVE  LET b(j) == Shifted(x)[j] % Base
         IN  x = b(0) + Base * (b(1) + Base * (b(2) + Base * b(3)))
<1> DEFINE s0 == Shifted(x)[0]
           s1 == Shifted(x)[1]
           s2 == Shifted(x)[2]
           s3 == Shifted(x)[3]
           s4 == Shifted(x)[4]
<1>1. x \in Nat /\ x < RansL * Base
  BY Ordering DEF States
<1>2. /\ s0 = x /\ s1 = s0 \div Base /\ s2 = s1 \div Base /\ s3 = s2 \div Base /\ s4 = s3 \div Base
      /\ s0 \in Int /\ s1 \in Int /\ s2 \in Int /\ s3 \in Int /\ s4 \in Nat
      /\ s0 \in Nat /\ s1 \in Nat /\ s2 \in Nat /\ s3 \in Nat
  BY <1>1, ShiftedIs
<1>3. Base \in Nat \ {0}
  BY Ordering
<1> HIDE DEF s0, s1, s2, s3, s4
<1>4. /\ s0 = Base * s1 + (s0 % Base) /\ s1 = Base * s2 + (s1 % Base)
      /\ s2 = Base * s3 + (s2 % Base) /\ s3 = Base * s4 + (s3 % Base)
  BY <1>2, <1>3, DivMod, Zenon
<1>5. s4 < 1
  <2>1. s0 < ((Base * Base) * Base) * Base /\ Base * Base \in Nat /\ (Base * Base) * Base \in Nat
    <3>1. Base * Base \in Nat
      BY <1>3
    <3>2. (Base * Base) * Base \in Nat
      BY <1>3, <3>1
    <3>3. Word = ((Base * Base) * Base) * Base /\ Word \in Nat
      BY <1>3, <3>2 DEF Word
    <3> QED BY <1>1, <1>2, <3>1, <3>2, <3>3, RansAssumption, Ordering
  <2>2. s1 < (Base * Base) * Base
    BY <1>2, <1>3, <2>1, Quotient
  <2>3. s2 < Base * Base
    BY <1>2, <1>3, <2>1, <2>2, Quotient
  <2>4. s3 < Base
    <3>1. Base \in Nat
      BY <1>3
    <3> QED BY <1>2, <1>3, <2>3, <3>1, Quotient
  <2>5. s3 < 1 * Base /\ 1 \in Nat
    BY <1>3, <2>4
  <2> QED BY <1>2, <1>3, <2>5, Quotient
<1>6. Base * s4 = 0
  BY <1>2, <1>3, <1>5
<1> DEFINE r0 == s0 % Base
           r1 == s1 % Base
           r2 == s2 % Base
           r3 == s3 % Base
<1>7. r0 \in Int /\ r1 \in Int /\ r2 \in Int /\ r3 \in Int
  BY <1>2, <1>3
<1>8. s0 = Base * s1 + r0 /\ s1 = Base * s2 + r1 /\ s2 = Base * s3 + r2 /\ s3 = r3
  BY <1>4, <1>6, <1>7
<1> HIDE DEF r0, r1, r2, r3
<1>9. s0 = r0 + Base * (r1 + Base * (r2 + Base * r3))
  <2>1. s2 = r2 + Base * r3
    BY <1>2, <1>3, <1>7, <1>8
  <2>2. s1 = r1 + Base * s2
    BY <1>2, <1>3, <1>7, <1>8
  <2>3. s0 = r0 + Base * s1
    BY <1>2, <1>3, <1>7, <1>8
  <2> QED BY <2>1, <2>2, <2>3
<1> QED BY <1>2, <1>9 DEF r0, r1, r2, r3, s0, s1, s2, s3
-----------------------------------------------------------------------------
(* A lane: what its encoder has done, and what its decoder has undone.      *)

LaneRecord == [left : Nat, x : Nat, bytes : Seq(ByteValues), flushed : BOOLEAN,
               pos : Nat, got : Seq(ByteValues)]

\* Symbol s took state x to y, and the bytes that were written then are those from p
\* to q, counted from the end.
Link(s, f, m, bytes, x, y, p, q) ==
  /\ q - p \in 0 .. 2
  /\ Codes(f, m, x, s, q - p, y)
  /\ \A j \in 1 .. q - p : bytes[Len(bytes) + 1 - (p + j)] = Shifted(x)[j - 1] % Base

\* The states h of a lane that codes n symbols of d behind a, last symbol first, and how
\* many bytes there were with each.
Path(d, a, n, f, m, r, h, off) ==
  /\ r.left \in 0 .. n
  /\ h \in Seq(States) /\ off \in Seq(Nat)
  /\ Len(h) = n - r.left + 1 /\ Len(off) = n - r.left + 1
  /\ h[1] = RansL /\ off[1] = 0
  /\ \A i \in 1 .. Len(off) : off[i] <= 2 * (i - 1) /\ off[i] <= off[Len(off)]
  /\ off[Len(off)] <= Len(r.bytes)
  /\ \A i \in 1 .. n - r.left :
       Link(d[a + n + 1 - i], f, m, r.bytes, h[i], h[i + 1], off[i], off[i + 1])

Writing(r, h, off) ==
  /\ ~r.flushed /\ r.pos = 0 /\ r.got = <<>>
  /\ r.x = h[Len(h)] /\ Len(r.bytes) = off[Len(off)]

\* The four bytes in front of the others are the encoder's last state.
Closed(r, h, off) ==
  /\ r.flushed /\ r.left = 0 /\ Len(r.bytes) = off[Len(off)] + 4
  /\ \A j \in 1 .. 4 : r.bytes[j] = Shifted(h[Len(h)])[j - 1] % Base

Waiting(r, h, off) ==
  Closed(r, h, off) /\ r.pos = 0 /\ r.got = <<>> /\ r.x = h[Len(h)]

Reading(d, a, n, r, h, off) ==
  /\ Closed(r, h, off) /\ r.pos > 0
  /\ Len(r.got) <= n /\ \A j \in 1 .. Len(r.got) : r.got[j] = d[a + j]
  /\ r.x = h[Len(h) - Len(r.got)]
  /\ r.pos = 4 + off[Len(off)] - off[Len(off) - Len(r.got)]

LaneInv(d, a, n, f, m, r) ==
  /\ r \in LaneRecord
  /\ \E h, off :
       /\ Path(d, a, n, f, m, r, h, off)
       /\ Writing(r, h, off) \/ Waiting(r, h, off) \/ Reading(d, a, n, r, h, off)

\* A lane that has not begun.
LEMMA LaneBegins ==
  ASSUME NEW d, NEW a \in Nat, NEW n \in Nat, NEW f, NEW m, NEW r,
         r = [left |-> n, x |-> RansL, bytes |-> <<>>, flushed |-> FALSE, pos |-> 0, got |-> <<>>]
  PROVE  LaneInv(d, a, n, f, m, r)
<1> DEFINE h == <<RansL>>
           off == <<0>>
<1>1. RansL \in States
  <2>1. RansL \in Nat \ {0} /\ Base \in Nat /\ Base > 1 /\ RansL * Base \in Nat
    BY Ordering, ByteAssumption
  <2>2. 2 * RansL <= Base * RansL /\ Base * RansL = RansL * Base
    BY <2>1, Monotone
  <2> QED BY <2>1, <2>2 DEF States
<1>2. r \in LaneRecord
  BY <1>1, Ordering DEF LaneRecord
<1>3. Path(d, a, n, f, m, r, h, off)
  BY <1>1 DEF Path
<1>4. Writing(r, h, off)
  BY DEF Writing
<1> HIDE DEF h, off
<1> QED BY <1>2, <1>3, <1>4 DEF LaneInv

\* What is put in front of bytes does not move them from the end.
LEMMA InFront ==
  ASSUME NEW b \in Seq(ByteValues), NEW c \in Seq(ByteValues)
  PROVE  /\ c \o b \in Seq(ByteValues) /\ Len(c \o b) = Len(c) + Len(b)
         /\ \A j \in 1 .. Len(c) : (c \o b)[j] = c[j]
         /\ \A p \in 1 .. Len(b) :
              (c \o b)[Len(c) + Len(b) + 1 - p] = b[Len(b) + 1 - p]
<1>1. ASSUME NEW p \in 1 .. Len(b)
      PROVE  (c \o b)[Len(c) + Len(b) + 1 - p] = b[Len(b) + 1 - p]
  <2>1. PICK i \in 1 .. Len(b) : i = Len(b) + 1 - p
    <3> DEFINE n == Len(b)
    <3>1. n \in Nat /\ p \in 1 .. n
      OBVIOUS
    <3> HIDE DEF n
    <3>2. n + 1 - p \in 1 .. n
      BY <3>1
    <3> QED BY <3>2 DEF n
  <2>2. (c \o b)[Len(c) + i] = b[i]
    OBVIOUS
  <2>3. Len(c) + Len(b) + 1 - p = Len(c) + i
    BY <2>1
  <2> QED BY <2>1, <2>2, <2>3
<1> QED BY <1>1

\* The symbols coded before do not notice.
LEMMA LinkStays ==
  ASSUME NEW s, NEW f, NEW m, NEW b \in Seq(ByteValues), NEW c \in Seq(ByteValues),
         NEW x, NEW y, NEW p \in Nat, NEW q \in Nat, q <= Len(b),
         Link(s, f, m, b, x, y, p, q)
  PROVE  Link(s, f, m, c \o b, x, y, p, q)
<1>1. ASSUME NEW j \in 1 .. q - p
      PROVE  (c \o b)[Len(c \o b) + 1 - (p + j)] = Shifted(x)[j - 1] % Base
  <2>1. PICK u \in 1 .. Len(b) : u = p + j
    OBVIOUS
  <2>2. (c \o b)[Len(c) + Len(b) + 1 - u] = b[Len(b) + 1 - u] /\ Len(c \o b) = Len(c) + Len(b)
    BY InFront
  <2>3. b[Len(b) + 1 - u] = Shifted(x)[j - 1] % Base
    BY <2>1 DEF Link
  <2> QED BY <2>1, <2>2, <2>3
<1> QED BY <1>1 DEF Link

\* What a trace says of each of its states.
LEMMA PathParts ==
  ASSUME NEW d, NEW a \in Nat, NEW n \in Nat, NEW f, NEW m, NEW r, NEW h, NEW off,
         Path(d, a, n, f, m, r, h, off)
  PROVE  \E e \in Nat \ {0} :
           /\ e = n - r.left + 1 /\ r.left \in 0 .. n
           /\ h \in Seq(States) /\ off \in Seq(Nat) /\ Len(h) = e /\ Len(off) = e
           /\ h[1] = RansL /\ off[1] = 0
           /\ \A i \in 1 .. e : /\ h[i] \in States /\ h[i] \in Nat /\ off[i] \in Nat
                               /\ off[i] <= 2 * (i - 1) /\ off[i] <= off[e]
           /\ \A i \in 1 .. e : i # e =>
                /\ i + 1 \in 1 .. e
                /\ Link(d[a + n + 1 - i], f, m, r.bytes, h[i], h[i + 1], off[i], off[i + 1])
<1>1. PICK e \in Nat \ {0} : e = n - r.left + 1 /\ \A i \in 1 .. e : i # e => i \in 1 .. n - r.left
  <2>1. r.left \in 0 .. n
    BY DEF Path
  <2> QED BY <2>1
<1>2. /\ r.left \in 0 .. n /\ h \in Seq(States) /\ off \in Seq(Nat) /\ Len(h) = e /\ Len(off) = e
      /\ h[1] = RansL /\ off[1] = 0
      /\ \A i \in 1 .. e : off[i] <= 2 * (i - 1) /\ off[i] <= off[e]
  BY <1>1 DEF Path
<1>3. \A i \in 1 .. e : h[i] \in States /\ off[i] \in Nat
  BY <1>2
<1>4. \A i \in 1 .. e : h[i] \in Nat
  BY <1>3, Ordering
<1>5. \A i \in 1 .. e : i # e =>
         /\ i + 1 \in 1 .. e
         /\ Link(d[a + n + 1 - i], f, m, r.bytes, h[i], h[i + 1], off[i], off[i + 1])
  <2>1. \A i \in 1 .. e : i # e => i + 1 \in 1 .. e
    OBVIOUS
  <2>2. \A i \in 1 .. n - r.left :
          Link(d[a + n + 1 - i], f, m, r.bytes, h[i], h[i + 1], off[i], off[i + 1])
    BY DEF Path
  <2> QED BY <1>1, <2>1, <2>2, Zenon
<1> QED BY <1>1, <1>2, <1>3, <1>4, <1>5, Zenon

\* A state's remains are numbers.
LEMMA Remains ==
  ASSUME NEW x \in States, NEW k \in 0 .. 4
  PROVE  Shifted(x)[k] \in Nat /\ Shifted(x)[k] % Base \in ByteValues
<1>1. Shifted(x)[k] \in Nat /\ Shifted(x)[k] \in Int /\ Base \in Nat \ {0}
  BY ShiftedIs, Ordering
<1>2. Shifted(x)[k] % Base \in 0 .. Base - 1
  BY <1>1, DivMod, Zenon
<1> QED BY <1>1, <1>2 DEF ByteValues

\* A record with a lane's fields.
IsLane(r) ==
  r = [left |-> r.left, x |-> r.x, bytes |-> r.bytes, flushed |-> r.flushed,
       pos |-> r.pos, got |-> r.got]

\* Lane r codes symbol s and writes k bytes.
Encodes(f, m, r, s, k, r2) ==
  /\ IsLane(r2)
  /\ r.left > 0
  /\ s \in ByteValues /\ f[s] > 0
  /\ Shifted(r.x)[k] < Bound(f, m, s)
  /\ \A j \in 0 .. k - 1 : Shifted(r.x)[j] >= Bound(f, m, s)
  /\ Codes(f, m, r.x, s, k, r2.x)
  /\ r2.left = r.left - 1 /\ r2.flushed = r.flushed /\ r2.pos = r.pos /\ r2.got = r.got
  /\ r2.bytes = [j \in 1 .. k |-> Shifted(r.x)[k - j] % Base] \o r.bytes

\* Coding one more symbol.
LEMMA LaneEncodes ==
  ASSUME NEW d, NEW a \in Nat, NEW n \in Nat, NEW f, NEW m, IsTable(f, m),
         NEW r, LaneInv(d, a, n, f, m, r), NEW k \in 0 .. 4, NEW r2,
         Encodes(f, m, r, d[a + r.left], k, r2)
  PROVE  LaneInv(d, a, n, f, m, r2)
<1> DEFINE new == [j \in 1 .. k |-> Shifted(r.x)[k - j] % Base]
           s == d[a + r.left]
<1>0. /\ r.left > 0 /\ s \in ByteValues /\ f[s] > 0
      /\ Shifted(r.x)[k] < Bound(f, m, s)
      /\ \A j \in 0 .. k - 1 : Shifted(r.x)[j] >= Bound(f, m, s)
      /\ Codes(f, m, r.x, s, k, r2.x)
      /\ r2.left = r.left - 1 /\ r2.flushed = r.flushed /\ r2.pos = r.pos /\ r2.got = r.got
      /\ r2.bytes = new \o r.bytes
  BY DEF Encodes
<1> HIDE DEF s, new
<1>1. PICK h, off : Path(d, a, n, f, m, r, h, off) /\ Writing(r, h, off)
  <2>1. r.left # 0
    BY <1>0
  <2> QED BY <2>1 DEF LaneInv, Waiting, Reading, Closed
<1>2a. PICK e \in Nat \ {0} :
           /\ e = n - r.left + 1 /\ r.left \in 0 .. n
           /\ h \in Seq(States) /\ off \in Seq(Nat) /\ Len(h) = e /\ Len(off) = e
           /\ h[1] = RansL /\ off[1] = 0
           /\ \A i \in 1 .. e : /\ h[i] \in States /\ h[i] \in Nat /\ off[i] \in Nat
                               /\ off[i] <= 2 * (i - 1) /\ off[i] <= off[e]
           /\ \A i \in 1 .. e : i # e =>
                /\ i + 1 \in 1 .. e
                /\ Link(d[a + n + 1 - i], f, m, r.bytes, h[i], h[i + 1], off[i], off[i + 1])
  BY <1>1, PathParts
<1>2b. r \in LaneRecord /\ r.bytes \in Seq(ByteValues)
  BY DEF LaneInv, LaneRecord
<1>2. /\ r.left \in 1 .. n /\ e \in 1 .. e /\ r.x = h[e] /\ Len(r.bytes) = off[e]
  <2>1. r.x = h[e] /\ Len(r.bytes) = off[e]
    BY <1>1, <1>2a, Zenon DEF Writing
  <2>2. r.left \in 1 .. n /\ e \in 1 .. e
    BY <1>0, <1>2a
  <2> QED BY <2>1, <2>2
<1>3. r.x \in States /\ r.x \in Nat /\ off[e] \in Nat
  BY <1>2a, <1>2
<1>4. k \in 0 .. 2
  <2>1. Shifted(r.x)[2] < Bound(f, m, s)
    BY <1>0, <1>3, TwoBytes
  <2>2. Bound(f, m, s) \in Nat
    BY <1>0, BoundFits
  <2>2a. 2 \in 0 .. 4 /\ Shifted(r.x)[2] \in Nat
    BY <1>3, Remains
  <2>3. ~(Shifted(r.x)[2] >= Bound(f, m, s))
    BY <2>1, <2>2, <2>2a
  <2>4. 2 \notin 0 .. k - 1
    BY <1>0, <2>3
  <2> QED BY <2>4
<1>5. r2.x \in States
  BY <1>0, <1>3, <1>4, CodesToState
<1>6. new \in Seq(ByteValues) /\ Len(new) = k
  <2>1. ASSUME NEW j \in 1 .. k PROVE Shifted(r.x)[k - j] % Base \in ByteValues
    <3>1. k - j \in 0 .. 4
      OBVIOUS
    <3> QED BY <1>3, <3>1, Remains
  <2> QED BY <2>1 DEF new
<1> DEFINE h2 == Append(h, r2.x)
           off2 == Append(off, off[e] + k)
<1>7. /\ h2 \in Seq(States) /\ off2 \in Seq(Nat) /\ Len(h2) = e + 1 /\ Len(off2) = e + 1
      /\ h2[e + 1] = r2.x /\ off2[e + 1] = off[e] + k
      /\ \A i \in 1 .. e : h2[i] = h[i] /\ off2[i] = off[i]
  <2>1. /\ h2 \in Seq(States) /\ Len(h2) = e + 1 /\ h2[e + 1] = r2.x
        /\ \A i \in 1 .. e : h2[i] = h[i]
    BY <1>2a, <1>5
  <2>2. off[e] + k \in Nat
    BY <1>3, <1>4
  <2> DEFINE v == off[e] + k
  <2>3. v \in Nat
    BY <2>2
  <2> HIDE DEF v
  <2>4. /\ Append(off, v) \in Seq(Nat) /\ Len(Append(off, v)) = e + 1 /\ Append(off, v)[e + 1] = v
        /\ \A i \in 1 .. e : Append(off, v)[i] = off[i]
    BY <1>2a, <2>3
  <2> QED BY <2>1, <2>4 DEF v
<1>8. r2.bytes = new \o r.bytes /\ Len(r2.bytes) = k + off[e]
  BY <1>0, <1>2, <1>6, InFront
<1> HIDE DEF h2, off2
<1>9. ASSUME NEW i \in 1 .. e + 1
      PROVE  off2[i] <= 2 * (i - 1) /\ off2[i] <= off2[e + 1]
  <2>1. CASE i = e + 1
    <3>1. off[e] <= 2 * (e - 1)
      BY <1>2a, <1>2
    <3>2. off2[i] = off[e] + k /\ i - 1 = e
      BY <1>7, <2>1
    <3>3. off[e] + k <= 2 * (i - 1)
      BY <1>3, <1>4, <3>1, <3>2
    <3> QED BY <1>3, <1>4, <1>7, <3>2, <3>3
  <2>2. CASE i # e + 1
    <3>1. i \in 1 .. e
      BY <2>2
    <3>2. off[i] <= 2 * (i - 1) /\ off[i] <= off[e] /\ off[i] \in Nat
      BY <1>2a, <3>1, Zenon
    <3> QED BY <1>3, <1>4, <1>7, <3>1, <3>2
  <2> QED BY <2>1, <2>2
<1>10. ASSUME NEW i \in 1 .. e
       PROVE  Link(d[a + n + 1 - i], f, m, r2.bytes, h2[i], h2[i + 1], off2[i], off2[i + 1])
  <2>1. CASE i = e
    <3>1. d[a + n + 1 - i] = s
      <4>1. a + n + 1 - i = a + r.left
        BY <1>2a, <1>2, <2>1
      <4> QED BY <4>1 DEF s
    <3>2. h2[i] = r.x /\ h2[i + 1] = r2.x /\ off2[i] = off[e] /\ off2[i + 1] = off[e] + k
      BY <1>2, <1>7, <2>1
    <3>3. off[e] + k - off[e] = k
      BY <1>3, <1>4
    <3>4. ASSUME NEW j \in 1 .. k
          PROVE  r2.bytes[Len(r2.bytes) + 1 - (off[e] + j)] = Shifted(r.x)[j - 1] % Base
      <4>1. PICK u \in 1 .. k : u = k + 1 - j /\ k - u = j - 1
        OBVIOUS
      <4>2. Len(r2.bytes) + 1 - (off[e] + j) = u
        BY <1>3, <1>4, <1>8, <4>1
      <4>3. r2.bytes[u] = new[u]
        BY <1>2, <1>6, <1>8, <4>1, InFront
      <4>4. new[u] = Shifted(r.x)[k - u] % Base
        BY DEF new
      <4> QED BY <4>1, <4>2, <4>3, <4>4
    <3> DEFINE u == off[e] + k
    <3>5. u - off[e] = k /\ u - off[e] \in 0 .. 2
      BY <1>3, <1>4, <3>3
    <3> HIDE DEF u
    <3>6. Link(s, f, m, r2.bytes, r.x, r2.x, off[e], u)
      BY <1>0, <3>4, <3>5 DEF Link
    <3> QED BY <3>1, <3>2, <3>6 DEF u
  <2>2. CASE i # e
    <3>1. i + 1 \in 1 .. e
      BY <1>2a, <2>2
    <3>2. Link(d[a + n + 1 - i], f, m, r.bytes, h[i], h[i + 1], off[i], off[i + 1])
      BY <1>2a, <2>2
    <3>3. off[i] \in Nat /\ off[i + 1] \in Nat /\ off[i + 1] <= Len(r.bytes)
      BY <1>2a, <1>2, <3>1, Zenon
    <3>4. Link(d[a + n + 1 - i], f, m, new \o r.bytes, h[i], h[i + 1], off[i], off[i + 1])
      BY <1>2b, <1>6, <3>2, <3>3, LinkStays
    <3> QED BY <1>7, <1>8, <3>1, <3>4
  <2> QED BY <2>1, <2>2
<1>11. Path(d, a, n, f, m, r2, h2, off2)
  <2>1. r2.left \in 0 .. n /\ n - r2.left = e /\ e + 1 \in Nat
    <3>1. r2.left = r.left - 1 /\ e = n - r.left + 1
      BY <1>0, <1>2a, Zenon
    <3> QED BY <1>2, <3>1
  <2>2. h2[1] = RansL /\ off2[1] = 0
    <3>1. 1 \in 1 .. e
      BY <1>2
    <3> QED BY <1>1, <1>7, <3>1 DEF Path
  <2>3. off2[e + 1] <= Len(r2.bytes)
    BY <1>3, <1>4, <1>7, <1>8
  <2> QED BY <1>7, <1>9, <1>10, <2>1, <2>2, <2>3 DEF Path
<1>12. Writing(r2, h2, off2)
  BY <1>0, <1>1, <1>3, <1>4, <1>7, <1>8 DEF Writing
<1>13. r2 \in LaneRecord
  <2>1. r2.left \in Nat /\ r2.x \in Nat
    BY <1>5, <1>11, Ordering DEF Path
  <2>2. r2.bytes \in Seq(ByteValues)
    BY <1>2b, <1>6, <1>8, InFront
  <2>3. r2.flushed \in BOOLEAN /\ r2.pos \in Nat /\ r2.got \in Seq(ByteValues)
    BY <1>0, <1>2b DEF LaneRecord
  <2>4. IsLane(r2)
    BY DEF Encodes
  <2> QED BY <2>1, <2>2, <2>3, <2>4 DEF IsLane, LaneRecord
<1> QED BY <1>11, <1>12, <1>13 DEF LaneInv

\* The flushed bytes go in front.
Flushes(r, r2) ==
  /\ IsLane(r2)
  /\ r.left = 0 /\ ~r.flushed /\ r2.flushed
  /\ r2.left = r.left /\ r2.x = r.x /\ r2.pos = r.pos /\ r2.got = r.got
  /\ r2.bytes = [j \in 1 .. 4 |-> Shifted(r.x)[j - 1] % Base] \o r.bytes

LEMMA LaneFlushes ==
  ASSUME NEW d, NEW a \in Nat, NEW n \in Nat, NEW f, NEW m,
         NEW r, LaneInv(d, a, n, f, m, r), NEW r2, Flushes(r, r2)
  PROVE  LaneInv(d, a, n, f, m, r2)
<1> DEFINE new == [j \in 1 .. 4 |-> Shifted(r.x)[j - 1] % Base]
<1>0. /\ r.left = 0 /\ ~r.flushed /\ r2.flushed
      /\ r2.left = r.left /\ r2.x = r.x /\ r2.pos = r.pos /\ r2.got = r.got
      /\ r2.bytes = new \o r.bytes
  BY DEF Flushes
<1> HIDE DEF new
<1>1. PICK h, off : Path(d, a, n, f, m, r, h, off) /\ Writing(r, h, off)
  BY <1>0 DEF LaneInv, Waiting, Reading, Closed
<1>2. PICK e \in Nat \ {0} :
           /\ e = n - r.left + 1 /\ r.left \in 0 .. n
           /\ h \in Seq(States) /\ off \in Seq(Nat) /\ Len(h) = e /\ Len(off) = e
           /\ h[1] = RansL /\ off[1] = 0
           /\ \A i \in 1 .. e : /\ h[i] \in States /\ h[i] \in Nat /\ off[i] \in Nat
                               /\ off[i] <= 2 * (i - 1) /\ off[i] <= off[e]
           /\ \A i \in 1 .. e : i # e =>
                /\ i + 1 \in 1 .. e
                /\ Link(d[a + n + 1 - i], f, m, r.bytes, h[i], h[i + 1], off[i], off[i + 1])
  BY <1>1, PathParts
<1>3. r \in LaneRecord /\ r.bytes \in Seq(ByteValues)
  BY DEF LaneInv, LaneRecord
<1>4. e \in 1 .. e /\ r.x = h[e] /\ Len(r.bytes) = off[e] /\ r.pos = 0 /\ r.got = <<>>
  <2>1. r.x = h[e] /\ Len(r.bytes) = off[e] /\ r.pos = 0 /\ r.got = <<>>
    BY <1>1, <1>2, Zenon DEF Writing
  <2>2. e \in 1 .. e
    BY <1>2
  <2> QED BY <2>1, <2>2
<1>5. r.x \in States /\ off[e] \in Nat
  BY <1>2, <1>4
<1>6. new \in Seq(ByteValues) /\ Len(new) = 4 /\ \A j \in 1 .. 4 : new[j] = Shifted(r.x)[j - 1] % Base
  <2>1. ASSUME NEW j \in 1 .. 4 PROVE Shifted(r.x)[j - 1] % Base \in ByteValues
    <3>1. j - 1 \in 0 .. 4
      OBVIOUS
    <3> QED BY <1>5, <3>1, Remains
  <2> QED BY <2>1 DEF new
<1>7. /\ r2.bytes \in Seq(ByteValues) /\ Len(r2.bytes) = 4 + off[e]
      /\ \A j \in 1 .. 4 : r2.bytes[j] = Shifted(r.x)[j - 1] % Base
  <2>1. /\ new \o r.bytes \in Seq(ByteValues) /\ Len(new \o r.bytes) = Len(new) + Len(r.bytes)
        /\ \A j \in 1 .. Len(new) : (new \o r.bytes)[j] = new[j]
    BY <1>3, <1>6, InFront
  <2>2. Len(new) = 4 /\ Len(r.bytes) = off[e] /\ r2.bytes = new \o r.bytes
    BY <1>0, <1>4, <1>6, Zenon
  <2>3. \A j \in 1 .. 4 : r2.bytes[j] = new[j]
    BY <2>1, <2>2, Zenon
  <2> QED BY <1>6, <2>1, <2>2, <2>3, Zenon
<1>8. ASSUME NEW i \in 1 .. n - r2.left
      PROVE  Link(d[a + n + 1 - i], f, m, r2.bytes, h[i], h[i + 1], off[i], off[i + 1])
  <2>1. i \in 1 .. e /\ i # e
    <3>1. r2.left = 0 /\ e = n - 0 + 1
      BY <1>0, <1>2, Zenon
    <3> QED BY <3>1
  <2>2. /\ i + 1 \in 1 .. e
        /\ Link(d[a + n + 1 - i], f, m, r.bytes, h[i], h[i + 1], off[i], off[i + 1])
    BY <1>2, <2>1
  <2>3. off[i] \in Nat /\ off[i + 1] \in Nat /\ off[i + 1] <= Len(r.bytes)
    BY <1>2, <1>4, <2>1, <2>2, Zenon
  <2>4. Link(d[a + n + 1 - i], f, m, new \o r.bytes, h[i], h[i + 1], off[i], off[i + 1])
    BY <1>3, <1>6, <2>2, <2>3, LinkStays
  <2> QED BY <1>0, <2>4
<1>9. Path(d, a, n, f, m, r2, h, off)
  <2>1. off[Len(off)] <= Len(r2.bytes)
    BY <1>2, <1>5, <1>7
  <2>2. \A i \in 1 .. Len(off) : off[i] <= 2 * (i - 1) /\ off[i] <= off[Len(off)]
    BY <1>2, Zenon
  <2> QED BY <1>0, <1>2, <1>8, <2>1, <2>2 DEF Path
<1>10. Waiting(r2, h, off)
  BY <1>0, <1>2, <1>4, <1>7 DEF Waiting, Closed
<1>11. r2 \in LaneRecord
  <2>1. r2.left \in Nat /\ r2.x \in Nat /\ r2.pos \in Nat /\ r2.got \in Seq(ByteValues)
    BY <1>0, <1>3 DEF LaneRecord
  <2>2. IsLane(r2) /\ r2.flushed = TRUE
    BY <1>0 DEF Flushes
  <2> QED BY <1>7, <2>1, <2>2 DEF IsLane, LaneRecord
<1> QED BY <1>9, <1>10, <1>11 DEF LaneInv

\* The decoder takes the four bytes up.
Starts(r, r2) ==
  /\ IsLane(r2)
  /\ r.flushed /\ r.pos = 0
  /\ r2.x = r.bytes[1] + Base * (r.bytes[2] + Base * (r.bytes[3] + Base * r.bytes[4]))
  /\ r2.pos = 4
  /\ r2.left = r.left /\ r2.flushed = r.flushed /\ r2.bytes = r.bytes /\ r2.got = r.got

LEMMA LaneStarts ==
  ASSUME NEW d, NEW a \in Nat, NEW n \in Nat, NEW f, NEW m,
         NEW r, LaneInv(d, a, n, f, m, r), NEW r2, Starts(r, r2)
  PROVE  LaneInv(d, a, n, f, m, r2)
<1>0. /\ r.flushed /\ r.pos = 0
      /\ r2.x = r.bytes[1] + Base * (r.bytes[2] + Base * (r.bytes[3] + Base * r.bytes[4]))
      /\ r2.pos = 4
      /\ r2.left = r.left /\ r2.flushed = r.flushed /\ r2.bytes = r.bytes /\ r2.got = r.got
  BY DEF Starts
<1>1. PICK h, off : Path(d, a, n, f, m, r, h, off) /\ Waiting(r, h, off)
  BY <1>0 DEF LaneInv, Writing, Reading
<1>2. PICK e \in Nat \ {0} :
           /\ e = n - r.left + 1 /\ r.left \in 0 .. n
           /\ h \in Seq(States) /\ off \in Seq(Nat) /\ Len(h) = e /\ Len(off) = e
           /\ h[1] = RansL /\ off[1] = 0
           /\ \A i \in 1 .. e : /\ h[i] \in States /\ h[i] \in Nat /\ off[i] \in Nat
                               /\ off[i] <= 2 * (i - 1) /\ off[i] <= off[e]
           /\ \A i \in 1 .. e : i # e =>
                /\ i + 1 \in 1 .. e
                /\ Link(d[a + n + 1 - i], f, m, r.bytes, h[i], h[i + 1], off[i], off[i + 1])
  BY <1>1, PathParts
<1>3. h[e] \in States /\ off[e] \in Nat
  <2>1. e \in 1 .. e
    BY <1>2
  <2> QED BY <1>2, <2>1, Zenon
<1>4. r2.x = h[e]
  <2>1. \A j \in 1 .. 4 : r.bytes[j] = Shifted(h[e])[j - 1] % Base
    BY <1>1, <1>2, Zenon DEF Waiting, Closed
  <2>2. /\ r.bytes[1] = Shifted(h[e])[0] % Base /\ r.bytes[2] = Shifted(h[e])[1] % Base
        /\ r.bytes[3] = Shifted(h[e])[2] % Base /\ r.bytes[4] = Shifted(h[e])[3] % Base
    BY <2>1
  <2>3. h[e] = (Shifted(h[e])[0] % Base) + Base * ((Shifted(h[e])[1] % Base)
          + Base * ((Shifted(h[e])[2] % Base) + Base * (Shifted(h[e])[3] % Base)))
    BY <1>3, Unflushed, Zenon
  <2> QED BY <1>0, <2>2, <2>3, Zenon
<1>5. Path(d, a, n, f, m, r2, h, off)
  BY <1>0, <1>1 DEF Path
<1>6. Closed(r2, h, off) /\ r.got = <<>>
  BY <1>0, <1>1, Zenon DEF Waiting, Closed
<1>7. Reading(d, a, n, r2, h, off)
  <2>1. Len(r2.got) = 0
    BY <1>0, <1>6
  <2>2. e - 0 = e /\ 4 = 4 + off[e] - off[e]
    BY <1>2, <1>3
  <2> QED BY <1>0, <1>2, <1>4, <1>6, <2>1, <2>2 DEF Reading
<1>8. r2 \in LaneRecord
  <2>1. /\ r2.left \in Nat /\ r2.flushed \in BOOLEAN /\ r2.bytes \in Seq(ByteValues)
        /\ r2.got \in Seq(ByteValues)
    BY <1>0 DEF LaneInv, LaneRecord
  <2>2. r2.x \in Nat /\ r2.pos \in Nat
    BY <1>0, <1>3, <1>4, Ordering
  <2>3. IsLane(r2)
    BY DEF Starts
  <2> QED BY <2>1, <2>2, <2>3 DEF IsLane, LaneRecord
<1> QED BY <1>5, <1>7, <1>8 DEF LaneInv

\* The decoder takes symbol s off the lane and reads k bytes, which leaves state x.
Takes(r, s, k, x, r2) ==
  /\ IsLane(r2)
  /\ r2.x = x /\ r2.pos = r.pos + k /\ r2.got = Append(r.got, s)
  /\ r2.left = r.left /\ r2.flushed = r.flushed /\ r2.bytes = r.bytes

\* What a lane's decoder finds next: the state tells the next symbol s of d, and the
\* bytes that follow fill what is left of it up to x.
Finds(d, a, n, f, m, r, s, k, x) ==
  /\ s = d[a + Len(r.got) + 1] /\ f[s] > 0
  /\ r.x % m \in Nat
  /\ {t \in ByteValues : Cumulative(f)[t] <= r.x % m /\ r.x % m < Cumulative(f)[t + 1]} = {s}
  /\ Restores(f, m, s, r.x, x, k)
  /\ r.pos + k <= Len(r.bytes)
  /\ \A j \in 1 .. k : r.bytes[r.pos + j] = Shifted(x)[k - j] % Base
  /\ \A r2 : Takes(r, s, k, x, r2) => LaneInv(d, a, n, f, m, r2)

LEMMA LaneReads ==
  ASSUME NEW d, NEW a \in Nat, NEW n \in Nat, NEW f, NEW m, IsTable(f, m),
         NEW r, LaneInv(d, a, n, f, m, r), r.pos > 0, Len(r.got) < n
  PROVE  \E s \in ByteValues, k \in 0 .. 2, x \in States : Finds(d, a, n, f, m, r, s, k, x)
<1>1. PICK h, off : Path(d, a, n, f, m, r, h, off) /\ Reading(d, a, n, r, h, off)
  BY DEF LaneInv, Writing, Waiting
<1>2. PICK e \in Nat \ {0} :
           /\ e = n - r.left + 1 /\ r.left \in 0 .. n
           /\ h \in Seq(States) /\ off \in Seq(Nat) /\ Len(h) = e /\ Len(off) = e
           /\ h[1] = RansL /\ off[1] = 0
           /\ \A i \in 1 .. e : /\ h[i] \in States /\ h[i] \in Nat /\ off[i] \in Nat
                               /\ off[i] <= 2 * (i - 1) /\ off[i] <= off[e]
           /\ \A i \in 1 .. e : i # e =>
                /\ i + 1 \in 1 .. e
                /\ Link(d[a + n + 1 - i], f, m, r.bytes, h[i], h[i + 1], off[i], off[i + 1])
  BY <1>1, PathParts
<1>3. /\ r \in LaneRecord /\ r.bytes \in Seq(ByteValues) /\ r.got \in Seq(ByteValues)
      /\ Len(r.got) \in Nat
  BY DEF LaneInv, LaneRecord
<1>4. /\ r.flushed /\ r.left = 0 /\ Len(r.bytes) = off[e] + 4
      /\ \A j \in 1 .. Len(r.got) : r.got[j] = d[a + j]
      /\ r.x = h[e - Len(r.got)]
      /\ r.pos = 4 + off[e] - off[e - Len(r.got)]
      /\ Closed(r, h, off)
  BY <1>1, <1>2, Zenon DEF Reading, Closed
<1> DEFINE g == Len(r.got)
<1>5. PICK i \in 1 .. e : i # e /\ i + 1 = e - g /\ n + 1 - i = g + 1 /\ a + n + 1 - i = a + g + 1
  <2>1. e = n - 0 + 1
    BY <1>2, <1>4, Zenon
  <2>2. g \in 0 .. n - 1
    BY <1>3
  <2> HIDE DEF g
  <2>3. PICK i \in 1 .. e : i = n - g
    BY <2>1, <2>2
  <2>4. i # e /\ i + 1 = e - g /\ n + 1 - i = g + 1
    BY <2>1, <2>2, <2>3
  <2>5. a + n + 1 - i = a + (n + 1 - i) /\ a + (g + 1) = a + g + 1
    BY <2>2
  <2> QED BY <2>3, <2>4, <2>5
<1> HIDE DEF g
<1> DEFINE x == h[i]
           y == h[i + 1]
           p == off[i]
           q == off[i + 1]
           s == d[a + g + 1]
<1>6. /\ i + 1 \in 1 .. e /\ x \in States /\ y \in States /\ p \in Nat /\ q \in Nat /\ q <= off[e]
      /\ off[e] \in Nat /\ Link(s, f, m, r.bytes, x, y, p, q)
  <2>1. i + 1 \in 1 .. e /\ e \in 1 .. e
    BY <1>5
  <2>2. Link(d[a + n + 1 - i], f, m, r.bytes, h[i], h[i + 1], off[i], off[i + 1])
    BY <1>2, <1>5
  <2>3. Link(s, f, m, r.bytes, x, y, p, q)
    BY <1>5, <2>2, Zenon
  <2> QED BY <1>2, <2>1, <2>3, Zenon
<1>7. r.x = y /\ r.pos = 4 + off[e] - q
  BY <1>4, <1>5 DEF g
<1> HIDE DEF x, y, p, q, s
<1>8. PICK k \in 0 .. 2 : k = q - p /\ Codes(f, m, x, s, k, y)
        /\ \A j \in 1 .. k : r.bytes[Len(r.bytes) + 1 - (p + j)] = Shifted(x)[j - 1] % Base
  BY <1>6 DEF Link
<1>9. s \in ByteValues /\ f[s] > 0
  BY <1>8 DEF Codes
<1>10. /\ y % m \in Nat /\ Cumulative(f)[s] <= y % m /\ y % m < Cumulative(f)[s] + f[s]
       /\ Restores(f, m, s, y, x, k)
  <2>1. x \in States /\ Codes(f, m, x, s, k, y)
    BY <1>6, <1>8
  <2> QED BY <2>1, CodesBack, Zenon
<1>11. {t \in ByteValues : Cumulative(f)[t] <= y % m /\ y % m < Cumulative(f)[t + 1]} = {s}
  <2> DEFINE slot == y % m
  <2>1. slot \in Nat /\ Cumulative(f)[s] <= slot /\ slot < Cumulative(f)[s] + f[s]
    BY <1>10
  <2> HIDE DEF slot
  <2>2. {t \in ByteValues : Cumulative(f)[t] <= slot /\ slot < Cumulative(f)[t + 1]} = {s}
    BY <1>9, <2>1, SlotOf
  <2> QED BY <2>2 DEF slot
<1>12. r.pos + k = 4 + off[e] - p /\ r.pos + k <= Len(r.bytes) /\ r.pos + k \in Nat
  BY <1>4, <1>6, <1>7, <1>8
<1>13. ASSUME NEW j \in 1 .. k PROVE r.bytes[r.pos + j] = Shifted(x)[k - j] % Base
  <2>1. PICK u \in 1 .. k : u = k + 1 - j /\ u - 1 = k - j
    OBVIOUS
  <2>2. Len(r.bytes) + 1 - (p + u) = r.pos + j
    BY <1>4, <1>6, <1>7, <1>8, <2>1
  <2>3. r.bytes[Len(r.bytes) + 1 - (p + u)] = Shifted(x)[u - 1] % Base
    BY <1>8
  <2> QED BY <2>1, <2>2, <2>3
<1>14. ASSUME NEW r2, Takes(r, s, k, x, r2) PROVE LaneInv(d, a, n, f, m, r2)
  <2>0. /\ IsLane(r2) /\ r2.x = x /\ r2.pos = r.pos + k /\ r2.got = Append(r.got, s)
        /\ r2.left = r.left /\ r2.flushed = r.flushed /\ r2.bytes = r.bytes
    BY <1>14, Zenon DEF Takes
  <2>1. r2.got \in Seq(ByteValues) /\ Len(r2.got) = g + 1 /\ r2.got[g + 1] = s
        /\ \A j \in 1 .. g : r2.got[j] = r.got[j]
    BY <1>3, <1>9, <2>0 DEF g
  <2>2. ASSUME NEW j \in 1 .. Len(r2.got) PROVE r2.got[j] = d[a + j]
    <3>1. CASE j = g + 1
      <4>1. a + j = a + g + 1
        BY <1>3, <3>1 DEF g
      <4> QED BY <2>1, <3>1, <4>1 DEF s
    <3>2. CASE j # g + 1
      <4>1. j \in 1 .. g
        BY <1>3, <2>1, <3>2 DEF g
      <4> QED BY <1>4, <2>1, <4>1 DEF g
    <3> QED BY <3>1, <3>2
  <2>3. Path(d, a, n, f, m, r2, h, off)
    BY <1>1, <2>0 DEF Path
  <2>4. Closed(r2, h, off)
    BY <1>4, <2>0, Zenon DEF Closed
  <2>5. e - Len(r2.got) = i /\ Len(r2.got) <= n
    <3>1. g \in Nat /\ g < n
      BY <1>3 DEF g
    <3>2. Len(r2.got) = g + 1
      BY <2>1
    <3> QED BY <1>5, <3>1, <3>2
  <2>6. r2.x = h[Len(h) - Len(r2.got)] /\ off[Len(off) - Len(r2.got)] = p
    BY <1>2, <2>0, <2>5, Zenon DEF x, p
  <2>7. r2.pos = 4 + off[e] - p /\ r2.pos > 0
    BY <1>6, <1>8, <1>12, <2>0
  <2>8. Reading(d, a, n, r2, h, off)
    <3>1. off[Len(off)] = off[e]
      BY <1>2
    <3> QED BY <2>2, <2>4, <2>5, <2>6, <2>7, <3>1 DEF Reading
  <2>9. r2 \in LaneRecord
    <3>1. r2.left \in Nat /\ r2.flushed \in BOOLEAN /\ r2.bytes \in Seq(ByteValues)
      BY <1>3, <2>0 DEF LaneRecord
    <3>2. r2.x \in Nat /\ r2.pos \in Nat
      BY <1>6, <1>12, <2>0, Ordering
    <3> QED BY <2>0, <2>1, <3>1, <3>2 DEF IsLane, LaneRecord
  <2> QED BY <2>3, <2>8, <2>9 DEF LaneInv
<1>15. s = d[a + Len(r.got) + 1]
  BY DEF s, g
<1>16. Finds(d, a, n, f, m, r, s, k, x)
  BY <1>7, <1>9, <1>10, <1>11, <1>12, <1>13, <1>14, <1>15, Zenon DEF Finds
<1> QED BY <1>6, <1>8, <1>9, <1>16

\* A lane of n symbols that gave them all back is where its encoder began.
BackAtStart(r, n) == Len(r.got) = n /\ n > 0 => r.pos = Len(r.bytes) /\ r.x = RansL

\* What the invariant says of a lane.
LEMMA LaneFacts ==
  ASSUME NEW d, NEW a \in Nat, NEW n \in Nat, NEW f, NEW m,
         NEW r, LaneInv(d, a, n, f, m, r)
  PROVE  /\ r.x \in States
         /\ Len(r.bytes) <= 2 * n + 4 /\ r.pos <= Len(r.bytes)
         /\ r.flushed => 4 <= Len(r.bytes)
         /\ r.left <= n
         /\ \A j \in 1 .. Len(r.got) : r.got[j] = d[a + j]
         /\ Len(r.got) <= n
         /\ BackAtStart(r, n)
<1>1. PICK h, off : /\ Path(d, a, n, f, m, r, h, off)
                    /\ Writing(r, h, off) \/ Waiting(r, h, off) \/ Reading(d, a, n, r, h, off)
  BY DEF LaneInv
<1>2. PICK e \in Nat \ {0} :
           /\ e = n - r.left + 1 /\ r.left \in 0 .. n
           /\ h \in Seq(States) /\ off \in Seq(Nat) /\ Len(h) = e /\ Len(off) = e
           /\ h[1] = RansL /\ off[1] = 0
           /\ \A i \in 1 .. e : /\ h[i] \in States /\ h[i] \in Nat /\ off[i] \in Nat
                               /\ off[i] <= 2 * (i - 1) /\ off[i] <= off[e]
           /\ \A i \in 1 .. e : i # e =>
                /\ i + 1 \in 1 .. e
                /\ Link(d[a + n + 1 - i], f, m, r.bytes, h[i], h[i + 1], off[i], off[i + 1])
  BY <1>1, PathParts
<1>3. /\ r \in LaneRecord /\ Len(r.bytes) \in Nat /\ Len(r.got) \in Nat
  BY DEF LaneInv, LaneRecord
<1>4. e \in 1 .. e /\ off[e] <= 2 * n /\ off[e] \in Nat /\ h[e] \in States /\ r.left <= n
  <2>1. e \in 1 .. e /\ e - 1 <= n /\ r.left <= n
    BY <1>2
  <2>2. off[e] <= 2 * (e - 1) /\ off[e] \in Nat /\ h[e] \in States
    BY <1>2, <2>1, Zenon
  <2> QED BY <2>1, <2>2
<1>5. CASE Writing(r, h, off)
  <2>1. ~r.flushed /\ r.pos = 0 /\ r.got = <<>> /\ r.x = h[e] /\ Len(r.bytes) = off[e]
    BY <1>2, <1>5, Zenon DEF Writing
  <2> QED BY <1>4, <2>1 DEF BackAtStart
<1>6. CASE Waiting(r, h, off)
  <2>1. r.pos = 0 /\ r.got = <<>> /\ r.x = h[e] /\ Len(r.bytes) = off[e] + 4
    BY <1>2, <1>6, Zenon DEF Waiting, Closed
  <2> QED BY <1>4, <2>1 DEF BackAtStart
<1>7. CASE Reading(d, a, n, r, h, off)
  <2>1. /\ r.left = 0 /\ Len(r.bytes) = off[e] + 4
        /\ Len(r.got) <= n /\ \A j \in 1 .. Len(r.got) : r.got[j] = d[a + j]
        /\ r.x = h[e - Len(r.got)] /\ r.pos = 4 + off[e] - off[e - Len(r.got)]
    BY <1>2, <1>7, Zenon DEF Reading, Closed
  <2>2. PICK i \in 1 .. e : i = e - Len(r.got) /\ (Len(r.got) = n => i = 1)
    <3>1. e = n - 0 + 1
      BY <1>2, <2>1, Zenon
    <3>2. Len(r.got) \in 0 .. n
      BY <1>3, <2>1
    <3> DEFINE g == Len(r.got)
    <3>3. g \in 0 .. n
      BY <3>2
    <3> HIDE DEF g
    <3>4. \E i \in 1 .. e : i = e - g /\ (g = n => i = 1)
      BY <3>1, <3>3
    <3> QED BY <3>4 DEF g
  <2>3. off[i] \in Nat /\ h[i] \in States
    BY <1>2
  <2>4. r.x = h[i] /\ r.pos = 4 + off[e] - off[i]
    BY <2>1, <2>2
  <2>5. Len(r.got) = n => off[i] = 0 /\ h[i] = RansL
    BY <1>2, <2>2, Zenon
  <2> QED BY <1>3, <1>4, <2>1, <2>3, <2>4, <2>5 DEF BackAtStart
<1> QED BY <1>1, <1>5, <1>6, <1>7
-----------------------------------------------------------------------------
(* The frequencies.                                                         *)

\* A function of the symbols has a first largest value on every set of them.
LEMMA FirstLargest ==
  ASSUME NEW f \in [ByteValues -> Nat], NEW S, S \subseteq ByteValues, S # {}
  PROVE  \E s \in S : \A t \in S : f[t] < f[s] \/ (f[t] = f[s] /\ s <= t)
<1> DEFINE top == Cumulative(f)[Base]
<1>1. top \in Nat /\ \A s \in ByteValues : f[s] \in Nat /\ f[s] <= top
  <2>1. \A s \in ByteValues : /\ Cumulative(f)[s] \in Nat
                              /\ Cumulative(f)[s] + f[s] <= Cumulative(f)[Base]
    BY Shares
  <2>2. Base \in 0 .. Base
    BY ByteAssumption
  <2>3. Cumulative(f)[Base] \in Nat
    BY <2>2, CumulativeIs
  <2> QED BY <2>1, <2>3
<1> HIDE DEF top
<1> DEFINE Gaps == {top - f[s] : s \in S}
<1>2. PICK gap \in Gaps : \A v \in Gaps : gap <= v
  <2>1. Gaps \subseteq Nat /\ Gaps # {}
    BY <1>1
  <2> HIDE DEF Gaps
  <2> QED BY <2>1, Least
<1>3. PICK u \in S : gap = top - f[u]
  OBVIOUS
<1>4. \A t \in S : f[t] <= f[u]
  <2> SUFFICES ASSUME NEW t \in S PROVE f[t] <= f[u]
    OBVIOUS
  <2>1. top - f[u] <= top - f[t]
    BY <1>2, <1>3
  <2>2. f[t] \in Nat /\ f[u] \in Nat
    BY <1>1
  <2> QED BY <1>1, <2>1, <2>2
<1> DEFINE Tops == {t \in S : f[t] = f[u]}
<1>5. PICK s \in Tops : \A t \in Tops : s <= t
  <2>1. ByteValues \subseteq Nat
    BY ByteAssumption DEF ByteValues
  <2>2. Tops \subseteq Nat /\ u \in Tops
    BY <2>1
  <2> HIDE DEF Tops
  <2> QED BY <2>2, Least
<1>6. ASSUME NEW t \in S PROVE f[t] < f[s] \/ (f[t] = f[s] /\ s <= t)
  <2>1. f[t] \in Nat /\ f[s] \in Nat /\ f[s] = f[u] /\ f[t] <= f[u]
    BY <1>1, <1>4
  <2>2. CASE f[t] = f[u]
    BY <1>5, <2>1, <2>2
  <2>3. CASE f[t] # f[u]
    BY <2>1, <2>3
  <2> QED BY <2>2, <2>3
<1> QED BY <1>6

\* A unit more or less for one symbol is one more or less in all.
LEMMA Nudged ==
  ASSUME NEW f \in [ByteValues -> Nat], NEW u \in {1, -1}, NEW s \in ByteValues,
         f[s] + u \in Nat
  PROVE  /\ [f EXCEPT ![s] = @ + u] \in [ByteValues -> Nat]
         /\ Cumulative([f EXCEPT ![s] = @ + u])[Base] = Cumulative(f)[Base] + u
<1> DEFINE f2 == [f EXCEPT ![s] = @ + u]
           c == Cumulative(f)
           c2 == Cumulative(f2)
<1>0. Base \in Nat /\ Base > 0 /\ s \in 0 .. Base - 1
  BY ByteAssumption DEF ByteValues
<1>1. f2 \in [ByteValues -> Nat] /\ f2[s] = f[s] + u /\ \A t \in ByteValues : t # s => f2[t] = f[t]
  OBVIOUS
<1> HIDE DEF f2
<1>2. c \in [0 .. Base -> Nat] /\ c[0] = 0 /\ \A t \in ByteValues : c[t + 1] = c[t] + f[t]
  BY CumulativeIs
<1>3. c2 \in [0 .. Base -> Nat] /\ c2[0] = 0 /\ \A t \in ByteValues : c2[t + 1] = c2[t] + f2[t]
  BY <1>1, CumulativeIs
<1> HIDE DEF c, c2
<1> DEFINE Good == {t \in 0 .. Base : c2[t] = c[t] + (IF s < t THEN u ELSE 0)}
<1>4. 0 \in Good
  BY <1>0, <1>2, <1>3
<1>5. ASSUME NEW v \in 1 .. Base, v - 1 \in Good PROVE v \in Good
  <2>1. PICK t \in ByteValues : t = v - 1 /\ v = t + 1 /\ t \in 0 .. Base
    BY <1>0 DEF ByteValues
  <2>2. c2[t] = c[t] + (IF s < t THEN u ELSE 0)
    BY <1>5, <2>1
  <2>3. c2[v] = c2[t] + f2[t] /\ c[v] = c[t] + f[t]
    BY <1>2, <1>3, <2>1
  <2>4. c[t] \in Nat /\ f[t] \in Nat
    BY <1>2, <2>1
  <2>5. CASE t = s
    <3>1. f2[t] = f[t] + u /\ ~(s < t) /\ s < v
      BY <1>0, <1>1, <2>1, <2>5
    <3> QED BY <2>2, <2>3, <2>4, <3>1
  <2>6. CASE t # s
    <3>1. f2[t] = f[t] /\ (s < t) = (s < v)
      BY <1>0, <1>1, <2>1, <2>6
    <3> QED BY <2>2, <2>3, <2>4, <3>1
  <2> QED BY <2>5, <2>6
<1>6. Base \in Good
  <2> HIDE DEF Good
  <2>1. \A t \in 0 .. Base : t \in Good
    BY <1>0, <1>4, <1>5, Climb
  <2> QED BY <1>0, <2>1
<1>7. c2[Base] = c[Base] + u
  BY <1>0, <1>6
<1> QED BY <1>1, <1>7 DEF c, c2, f2

\* Symbols with at most a unit each add up to as many as have one.
LEMMA Units ==
  ASSUME NEW f \in [ByteValues -> Nat], \A s \in ByteValues : f[s] <= 1
  PROVE  Cumulative(f)[Base] = Cardinality({s \in ByteValues : f[s] > 0})
<1> DEFINE c == Cumulative(f)
           Below(v) == {s \in ByteValues : s < v /\ f[s] > 0}
<1>0. Base \in Nat /\ Base > 0
  BY ByteAssumption
<1>1. c \in [0 .. Base -> Nat] /\ c[0] = 0 /\ \A t \in ByteValues : c[t + 1] = c[t] + f[t]
  BY CumulativeIs
<1> HIDE DEF c
<1> DEFINE Good == {v \in 0 .. Base : IsFiniteSet(Below(v)) /\ c[v] = Cardinality(Below(v))}
<1>2. 0 \in Good
  <2>1. Below(0) = {}
    BY DEF ByteValues
  <2> HIDE DEF Below
  <2>2. IsFiniteSet(Below(0)) /\ Cardinality(Below(0)) = 0
    BY <2>1, FS_EmptySet
  <2> QED BY <1>0, <1>1, <2>2
<1>3. ASSUME NEW v \in 1 .. Base, v - 1 \in Good PROVE v \in Good
  <2>1. PICK t \in ByteValues : t = v - 1 /\ v = t + 1 /\ t \in 0 .. Base
    BY <1>0 DEF ByteValues
  <2>2. IsFiniteSet(Below(t)) /\ c[t] = Cardinality(Below(t)) /\ c[t] \in Nat
    BY <1>1, <1>3, <2>1
  <2>3. c[v] = c[t] + f[t] /\ f[t] \in Nat /\ f[t] <= 1
    BY <1>1, <2>1
  <2>4. t \notin Below(t) /\ v \in 0 .. Base
    BY <2>1 DEF ByteValues
  <2>5. CASE f[t] > 0
    <3>1. Below(v) = Below(t) \cup {t}
      BY <2>1, <2>5 DEF ByteValues
    <3> HIDE DEF Below
    <3>2. IsFiniteSet(Below(v)) /\ Cardinality(Below(v)) = Cardinality(Below(t)) + 1
      BY <2>2, <2>4, <3>1, FS_AddElement
    <3> QED BY <2>2, <2>3, <2>4, <2>5, <3>2
  <2>6. CASE ~(f[t] > 0)
    <3>1. Below(v) = Below(t)
      BY <2>1, <2>6 DEF ByteValues
    <3> HIDE DEF Below
    <3> QED BY <2>2, <2>3, <2>4, <2>6, <3>1
  <2> QED BY <2>5, <2>6
<1>4. Base \in Good
  <2> HIDE DEF Good
  <2>1. \A t \in 0 .. Base : t \in Good
    BY <1>0, <1>2, <1>3, Climb
  <2> QED BY <1>0, <2>1
<1>5. Below(Base) = {s \in ByteValues : f[s] > 0}
  BY <1>0 DEF ByteValues
<1> QED BY <1>4, <1>5 DEF c
-----------------------------------------------------------------------------
(* The state of the coder.                                                  *)

RansTypes ==
  /\ ransData \in Seq(ByteValues) /\ numLanes \in Nat \ {0}
  /\ M \in Nat \ {0} /\ M <= Base * Base /\ RansL % M = 0
  /\ ransPc \in {"quantize", "normalize", "encode", "decode", "done", "overrun"}
  /\ ransFreq \in [ByteValues -> Nat] /\ diff \in Int
  /\ ransOut \in [DOMAIN ransData -> ByteValues \cup {-1}]
  /\ ransPc # "done" => ransData # <<>>

\* What is missing from M, and who has a frequency.
Frequencies ==
  /\ ransPc \in {"normalize", "encode", "decode"} =>
       /\ diff = M - Cum(Base)
       /\ \A s \in ByteValues : (s \in Occurring) = (ransFreq[s] > 0)
  /\ ransPc \in {"encode", "decode"} => diff = 0
  /\ ransPc = "overrun" => Cardinality(Occurring) > M

InLane(l) == LaneInv(ransData, LaneStart(l), LaneSize(l), ransFreq, M, lane[l])

LanesHold ==
  /\ ransPc \in {"encode", "decode", "done"} /\ ransData # <<>> =>
       DOMAIN lane = Lanes /\ \A l \in Lanes : InLane(l)
  /\ ransPc = "decode" => \A l \in Lanes : lane[l].flushed

\* The places of a lane in the data.
Places(l) == LaneStart(l) + 1 .. LaneStart(l) + LaneSize(l)

Outputs ==
  /\ \A j \in DOMAIN ransData : ransOut[j] \in {-1, ransData[j]}
  /\ ransPc \notin {"decode", "done"} => \A j \in DOMAIN ransData : ransOut[j] = -1
  /\ ransPc = "done" => \A j \in DOMAIN ransData : ransOut[j] # -1
  /\ ransPc \in {"decode", "done"} /\ ransData # <<>> =>
       \A l \in Lanes : \A j \in Places(l) :
         ransOut[j] # -1 => Len(lane[l].got) = LaneSize(l)

RansInv == RansTypes /\ Frequencies /\ LanesHold /\ Outputs

\* The lanes cut the data into parts that follow one another.
LEMMA Cuts ==
  ASSUME ransData \in Seq(ByteValues), numLanes \in Nat \ {0}
  PROVE  /\ \A l \in 1 .. numLanes + 1 : LaneStart(l) \in Nat
         /\ \A l, m \in 1 .. numLanes + 1 : l <= m => LaneStart(l) <= LaneStart(m)
         /\ LaneStart(1) = 0 /\ LaneStart(numLanes + 1) = Len(ransData)
<1> DEFINE len == Len(ransData)
           b == len \div numLanes
           r == len % numLanes
           Start(l) == (l - 1) * b + (IF l - 1 < r THEN l - 1 ELSE r)
<1>1. len \in Nat /\ len \in Int
  OBVIOUS
<1> HIDE DEF len
<1>2. r \in 0 .. numLanes - 1 /\ len = numLanes * b + r
  BY <1>1, DivMod, Zenon
<1>3. b \in Nat
  BY <1>1, Quotient
<1>4. \A l : LaneStart(l) = Start(l)
  BY Zenon DEF LaneStart, len
<1> HIDE DEF b, r
<1>5. \A l \in 1 .. numLanes + 1 : Start(l) \in Nat
  <2> SUFFICES ASSUME NEW l \in 1 .. numLanes + 1 PROVE Start(l) \in Nat
    OBVIOUS
  <2>1. PICK i \in Nat : i = l - 1
    OBVIOUS
  <2>2. i * b \in Nat
    BY <1>3
  <2> QED BY <1>2, <2>1, <2>2
<1>6. ASSUME NEW l \in 1 .. numLanes + 1, NEW m \in 1 .. numLanes + 1, l <= m
      PROVE  Start(l) <= Start(m)
  <2>1. PICK i \in Nat, k \in Nat : i = l - 1 /\ k = m - 1 /\ i <= k
    BY <1>6
  <2>2. i * b <= k * b /\ i * b \in Nat /\ k * b \in Nat
    BY <1>3, <2>1, Monotone
  <2> QED BY <1>2, <2>1, <2>2
<1>7. Start(1) = 0
  <2>1. 0 * b = 0
    BY <1>3
  <2> QED BY <1>2, <2>1
<1>8. Start(numLanes + 1) = len
  <2>1. numLanes + 1 - 1 = numLanes /\ ~(numLanes < r)
    BY <1>2
  <2> QED BY <1>2, <2>1
<1> HIDE DEF Start
<1> QED BY <1>4, <1>5, <1>6, <1>7, <1>8, Zenon DEF len

LEMMA LanePlaces ==
  ASSUME ransData \in Seq(ByteValues), numLanes \in Nat \ {0}, NEW l \in Lanes
  PROVE  /\ LaneStart(l) \in Nat /\ LaneSize(l) \in Nat
         /\ LaneStart(l) + LaneSize(l) <= Len(ransData)
         /\ \A j \in Places(l) : j \in DOMAIN ransData
         /\ \A o \in Lanes : o # l => Places(l) \cap Places(o) = {}
<1>1. /\ \A o \in 1 .. numLanes + 1 : LaneStart(o) \in Nat
      /\ \A o, m \in 1 .. numLanes + 1 : o <= m => LaneStart(o) <= LaneStart(m)
      /\ LaneStart(numLanes + 1) = Len(ransData) /\ Len(ransData) \in Nat
  BY Cuts
<1>2. /\ numLanes + 1 \in 1 .. numLanes + 1
      /\ \A o \in Lanes : o \in 1 .. numLanes + 1 /\ o + 1 \in 1 .. numLanes + 1 /\ o <= o + 1
                           /\ o + 1 <= numLanes + 1
  BY DEF Lanes
<1>3. \A o \in Lanes : /\ LaneStart(o) \in Nat /\ LaneStart(o + 1) \in Nat
                       /\ LaneStart(o) <= LaneStart(o + 1)
                       /\ LaneStart(o + 1) <= LaneStart(numLanes + 1)
  BY <1>1, <1>2, Zenon
<1>4. \A o \in Lanes : /\ LaneSize(o) \in Nat /\ LaneStart(o) + LaneSize(o) = LaneStart(o + 1)
                       /\ Places(o) = LaneStart(o) + 1 .. LaneStart(o + 1)
  <2> SUFFICES ASSUME NEW o \in Lanes
               PROVE  /\ LaneSize(o) \in Nat /\ LaneStart(o) + LaneSize(o) = LaneStart(o + 1)
                      /\ Places(o) = LaneStart(o) + 1 .. LaneStart(o + 1)
    OBVIOUS
  <2> DEFINE p == LaneStart(o)
             q == LaneStart(o + 1)
  <2>1. p \in Nat /\ q \in Nat /\ p <= q
    BY <1>3
  <2>2. LaneSize(o) = q - p
    BY Zenon DEF LaneSize
  <2> HIDE DEF p, q
  <2>3. LaneSize(o) \in Nat /\ p + LaneSize(o) = q
    BY <2>1, <2>2
  <2> QED BY <2>3, Zenon DEF Places, p, q
<1>5. ASSUME NEW o \in Lanes, o # l PROVE Places(l) \cap Places(o) = {}
  <2>1. CASE o < l
    <3>1. o + 1 <= l
      BY <2>1 DEF Lanes
    <3>2. LaneStart(o + 1) <= LaneStart(l)
      BY <1>1, <1>2, <3>1, Zenon
    <3> DEFINE p == LaneStart(o)
               q == LaneStart(o + 1)
               u == LaneStart(l)
               v == LaneStart(l + 1)
    <3>3. p \in Nat /\ q \in Nat /\ u \in Nat /\ v \in Nat /\ q <= u
      BY <1>3, <3>2
    <3>4. Places(l) = u + 1 .. v /\ Places(o) = p + 1 .. q
      BY <1>4
    <3> HIDE DEF p, q, u, v
    <3> QED BY <3>3, <3>4
  <2>2. CASE l < o
    <3>1. l + 1 <= o
      BY <2>2 DEF Lanes
    <3>2. LaneStart(l + 1) <= LaneStart(o)
      BY <1>1, <1>2, <3>1, Zenon
    <3> DEFINE p == LaneStart(o)
               q == LaneStart(o + 1)
               u == LaneStart(l)
               v == LaneStart(l + 1)
    <3>3. p \in Nat /\ q \in Nat /\ u \in Nat /\ v \in Nat /\ v <= p
      BY <1>3, <3>2
    <3>4. Places(l) = u + 1 .. v /\ Places(o) = p + 1 .. q
      BY <1>4
    <3> HIDE DEF p, q, u, v
    <3> QED BY <3>3, <3>4
  <2> QED BY <1>5, <2>1, <2>2 DEF Lanes
<1>6. \A j \in Places(l) : j \in DOMAIN ransData
  <2> DEFINE u == LaneStart(l)
             v == LaneStart(l + 1)
  <2>1. u \in Nat /\ v \in Nat /\ v <= Len(ransData) /\ Places(l) = u + 1 .. v
    BY <1>1, <1>3, <1>4
  <2> HIDE DEF u, v
  <2> QED BY <1>1, <2>1
<1>7. LaneStart(l) + LaneSize(l) <= Len(ransData)
  BY <1>1, <1>3, <1>4
<1> QED BY <1>3, <1>4, <1>5, <1>6, <1>7

\* How often a symbol occurs is a number, and every symbol of the data occurs.
LEMMA Counts ==
  ASSUME ransData \in Seq(ByteValues)
  PROVE  /\ \A s \in ByteValues : Count(s) \in Nat
         /\ \A j \in DOMAIN ransData : ransData[j] \in Occurring
<1>1. ASSUME NEW s PROVE /\ IsFiniteSet({j \in DOMAIN ransData : ransData[j] = s})
                         /\ Count(s) \in Nat
  <2> DEFINE S == {j \in DOMAIN ransData : ransData[j] = s}
  <2>1. S \subseteq 1 .. Len(ransData) /\ 1 \in Int /\ Len(ransData) \in Int
    OBVIOUS
  <2> HIDE DEF S
  <2>2. IsFiniteSet(1 .. Len(ransData))
    BY <2>1, FS_Interval
  <2>3. IsFiniteSet(S)
    BY <2>1, <2>2, FS_Subset, Zenon
  <2>4. Cardinality(S) \in Nat
    BY <2>3, FS_CardinalityType
  <2> QED BY <2>3, <2>4 DEF Count, S
<1>2. ASSUME NEW j \in DOMAIN ransData PROVE ransData[j] \in Occurring
  <2> DEFINE S == {i \in DOMAIN ransData : ransData[i] = ransData[j]}
  <2>1. j \in S /\ ransData[j] \in ByteValues
    OBVIOUS
  <2>2. IsFiniteSet(S) /\ Count(ransData[j]) \in Nat
    BY <1>1
  <2>3. Count(ransData[j]) = Cardinality(S)
    BY DEF Count
  <2> HIDE DEF S
  <2>4. Cardinality(S) # 0
    BY <2>1, <2>2, FS_EmptySet
  <2> QED BY <2>1, <2>2, <2>3, <2>4 DEF Occurring
<1> QED BY <1>1, <1>2

LEMMA RansInvInit == RansInit => RansInv
<1> SUFFICES ASSUME RansInit PROVE RansInv
  OBVIOUS
<1>1. /\ ransData \in Seq(ByteValues) /\ ransFreq = [s \in ByteValues |-> 0] /\ diff = 0
      /\ ransOut = [j \in DOMAIN ransData |-> -1]
      /\ ransPc = IF ransData = <<>> THEN "done" ELSE "quantize"
  BY RansAssumption DEF RansInit
<1>2. numLanes \in Nat \ {0}
  <2>1. PICK lanes \in LaneChoices : numLanes = IF lanes <= 0 THEN 1 ELSE lanes
    BY DEF RansInit
  <2>2. lanes \in Int
    BY RansAssumption
  <2> QED BY <2>1, <2>2
<1>3. M \in Nat \ {0} /\ M <= Base * Base /\ RansL % M = 0
  <2>1. PICK bits \in ScaleChoices :
          M = PowerOfTwo[IF bits <= 0 \/ bits > MaxScale THEN DefaultScale ELSE bits]
    BY DEF RansInit
  <2>2. bits \in Int /\ MaxScale \in Nat /\ DefaultScale \in 1 .. MaxScale
    BY RansAssumption
  <2>3. PICK b \in 1 .. MaxScale : M = PowerOfTwo[b]
    BY <2>1, <2>2
  <2>4. b \in 0 .. MaxScale
    BY <2>2
  <2> QED BY <2>3, <2>4, ScalesAre, RansAssumption
<1>4. RansTypes
  BY <1>1, <1>2, <1>3 DEF RansTypes
<1>5. Frequencies
  BY <1>1 DEF Frequencies
<1>6. LanesHold
  BY <1>1 DEF LanesHold
<1>7. Outputs
  <2>1. ransPc = "done" => DOMAIN ransData = {}
    BY <1>1
  <2> QED BY <1>1, <2>1 DEF Outputs
<1> QED BY <1>4, <1>5, <1>6, <1>7 DEF RansInv

\* Nothing that a step does not change moves what the lanes are cut by or how often a
\* symbol occurs.
LEMMA CutsStay ==
  ASSUME UNCHANGED <<ransData, numLanes>>
  PROVE  /\ Lanes' = Lanes /\ Occurring' = Occurring
         /\ \A l : /\ LaneStart(l)' = LaneStart(l) /\ LaneSize(l)' = LaneSize(l)
                   /\ Places(l)' = Places(l)
<1>1. ransData' = ransData /\ numLanes' = numLanes
  OBVIOUS
<1>2. Lanes' = Lanes
  BY <1>1, Zenon DEF Lanes
<1>3. \A s : Count(s)' = Count(s)
  BY <1>1, Zenon DEF Count
<1>4. Occurring' = Occurring
  BY <1>3 DEF Occurring
<1>5. \A l : LaneStart(l)' = LaneStart(l)
  BY <1>1, Zenon DEF LaneStart
<1>6. \A l : LaneSize(l)' = LaneSize(l)
  BY <1>5, Zenon DEF LaneSize
<1>7. \A l : Places(l)' = Places(l)
  BY <1>5, <1>6, Zenon DEF Places
<1> QED BY <1>2, <1>4, <1>5, <1>6, <1>7, Zenon

LEMMA QuantizeStep == RansInv /\ Quantize => RansInv'
<1> SUFFICES ASSUME RansInv, Quantize PROVE RansInv'
  OBVIOUS
<1>1. /\ RansTypes /\ Frequencies /\ LanesHold /\ Outputs
  BY DEF RansInv
<1>2. /\ ransPc = "quantize" /\ ransFreq' = Quantized /\ ransPc' = "normalize"
      /\ diff' = M - Cumulative(Quantized)[Base]
      /\ ransData' = ransData /\ numLanes' = numLanes /\ M' = M /\ lane' = lane /\ ransOut' = ransOut
  BY DEF Quantize
<1>3. /\ ransData \in Seq(ByteValues) /\ M \in Nat \ {0} /\ Len(ransData) \in Nat \ {0}
  BY <1>1, <1>2 DEF RansTypes
<1>4. Occurring' = Occurring
  BY <1>2, CutsStay
<1>5. ASSUME NEW s \in ByteValues
      PROVE  Quantized[s] \in Nat /\ (s \in Occurring) = (Quantized[s] > 0)
  <2> DEFINE c == Count(s)
             v == (c * M) \div Len(ransData)
  <2>1. c \in Nat
    BY <1>3, Counts
  <2>2. (s \in Occurring) = (c > 0)
    BY DEF Occurring
  <2>3. Quantized[s] = IF s \in Occurring /\ v = 0 THEN 1 ELSE v
    BY DEF Quantized
  <2> HIDE DEF c
  <2>4. c * M \in Nat /\ (c = 0 => c * M = 0)
    BY <1>3, <2>1
  <2>5. v \in Nat /\ (c = 0 => v = 0)
    <3> DEFINE w == c * M
    <3>1. w \in Nat /\ (c = 0 => w = 0)
      BY <2>4
    <3> HIDE DEF w
    <3>2. w \div Len(ransData) \in Nat /\ (w = 0 => w \div Len(ransData) = 0)
      BY <1>3, <3>1
    <3> QED BY <3>1, <3>2 DEF w
  <2> HIDE DEF v
  <2> QED BY <2>1, <2>2, <2>3, <2>5
<1>6. Quantized \in [ByteValues -> Nat]
  BY <1>5 DEF Quantized
<1>7. Cumulative(Quantized)[Base] \in Nat
  <2>1. Base \in 0 .. Base
    BY ByteAssumption
  <2> QED BY <1>6, <2>1, CumulativeIs
<1>8. diff' \in Int
  BY <1>2, <1>3, <1>7
<1>9. RansTypes'
  BY <1>1, <1>2, <1>6, <1>8 DEF RansTypes
<1>10. Frequencies'
  <2>1. Cum(Base)' = Cumulative(ransFreq')[Base]
    BY Zenon DEF Cum
  <2> HIDE DEF Quantize
  <2>2. diff' = M' - Cum(Base)'
    BY <1>2, <2>1, Zenon
  <2>3. \A s \in ByteValues : (s \in Occurring') = (ransFreq'[s] > 0)
    BY <1>2, <1>4, <1>5
  <2> QED BY <1>2, <2>2, <2>3 DEF Frequencies
<1>11. LanesHold'
  BY <1>2 DEF LanesHold
<1>12. Outputs'
  BY <1>1, <1>2 DEF Outputs
<1> QED BY <1>9, <1>10, <1>11, <1>12 DEF RansInv

LEMMA NudgeStep == RansInv /\ Nudge => RansInv'
<1> SUFFICES ASSUME RansInv, Nudge PROVE RansInv'
  OBVIOUS
<1>1. /\ RansTypes /\ Frequencies /\ LanesHold /\ Outputs
  BY DEF RansInv
<1> DEFINE unit == IF diff > 0 THEN 1 ELSE -1
<1>2. /\ ransPc = "normalize" /\ diff # 0 /\ Adjustable # {} /\ ransPc' = ransPc
      /\ ransFreq' = [ransFreq EXCEPT ![Largest] = @ + unit] /\ diff' = diff - unit
      /\ ransData' = ransData /\ numLanes' = numLanes /\ M' = M /\ lane' = lane /\ ransOut' = ransOut
  BY DEF Nudge
<1>3. /\ ransFreq \in [ByteValues -> Nat] /\ diff \in Int /\ M \in Nat
      /\ diff = M - Cum(Base) /\ \A s \in ByteValues : (s \in Occurring) = (ransFreq[s] > 0)
  BY <1>1, <1>2 DEF RansTypes, Frequencies
<1>4. Largest \in Adjustable
  <2>1. Adjustable \subseteq ByteValues
    BY DEF Adjustable
  <2>2. \E s \in Adjustable :
          \A t \in Adjustable :
            ransFreq[t] < ransFreq[s] \/ (ransFreq[t] = ransFreq[s] /\ s <= t)
    BY <1>2, <1>3, <2>1, FirstLargest
  <2> HIDE DEF Adjustable
  <2> QED BY <2>2, Zenon DEF Largest
<1> DEFINE g == Largest
<1>5. /\ g \in ByteValues /\ ransFreq[g] > 0 /\ ransFreq[g] + unit \in Nat
      /\ ransFreq[g] + unit > 0 /\ unit \in {1, -1}
  <2> HIDE DEF g
  <2>1. g \in Adjustable
    BY <1>4 DEF g
  <2>2. g \in ByteValues /\ ransFreq[g] \in Nat
    BY <1>3, <2>1 DEF Adjustable
  <2>3. CASE diff > 0
    BY <2>1, <2>2, <2>3 DEF Adjustable
  <2>4. CASE ~(diff > 0)
    BY <2>1, <2>2, <2>4 DEF Adjustable
  <2> QED BY <2>3, <2>4
<1> HIDE DEF g
<1>6. unit \in {1, -1} /\ unit \in Int
  BY <1>5
<1> HIDE DEF unit
<1>7. ransFreq' = [ransFreq EXCEPT ![g] = @ + unit]
  BY <1>2 DEF g
<1>8. /\ ransFreq' \in [ByteValues -> Nat]
      /\ Cumulative(ransFreq')[Base] = Cum(Base) + unit
  BY <1>3, <1>5, <1>6, <1>7, Nudged DEF Cum
<1>9. Cum(Base) \in Nat
  <2>1. Base \in 0 .. Base
    BY ByteAssumption
  <2> QED BY <1>3, <2>1, CumulativeIs DEF Cum
<1>10. RansTypes'
  <2>1. diff' \in Int
    BY <1>2, <1>3, <1>6
  <2> QED BY <1>1, <1>2, <1>8, <2>1 DEF RansTypes
<1>11. Frequencies'
  <2>1. Cum(Base)' = Cumulative(ransFreq')[Base] /\ Occurring' = Occurring
    <3>1. Cum(Base)' = Cumulative(ransFreq')[Base]
      BY Zenon DEF Cum
    <3> QED BY <1>2, <3>1, CutsStay
  <2>2. diff' = M' - Cum(Base)'
    BY <1>2, <1>3, <1>6, <1>8, <1>9, <2>1
  <2>3. ASSUME NEW s \in ByteValues PROVE (s \in Occurring') = (ransFreq'[s] > 0)
    <3>1. CASE s = g
      <4>1. ransFreq'[s] = ransFreq[g] + unit
        BY <1>3, <1>5, <1>7, <3>1
      <4> QED BY <1>3, <1>5, <2>1, <3>1, <4>1
    <3>2. CASE s # g
      <4>1. ransFreq'[s] = ransFreq[s]
        BY <1>3, <1>7, <3>2
      <4> QED BY <1>3, <2>1, <4>1
    <3> QED BY <3>1, <3>2
  <2> QED BY <1>2, <2>2, <2>3 DEF Frequencies
<1>12. LanesHold'
  BY <1>2 DEF LanesHold
<1>13. Outputs'
  BY <1>1, <1>2 DEF Outputs
<1> QED BY <1>10, <1>11, <1>12, <1>13 DEF RansInv

LEMMA BuildTableStep == RansInv /\ BuildTable => RansInv'
<1> SUFFICES ASSUME RansInv, BuildTable PROVE RansInv'
  OBVIOUS
<1>1. /\ RansTypes /\ Frequencies /\ LanesHold /\ Outputs
  BY DEF RansInv
<1>2. /\ ransPc = "normalize" /\ (diff = 0 \/ Adjustable = {})
      /\ ransPc' = (IF diff = 0 THEN "encode" ELSE "overrun")
      /\ lane' = [l \in Lanes |->
                    [left |-> LaneSize(l), x |-> RansL, bytes |-> <<>>, flushed |-> FALSE,
                     pos |-> 0, got |-> <<>>]]
      /\ ransData' = ransData /\ numLanes' = numLanes /\ M' = M /\ ransOut' = ransOut
      /\ ransFreq' = ransFreq /\ diff' = diff
  BY DEF BuildTable
<1>3. /\ ransFreq \in [ByteValues -> Nat] /\ diff \in Int /\ M \in Nat
      /\ ransData \in Seq(ByteValues) /\ ransData # <<>> /\ numLanes \in Nat \ {0}
      /\ diff = M - Cum(Base) /\ \A s \in ByteValues : (s \in Occurring) = (ransFreq[s] > 0)
  BY <1>1, <1>2 DEF RansTypes, Frequencies
<1>4. Occurring' = Occurring /\ Lanes' = Lanes
      /\ \A l : LaneStart(l)' = LaneStart(l) /\ LaneSize(l)' = LaneSize(l)
  BY <1>2, CutsStay
<1>5. Cum(Base) \in Nat
  <2>1. Base \in 0 .. Base
    BY ByteAssumption
  <2> QED BY <1>3, <2>1, CumulativeIs DEF Cum
<1>6. diff = 0 \/ Cardinality(Occurring) > M
  <2> SUFFICES ASSUME diff # 0 PROVE Cardinality(Occurring) > M
    OBVIOUS
  <2>1. Adjustable = {}
    BY <1>2
  <2>2. ~(diff > 0)
    <3> SUFFICES ASSUME diff > 0 PROVE FALSE
      OBVIOUS
    <3>1. 1 \in DOMAIN ransData
      BY <1>3
    <3>2. ransData[1] \in Occurring /\ ransData[1] \in ByteValues
      BY <1>3, <3>1, Counts
    <3>3. ransData[1] \in Adjustable
      BY <1>3, <3>2 DEF Adjustable
    <3> QED BY <2>1, <3>3
  <2>3. \A s \in ByteValues : ransFreq[s] <= 1
    <3> SUFFICES ASSUME NEW s \in ByteValues PROVE ransFreq[s] <= 1
      OBVIOUS
    <3>1. s \notin Adjustable
      BY <2>1
    <3>2. ~(ransFreq[s] > 1)
      BY <2>2, <3>1 DEF Adjustable
    <3>3. ransFreq[s] \in Nat
      BY <1>3
    <3> QED BY <3>2, <3>3
  <2>4. Cum(Base) = Cardinality({s \in ByteValues : ransFreq[s] > 0})
    BY <1>3, <2>3, Units DEF Cum
  <2>5. {s \in ByteValues : ransFreq[s] > 0} = Occurring
    BY <1>3 DEF Occurring
  <2>6. Cum(Base) > M
    BY <1>3, <1>5, <2>2
  <2> QED BY <2>4, <2>5, <2>6
<1>7. RansTypes'
  BY <1>1, <1>2 DEF RansTypes
<1>8. Frequencies'
  <2>1. Cum(Base)' = Cum(Base)
    BY <1>2, Zenon DEF Cum
  <2> QED BY <1>2, <1>3, <1>4, <1>6, <2>1 DEF Frequencies
<1>9. LanesHold'
  <2>1. ASSUME NEW l \in Lanes PROVE InLane(l)'
    <3>1. LaneStart(l) \in Nat /\ LaneSize(l) \in Nat
      BY <1>3, LanePlaces
    <3>2. lane'[l] = [left |-> LaneSize(l), x |-> RansL, bytes |-> <<>>, flushed |-> FALSE,
                      pos |-> 0, got |-> <<>>]
      BY <1>2
    <3>3. LaneInv(ransData, LaneStart(l), LaneSize(l), ransFreq, M, lane'[l])
      BY <3>1, <3>2, LaneBegins
    <3> QED BY <1>2, <1>4, <3>3, Zenon DEF InLane
  <2>2. DOMAIN lane' = Lanes
    BY <1>2
  <2>3. ransPc' # "decode"
    BY <1>2
  <2> QED BY <1>4, <2>1, <2>2, <2>3 DEF LanesHold
<1>10. Outputs'
  BY <1>1, <1>2 DEF Outputs
<1> QED BY <1>7, <1>8, <1>9, <1>10 DEF RansInv

\* The table that is used is one.
LEMMA TableHolds ==
  ASSUME RansInv, ransPc \in {"encode", "decode"}
  PROVE  IsTable(ransFreq, M)
<1>1. diff = M - Cum(Base) /\ diff = 0 /\ ransFreq \in [ByteValues -> Nat]
      /\ M \in Nat \ {0} /\ M <= Base * Base /\ RansL % M = 0
  BY DEF RansInv, RansTypes, Frequencies
<1>2. Cum(Base) \in Nat
  <2>1. Base \in 0 .. Base
    BY ByteAssumption
  <2> QED BY <1>1, <2>1, CumulativeIs DEF Cum
<1>3. Cum(Base) = M
  BY <1>1, <1>2
<1> QED BY <1>1, <1>3 DEF IsTable, Cum

\* A step of one lane keeps what holds of the lanes.
LEMMA LaneStep ==
  ASSUME RansInv, ransPc \in {"encode", "decode"}, NEW l \in Lanes, NEW r2,
         lane' = [lane EXCEPT ![l] = r2],
         UNCHANGED <<ransData, numLanes, M, ransPc, ransFreq, diff, ransOut>>,
         LaneInv(ransData, LaneStart(l), LaneSize(l), ransFreq, M, r2),
         ransPc = "decode" => r2.flushed,
         r2.got = lane[l].got \/ Len(lane[l].got) # LaneSize(l)
  PROVE  RansInv'
<1>1. /\ RansTypes /\ Frequencies /\ LanesHold /\ Outputs
  BY DEF RansInv
<1>2. /\ ransData' = ransData /\ numLanes' = numLanes /\ M' = M /\ ransOut' = ransOut
      /\ ransFreq' = ransFreq /\ diff' = diff /\ ransPc' = ransPc
  OBVIOUS
<1>3. Occurring' = Occurring /\ Lanes' = Lanes
      /\ \A o : LaneStart(o)' = LaneStart(o) /\ LaneSize(o)' = LaneSize(o) /\ Places(o)' = Places(o)
  BY <1>2, CutsStay
<1>4. DOMAIN lane = Lanes /\ (\A o \in Lanes : InLane(o))
      /\ (ransPc = "decode" => \A o \in Lanes : lane[o].flushed)
      /\ ransData # <<>>
  BY <1>1 DEF LanesHold, RansTypes
<1>5. DOMAIN lane' = Lanes /\ lane'[l] = r2 /\ \A o \in Lanes : o # l => lane'[o] = lane[o]
  BY <1>4
<1>6. RansTypes'
  BY <1>1, <1>2 DEF RansTypes
<1>7. Frequencies'
  <2>1. Cum(Base)' = Cum(Base)
    BY <1>2, Zenon DEF Cum
  <2> QED BY <1>1, <1>2, <1>3, <2>1 DEF Frequencies
<1>8. LanesHold'
  <2>1. ASSUME NEW o \in Lanes PROVE InLane(o)'
    <3>1. LaneInv(ransData, LaneStart(o), LaneSize(o), ransFreq, M, lane'[o])
      <4>1. CASE o = l
        BY <1>5, <4>1, Zenon
      <4>2. CASE o # l
        BY <1>4, <1>5, <4>2, Zenon DEF InLane
      <4> QED BY <4>1, <4>2
    <3> QED BY <1>2, <1>3, <3>1, Zenon DEF InLane
  <2>2. ASSUME ransPc = "decode", NEW o \in Lanes PROVE lane'[o].flushed
    BY <1>4, <1>5, <2>2, Zenon
  <2> QED BY <1>2, <1>3, <1>5, <2>1, <2>2 DEF LanesHold
<1>9. Outputs'
  <2>1. ASSUME ransPc = "decode", NEW o \in Lanes, NEW j \in Places(o), ransOut[j] # -1
        PROVE  Len(lane'[o].got) = LaneSize(o)
    <3>1. Len(lane[o].got) = LaneSize(o)
      BY <1>1, <1>4, <2>1 DEF Outputs
    <3>2. CASE o = l
      BY <1>5, <3>1, <3>2
    <3>3. CASE o # l
      BY <1>5, <3>1, <3>3
    <3> QED BY <3>2, <3>3
  <2>2. /\ \A j \in DOMAIN ransData : ransOut[j] \in {-1, ransData[j]}
        /\ ransPc \notin {"decode", "done"} => \A j \in DOMAIN ransData : ransOut[j] = -1
        /\ ransPc # "done"
    BY <1>1 DEF Outputs
  <2>3. ransPc \in {"decode", "done"} =>
          \A o \in Lanes' : \A j \in Places(o)' :
            ransOut'[j] # -1 => Len(lane'[o].got) = LaneSize(o)'
    BY <1>2, <1>3, <2>1, <2>2, Zenon
  <2> QED BY <1>2, <2>2, <2>3 DEF Outputs
<1> QED BY <1>6, <1>7, <1>8, <1>9 DEF RansInv

\* What is known of a lane between two of its steps.
LEMMA OneLane ==
  ASSUME RansInv, ransPc \in {"encode", "decode"}, NEW l \in Lanes
  PROVE  /\ DOMAIN lane = Lanes /\ lane[l] \in LaneRecord
         /\ LaneInv(ransData, LaneStart(l), LaneSize(l), ransFreq, M, lane[l])
         /\ LaneStart(l) \in Nat /\ LaneSize(l) \in Nat
         /\ LaneStart(l) + LaneSize(l) <= Len(ransData)
         /\ IsTable(ransFreq, M)
         /\ \A j \in DOMAIN ransData : ransData[j] \in ByteValues /\ ransFreq[ransData[j]] > 0
<1>1. /\ RansTypes /\ Frequencies /\ LanesHold
  BY DEF RansInv
<1>2. ransData # <<>> /\ ransData \in Seq(ByteValues) /\ numLanes \in Nat \ {0}
  BY <1>1 DEF RansTypes
<1>3. DOMAIN lane = Lanes /\ LaneInv(ransData, LaneStart(l), LaneSize(l), ransFreq, M, lane[l])
  BY <1>1, <1>2 DEF LanesHold, InLane
<1>4. lane[l] \in LaneRecord
  BY <1>3 DEF LaneInv
<1>5. \A j \in DOMAIN ransData : ransData[j] \in ByteValues /\ ransData[j] \in Occurring
  BY <1>2, Counts
<1>6. \A j \in DOMAIN ransData : ransFreq[ransData[j]] > 0
  BY <1>1, <1>5 DEF Frequencies
<1>7. IsTable(ransFreq, M)
  BY TableHolds
<1> QED BY <1>2, <1>3, <1>4, <1>5, <1>6, <1>7, LanePlaces

LEMMA EncodeStep ==
  ASSUME RansInv, NEW l \in Lanes, RansEncodeSymbol(l)
  PROVE  RansInv'
<1> DEFINE s == ransData[LaneStart(l) + lane[l].left]
           rest == Shifted(lane[l].x)
<1>1. PICK k \in 0 .. 4 :
        /\ rest[k] < XMax(s)
        /\ \A j \in 0 .. k - 1 : rest[j] >= XMax(s)
        /\ lane' = [lane EXCEPT
             ![l].left = @ - 1,
             ![l].bytes = [j \in 1 .. k |-> rest[k - j] % Base] \o @,
             ![l].x = ((rest[k] \div ransFreq[s]) * M + (rest[k] % ransFreq[s]) + Cum(s)) % Word]
  BY Zenon DEF RansEncodeSymbol
<1>2. /\ ransPc = "encode" /\ lane[l].left > 0
      /\ UNCHANGED <<ransData, numLanes, M, ransPc, ransFreq, diff, ransOut>>
  BY Zenon DEF RansEncodeSymbol
<1>3. /\ DOMAIN lane = Lanes /\ lane[l] \in LaneRecord
      /\ LaneInv(ransData, LaneStart(l), LaneSize(l), ransFreq, M, lane[l])
      /\ LaneStart(l) \in Nat /\ LaneSize(l) \in Nat
      /\ LaneStart(l) + LaneSize(l) <= Len(ransData)
      /\ IsTable(ransFreq, M)
      /\ \A j \in DOMAIN ransData : ransData[j] \in ByteValues /\ ransFreq[ransData[j]] > 0
      /\ ransData \in Seq(ByteValues)
  BY <1>2, OneLane DEF RansInv, RansTypes
<1>4. lane[l].left \in 1 .. LaneSize(l) /\ lane[l].x \in States
  <2>1. lane[l].left <= LaneSize(l) /\ lane[l].x \in States
    BY <1>3, LaneFacts
  <2>2. lane[l].left \in Nat
    BY <1>3 DEF LaneRecord
  <2> QED BY <1>2, <1>3, <2>1, <2>2
<1>5. s \in ByteValues /\ ransFreq[s] > 0
  <2>1. LaneStart(l) + lane[l].left \in DOMAIN ransData
    BY <1>3, <1>4
  <2> QED BY <1>3, <2>1
<1> DEFINE b == Bound(ransFreq, M, s)
           y == (rest[k] \div ransFreq[s]) * M + (rest[k] % ransFreq[s]) + Cum(s)
           new == [j \in 1 .. k |-> rest[k - j] % Base]
           r2 == [lane[l] EXCEPT !.left = @ - 1, !.bytes = new \o @, !.x = y % Word]
<1>6. lane' = [lane EXCEPT ![l] = r2]
  <2> HIDE DEF s, rest
  <2> QED BY <1>1, <1>3
<1> HIDE DEF s
<1>7. XMax(s) = b /\ b \in Nat
  <2>1. b \in Nat /\ b % Word = b
    BY <1>3, <1>5, BoundFits
  <2> QED BY <2>1, Zenon DEF XMax, Bound
<1>8. rest[k] < b /\ \A j \in 0 .. k - 1 : rest[j] >= b
  BY <1>1, <1>7, Zenon
<1> HIDE DEF b
<1>9. k \in 0 .. 2
  <2>1. rest[2] < b
    BY <1>3, <1>4, <1>5, TwoBytes DEF b
  <2>2. 2 \in 0 .. 4 /\ rest[2] \in Nat
    BY <1>4, Remains
  <2> HIDE DEF rest
  <2>3. ~(rest[2] >= b)
    BY <1>7, <2>1, <2>2
  <2>4. 2 \notin 0 .. k - 1
    BY <1>8, <2>3
  <2> QED BY <2>4
<1>10. Codes(ransFreq, M, lane[l].x, s, k, y)
  BY <1>5, <1>8, Zenon DEF Codes, b, Cum
<1>11. y % Word = y
  <2> HIDE DEF y
  <2> QED BY <1>3, <1>4, <1>5, <1>8, <1>9, <1>10, CodesToState DEF b
<1> HIDE DEF y
<1>12. /\ IsLane(r2) /\ r2.left = lane[l].left - 1 /\ r2.x = y
       /\ r2.bytes = [j \in 1 .. k |-> rest[k - j] % Base] \o lane[l].bytes
       /\ r2.flushed = lane[l].flushed /\ r2.pos = lane[l].pos /\ r2.got = lane[l].got
  <2> HIDE DEF new
  <2>1. r2 \in [left : {lane[l].left - 1}, x : {y % Word}, bytes : {new \o lane[l].bytes},
                flushed : {lane[l].flushed}, pos : {lane[l].pos}, got : {lane[l].got}]
    BY <1>3 DEF LaneRecord
  <2> HIDE DEF r2
  <2>2. /\ IsLane(r2) /\ r2.left = lane[l].left - 1 /\ r2.x = y % Word
        /\ r2.bytes = new \o lane[l].bytes
        /\ r2.flushed = lane[l].flushed /\ r2.pos = lane[l].pos /\ r2.got = lane[l].got
    <3> DEFINE e1 == lane[l].left - 1
               e2 == y % Word
               e3 == new \o lane[l].bytes
               e4 == lane[l].flushed
               e5 == lane[l].pos
               e6 == lane[l].got
    <3>1. r2 \in [left : {e1}, x : {e2}, bytes : {e3}, flushed : {e4}, pos : {e5}, got : {e6}]
      BY <2>1
    <3> HIDE DEF e1, e2, e3, e4, e5, e6
    <3>2. /\ IsLane(r2) /\ r2.left = e1 /\ r2.x = e2 /\ r2.bytes = e3 /\ r2.flushed = e4
          /\ r2.pos = e5 /\ r2.got = e6
      BY <3>1 DEF IsLane
    <3> QED BY <3>2 DEF e1, e2, e3, e4, e5, e6
  <2> QED BY <1>11, <2>2, Zenon DEF new
<1> HIDE DEF r2
<1>13. Encodes(ransFreq, M, lane[l], s, k, r2)
  BY <1>2, <1>5, <1>8, <1>10, <1>12, Zenon DEF Encodes, b
<1>14. LaneInv(ransData, LaneStart(l), LaneSize(l), ransFreq, M, r2)
  <2> HIDE DEF rest
  <2> QED BY <1>3, <1>13, LaneEncodes DEF s
<1>15. ransPc # "decode"
  BY <1>2
<1> QED BY <1>2, <1>6, <1>12, <1>14, <1>15, LaneStep

LEMMA FlushStep ==
  ASSUME RansInv, NEW l \in Lanes, Flush(l)
  PROVE  RansInv'
<1> DEFINE new == [j \in 1 .. 4 |-> Shifted(lane[l].x)[j - 1] % Base]
           r2 == [lane[l] EXCEPT !.flushed = TRUE, !.bytes = new \o @]
<1>1. /\ ransPc = "encode" /\ lane[l].left = 0 /\ ~lane[l].flushed
      /\ lane' = [lane EXCEPT ![l].flushed = TRUE, ![l].bytes = new \o @]
      /\ UNCHANGED <<ransData, numLanes, M, ransPc, ransFreq, diff, ransOut>>
  BY Zenon DEF Flush
<1>2. /\ DOMAIN lane = Lanes /\ lane[l] \in LaneRecord
      /\ LaneInv(ransData, LaneStart(l), LaneSize(l), ransFreq, M, lane[l])
      /\ LaneStart(l) \in Nat /\ LaneSize(l) \in Nat
  BY <1>1, OneLane
<1>3. lane' = [lane EXCEPT ![l] = r2]
  <2> HIDE DEF new
  <2> QED BY <1>1, <1>2
<1>4. /\ IsLane(r2) /\ r2.flushed /\ r2.bytes = new \o lane[l].bytes
      /\ r2.left = lane[l].left /\ r2.x = lane[l].x /\ r2.pos = lane[l].pos
      /\ r2.got = lane[l].got
  <2> HIDE DEF new
  <2>1. r2 \in [left : {lane[l].left}, x : {lane[l].x}, bytes : {new \o lane[l].bytes},
                flushed : {TRUE}, pos : {lane[l].pos}, got : {lane[l].got}]
    BY <1>2 DEF LaneRecord
  <2> HIDE DEF r2
  <2> DEFINE e1 == lane[l].left
             e2 == lane[l].x
             e3 == new \o lane[l].bytes
             e5 == lane[l].pos
             e6 == lane[l].got
  <2>2. r2 \in [left : {e1}, x : {e2}, bytes : {e3}, flushed : {TRUE}, pos : {e5}, got : {e6}]
    BY <2>1
  <2> HIDE DEF e1, e2, e3, e5, e6
  <2>3. /\ IsLane(r2) /\ r2.left = e1 /\ r2.x = e2 /\ r2.bytes = e3 /\ r2.flushed
        /\ r2.pos = e5 /\ r2.got = e6
    BY <2>2 DEF IsLane
  <2> QED BY <2>3 DEF e1, e2, e3, e5, e6
<1> HIDE DEF r2
<1>5. Flushes(lane[l], r2)
  BY <1>1, <1>4, Zenon DEF Flushes
<1>6. LaneInv(ransData, LaneStart(l), LaneSize(l), ransFreq, M, r2)
  <2> HIDE DEF new
  <2> QED BY <1>2, <1>5, LaneFlushes
<1> HIDE DEF new
<1>7. ransPc # "decode"
  BY <1>1
<1> QED BY <1>1, <1>3, <1>4, <1>6, <1>7, LaneStep

LEMMA FramedStep == RansInv /\ Framed => RansInv'
<1> SUFFICES ASSUME RansInv, Framed PROVE RansInv'
  OBVIOUS
<1>1. /\ RansTypes /\ Frequencies /\ LanesHold /\ Outputs
  BY DEF RansInv
<1>2. /\ ransPc = "encode" /\ ransPc' = "decode" /\ \A l \in Lanes : lane[l].flushed
      /\ ransData' = ransData /\ numLanes' = numLanes /\ M' = M /\ ransOut' = ransOut
      /\ ransFreq' = ransFreq /\ diff' = diff /\ lane' = lane
  BY DEF Framed
<1>3. Occurring' = Occurring /\ Lanes' = Lanes
      /\ \A o : LaneStart(o)' = LaneStart(o) /\ LaneSize(o)' = LaneSize(o) /\ Places(o)' = Places(o)
  BY <1>2, CutsStay
<1>4. RansTypes'
  BY <1>1, <1>2 DEF RansTypes
<1>5. Frequencies'
  <2>1. Cum(Base)' = Cum(Base)
    BY <1>2, Zenon DEF Cum
  <2> QED BY <1>1, <1>2, <1>3, <2>1 DEF Frequencies
<1>6. LanesHold'
  <2>1. ransData # <<>>
    BY <1>1, <1>2 DEF RansTypes
  <2>2. DOMAIN lane = Lanes /\ \A l \in Lanes : InLane(l)
    BY <1>1, <1>2, <2>1 DEF LanesHold
  <2>3. \A l \in Lanes : InLane(l)'
    BY <1>2, <1>3, <2>2, Zenon DEF InLane
  <2> QED BY <1>2, <1>3, <2>2, <2>3 DEF LanesHold
<1>7. Outputs'
  <2>1. \A j \in DOMAIN ransData : ransOut[j] = -1
    BY <1>1, <1>2 DEF Outputs
  <2>2. ASSUME NEW l \in Lanes, NEW j \in Places(l) PROVE ransOut[j] = -1
    <3>1. j \in DOMAIN ransData
      BY <1>1, <2>2, LanePlaces DEF RansTypes
    <3> QED BY <2>1, <3>1
  <2>3. \A l \in Lanes' : \A j \in Places(l)' : ransOut'[j] = -1
    BY <1>2, <1>3, <2>2, Zenon
  <2>4. \A l \in Lanes' : \A j \in Places(l)' :
          ransOut'[j] # -1 => Len(lane'[l].got) = LaneSize(l)'
    BY <2>3, Zenon
  <2> QED BY <1>1, <1>2, <2>1, <2>4 DEF Outputs
<1> QED BY <1>4, <1>5, <1>6, <1>7 DEF RansInv

LEMMA StartLaneStep ==
  ASSUME RansInv, NEW l \in Lanes, StartLane(l)
  PROVE  RansInv'
<1> DEFINE v == ByteAt(l, 1) + Base * (ByteAt(l, 2) + Base * (ByteAt(l, 3) + Base * ByteAt(l, 4)))
           b == lane[l].bytes
           r2 == [lane[l] EXCEPT !.x = v, !.pos = 4]
<1>1. /\ ransPc = "decode" /\ lane[l].pos = 0
      /\ lane' = [lane EXCEPT ![l].x = v, ![l].pos = 4]
      /\ UNCHANGED <<ransData, numLanes, M, ransPc, ransFreq, diff, ransOut>>
  BY Zenon DEF StartLane
<1>2. /\ DOMAIN lane = Lanes /\ lane[l] \in LaneRecord
      /\ LaneInv(ransData, LaneStart(l), LaneSize(l), ransFreq, M, lane[l])
      /\ LaneStart(l) \in Nat /\ LaneSize(l) \in Nat
  BY <1>1, OneLane
<1>3. lane[l].flushed
  BY <1>1 DEF RansInv, LanesHold
<1>4. 4 <= Len(b) /\ Len(b) \in Nat
  <2>1. lane[l].flushed => 4 <= Len(lane[l].bytes)
    BY <1>2, LaneFacts
  <2>2. Len(b) \in Nat
    BY <1>2 DEF LaneRecord
  <2> QED BY <1>3, <2>1, <2>2
<1>5. v = b[1] + Base * (b[2] + Base * (b[3] + Base * b[4]))
  <2>1. 1 <= Len(b) /\ 2 <= Len(b) /\ 3 <= Len(b) /\ 4 <= Len(b)
    BY <1>4
  <2>2. ByteAt(l, 1) = b[1] /\ ByteAt(l, 2) = b[2] /\ ByteAt(l, 3) = b[3] /\ ByteAt(l, 4) = b[4]
    BY <2>1, Zenon DEF ByteAt
  <2> QED BY <2>2, Zenon
<1> HIDE DEF v
<1>6. lane' = [lane EXCEPT ![l] = r2]
  BY <1>1, <1>2
<1>7. /\ IsLane(r2) /\ r2.x = v /\ r2.pos = 4
      /\ r2.left = lane[l].left /\ r2.flushed = lane[l].flushed /\ r2.bytes = b
      /\ r2.got = lane[l].got
  <2> DEFINE e1 == lane[l].left
             e4 == lane[l].flushed
             e6 == lane[l].got
  <2>1. r2 \in [left : {e1}, x : {v}, bytes : {b}, flushed : {e4}, pos : {4}, got : {e6}]
    BY <1>2 DEF LaneRecord
  <2> HIDE DEF e1, b, e4, e6, r2
  <2>2. /\ IsLane(r2) /\ r2.left = e1 /\ r2.x = v /\ r2.bytes = b /\ r2.flushed = e4
        /\ r2.pos = 4 /\ r2.got = e6
    BY <2>1 DEF IsLane
  <2> QED BY <2>2 DEF e1, e4, e6
<1> HIDE DEF r2
<1>8. Starts(lane[l], r2)
  BY <1>1, <1>3, <1>5, <1>7, Zenon DEF Starts
<1>9. LaneInv(ransData, LaneStart(l), LaneSize(l), ransFreq, M, r2)
  BY <1>2, <1>8, LaneStarts
<1>10. r2.flushed /\ ransPc \in {"encode", "decode"}
  BY <1>1, <1>3, <1>7
<1> QED BY <1>1, <1>6, <1>7, <1>9, <1>10, LaneStep

LEMMA DecodeStep ==
  ASSUME RansInv, NEW l \in Lanes, RansDecodeSymbol(l)
  PROVE  RansInv'
<1> DEFINE r == lane[l]
           sym == SymbolAt(r.x % M)
           state == Refilled(l, ransFreq[sym] * (r.x \div M) + (r.x % M) - Cum(sym))
<1>1. PICK k \in 0 .. 4 :
        /\ state[k] >= RansL
        /\ \A j \in 0 .. k - 1 : state[j] < RansL
        /\ lane' = [lane EXCEPT ![l].x = state[k], ![l].pos = @ + k, ![l].got = Append(@, sym)]
  BY Zenon DEF RansDecodeSymbol
<1>2. /\ ransPc = "decode" /\ r.pos > 0 /\ Len(r.got) < LaneSize(l)
      /\ UNCHANGED <<ransData, numLanes, M, ransPc, ransFreq, diff, ransOut>>
  BY Zenon DEF RansDecodeSymbol
<1>3. /\ DOMAIN lane = Lanes /\ r \in LaneRecord
      /\ LaneInv(ransData, LaneStart(l), LaneSize(l), ransFreq, M, r)
      /\ LaneStart(l) \in Nat /\ LaneSize(l) \in Nat
      /\ IsTable(ransFreq, M)
  BY <1>2, OneLane
<1>4. r.flushed
  BY <1>2 DEF RansInv, LanesHold
<1>5. PICK s \in ByteValues, n \in 0 .. 2, x \in States :
        Finds(ransData, LaneStart(l), LaneSize(l), ransFreq, M, r, s, n, x)
  BY <1>2, <1>3, LaneReads
<1>6. /\ {t \in ByteValues : Cumulative(ransFreq)[t] <= r.x % M /\ r.x % M < Cumulative(ransFreq)[t + 1]} = {s}
      /\ Restores(ransFreq, M, s, r.x, x, n)
      /\ r.pos + n <= Len(r.bytes)
      /\ \A j \in 1 .. n : r.bytes[r.pos + j] = Shifted(x)[n - j] % Base
      /\ \A r2 : Takes(r, s, n, x, r2) =>
           LaneInv(ransData, LaneStart(l), LaneSize(l), ransFreq, M, r2)
  BY <1>5, Zenon DEF Finds
<1>7. sym = s
  <2> DEFINE owners == {t \in ByteValues : Cum(t) <= r.x % M /\ r.x % M < Cum(t + 1)}
  <2>1. sym = IF owners = {} THEN 0 ELSE CHOOSE t \in owners : TRUE
    BY Zenon DEF SymbolAt
  <2>2. owners = {s}
    BY <1>6, Zenon DEF Cum
  <2> HIDE DEF owners, sym
  <2> QED BY <2>1, <2>2
<1> DEFINE v == Shifted(x)[n]
<1>8. ransFreq[sym] * (r.x \div M) + (r.x % M) - Cum(sym) = v
  BY <1>6, <1>7, Zenon DEF Restores, Before, Cum
<1>9. v \in Nat
  <2>1. n \in 0 .. 4
    OBVIOUS
  <2> QED BY <2>1, Remains
<1>10. state = Refilled(l, v)
  BY <1>8, Zenon
<1> HIDE DEF state, sym
<1>11. r.pos \in Nat /\ r.bytes \in Seq(ByteValues) /\ Len(r.bytes) \in Nat
  BY <1>3 DEF LaneRecord
<1>12. \A j \in 1 .. 4 : ByteAt(l, lane[l].pos + j) \in Nat
  <2> SUFFICES ASSUME NEW j \in 1 .. 4 PROVE ByteAt(l, lane[l].pos + j) \in Nat
    OBVIOUS
  <2> DEFINE p == r.pos + j
  <2>1. p \in Nat \ {0}
    BY <1>11
  <2>2. ByteAt(l, lane[l].pos + j) = IF p <= Len(r.bytes) THEN r.bytes[p] ELSE 0
    BY Zenon DEF ByteAt
  <2> HIDE DEF p
  <2>3. p <= Len(r.bytes) => r.bytes[p] \in ByteValues
    BY <1>11, <2>1
  <2>4. \A q \in ByteValues : q \in Nat
    BY ByteAssumption DEF ByteValues
  <2> QED BY <2>2, <2>3, <2>4
<1> HIDE DEF v
<1>13. /\ state \in [0 .. 4 -> Nat] /\ state[0] = v
       /\ \A j \in 1 .. 4 : state[j] = state[j - 1] * Base + ByteAt(l, lane[l].pos + j)
  <2>1. /\ Refilled(l, v) \in [0 .. 4 -> Nat] /\ Refilled(l, v)[0] = v
        /\ \A j \in 1 .. 4 :
             Refilled(l, v)[j] = Refilled(l, v)[j - 1] * Base + ByteAt(l, lane[l].pos + j)
    BY <1>9, <1>12, RefilledIs
  <2> QED BY <1>10, <2>1, Zenon
<1>14. state[n] = x /\ \A j \in 0 .. n - 1 : state[j] < RansL
  <2>1. ASSUME NEW j \in 1 .. n PROVE state[j] = state[j - 1] * Base + (Shifted(x)[n - j] % Base)
    <3>1. j \in 1 .. 4
      OBVIOUS
    <3>2. r.pos + j <= Len(r.bytes)
      BY <1>6, <1>11
    <3>3. ByteAt(l, lane[l].pos + j) = r.bytes[r.pos + j]
      BY <3>2, Zenon DEF ByteAt
    <3> QED BY <1>6, <1>13, <3>1, <3>3, Zenon
  <2>2. state[0] = Shifted(x)[n]
    BY <1>13 DEF v
  <2> QED BY <1>13, <2>1, <2>2, Refills
<1>15. k = n
  <2>1. state[n] >= RansL /\ ~(state[n] < RansL) /\ state[k] \in Nat /\ RansL \in Nat
    <3>1. x \in Nat /\ RansL <= x /\ RansL \in Nat
      BY Ordering DEF States
    <3> QED BY <1>13, <1>14, <3>1
  <2>2. ~(k < n)
    <3> SUFFICES ASSUME k < n PROVE FALSE
      OBVIOUS
    <3>1. k \in 0 .. n - 1
      OBVIOUS
    <3>2. state[k] < RansL
      BY <1>14, <3>1
    <3> QED BY <1>1, <2>1, <3>2
  <2>3. ~(n < k)
    <3> SUFFICES ASSUME n < k PROVE FALSE
      OBVIOUS
    <3>1. n \in 0 .. k - 1
      OBVIOUS
    <3>2. state[n] < RansL
      BY <1>1, <3>1
    <3> QED BY <2>1, <3>2
  <2> QED BY <2>2, <2>3
<1> DEFINE r2 == [r EXCEPT !.x = x, !.pos = @ + n, !.got = Append(@, s)]
<1>16. lane' = [lane EXCEPT ![l] = r2]
  <2>1. state[k] = x
    BY <1>14, <1>15
  <2>2. lane' = [lane EXCEPT ![l].x = x, ![l].pos = @ + n, ![l].got = Append(@, s)]
    BY <1>1, <1>7, <1>15, <2>1
  <2> QED BY <1>3, <2>2
<1>17. /\ IsLane(r2) /\ r2.x = x /\ r2.pos = r.pos + n /\ r2.got = Append(r.got, s)
       /\ r2.left = r.left /\ r2.flushed = r.flushed /\ r2.bytes = r.bytes
  <2> DEFINE e1 == r.left
             e3 == r.bytes
             e4 == r.flushed
             e5 == r.pos + n
             e6 == Append(r.got, s)
  <2> HIDE DEF r
  <2>1. r2 \in [left : {e1}, x : {x}, bytes : {e3}, flushed : {e4}, pos : {e5}, got : {e6}]
    BY <1>3 DEF LaneRecord
  <2> HIDE DEF e1, e3, e4, e5, e6, r2
  <2>2. /\ IsLane(r2) /\ r2.left = e1 /\ r2.x = x /\ r2.bytes = e3 /\ r2.flushed = e4
        /\ r2.pos = e5 /\ r2.got = e6
    BY <2>1 DEF IsLane
  <2> QED BY <2>2 DEF e1, e3, e4, e5, e6
<1> HIDE DEF r2
<1>18. Takes(r, s, n, x, r2)
  BY <1>17, Zenon DEF Takes
<1>19. LaneInv(ransData, LaneStart(l), LaneSize(l), ransFreq, M, r2)
  BY <1>6, <1>18, Zenon
<1>20. r2.flushed /\ ransPc \in {"encode", "decode"} /\ Len(lane[l].got) # LaneSize(l)
  <2>1. Len(r.got) \in Nat
    BY <1>3 DEF LaneRecord
  <2> QED BY <1>2, <1>3, <1>4, <1>17, <2>1
<1> HIDE DEF r
<1> QED BY <1>2, <1>16, <1>19, <1>20, LaneStep

LEMMA CopyOutStep ==
  ASSUME RansInv, NEW l \in Lanes, CopyOut(l)
  PROVE  RansInv'
<1>1. /\ RansTypes /\ Frequencies /\ LanesHold /\ Outputs
  BY DEF RansInv
<1> DEFINE first == LaneStart(l)
           size == LaneSize(l)
           came == lane[l].got
<1>2. /\ ransPc = "decode" /\ ransPc' = ransPc /\ Len(came) = size
      /\ ransOut' = [j \in DOMAIN ransData |->
                       IF j \in first + 1 .. first + size THEN came[j - first] ELSE ransOut[j]]
      /\ ransData' = ransData /\ numLanes' = numLanes /\ M' = M
      /\ ransFreq' = ransFreq /\ diff' = diff /\ lane' = lane
  BY Zenon DEF CopyOut
<1>3. Occurring' = Occurring /\ Lanes' = Lanes
      /\ \A o : LaneStart(o)' = LaneStart(o) /\ LaneSize(o)' = LaneSize(o) /\ Places(o)' = Places(o)
  BY <1>2, CutsStay
<1>4. /\ LaneInv(ransData, first, size, ransFreq, M, lane[l])
      /\ first \in Nat /\ size \in Nat
      /\ \A j \in DOMAIN ransData : ransData[j] \in ByteValues
  BY <1>2, OneLane
<1>5. Places(l) = first + 1 .. first + size
  BY Zenon DEF Places
<1>6. /\ \A j \in Places(l) : j \in DOMAIN ransData
      /\ \A o \in Lanes : o # l => Places(l) \cap Places(o) = {}
  BY <1>1, LanePlaces DEF RansTypes
<1>7. ASSUME NEW j \in Places(l) PROVE ransOut'[j] = ransData[j]
  <2>1. j \in DOMAIN ransData /\ j \in first + 1 .. first + size
    BY <1>5, <1>6
  <2>2. ransOut'[j] = came[j - first]
    BY <1>2, <2>1
  <2> HIDE DEF first, size, came
  <2>3. PICK i \in 1 .. Len(came) : i = j - first /\ first + i = j
    BY <1>2, <1>4, <2>1
  <2>4. came[i] = ransData[first + i]
    BY <1>4, LaneFacts DEF came
  <2> QED BY <2>2, <2>3, <2>4
<1>8. ASSUME NEW j \in DOMAIN ransData, j \notin Places(l) PROVE ransOut'[j] = ransOut[j]
  BY <1>2, <1>5, <1>8, Zenon
<1> HIDE DEF first, size, came
<1>9. RansTypes'
  <2>1. ransOut' = [j \in DOMAIN ransData |-> ransOut'[j]]
    BY <1>2
  <2>2. \A j \in DOMAIN ransData : ransOut'[j] \in ByteValues \cup {-1}
    BY <1>1, <1>4, <1>7, <1>8 DEF RansTypes
  <2>3. ransOut' \in [DOMAIN ransData -> ByteValues \cup {-1}]
    BY <2>1, <2>2
  <2> QED BY <1>1, <1>2, <2>3 DEF RansTypes
<1>10. Frequencies'
  <2>1. Cum(Base)' = Cum(Base)
    BY <1>2, Zenon DEF Cum
  <2> QED BY <1>1, <1>2, <1>3, <2>1 DEF Frequencies
<1>11. LanesHold'
  <2>1. ransData # <<>>
    BY <1>1, <1>2 DEF RansTypes
  <2>2. DOMAIN lane = Lanes /\ \A o \in Lanes : InLane(o)
    BY <1>1, <1>2, <2>1 DEF LanesHold
  <2>3. \A o \in Lanes : InLane(o)'
    BY <1>2, <1>3, <2>2, Zenon DEF InLane
  <2> QED BY <1>1, <1>2, <1>3, <2>2, <2>3 DEF LanesHold
<1>12. Outputs'
  <2>1. \A j \in DOMAIN ransData : ransOut'[j] \in {-1, ransData[j]}
    BY <1>1, <1>7, <1>8 DEF Outputs
  <2>2. ASSUME NEW o \in Lanes, NEW j \in Places(o), ransOut'[j] # -1
        PROVE  Len(lane[o].got) = LaneSize(o)
    <3>1. CASE o = l
      BY <1>2, <3>1 DEF came, size
    <3>2. CASE o # l
      <4>1. j \notin Places(l) /\ j \in DOMAIN ransData
        <5>1. j \in DOMAIN ransData
          BY <1>1, LanePlaces DEF RansTypes
        <5> QED BY <1>6, <3>2, <5>1
      <4>2. ransOut[j] # -1
        BY <1>8, <2>2, <4>1
      <4>3. ransData # <<>>
        BY <1>1, <1>2 DEF RansTypes
      <4> QED BY <1>1, <1>2, <4>2, <4>3 DEF Outputs
    <3> QED BY <3>1, <3>2
  <2>3. \A o \in Lanes' : \A j \in Places(o)' : ransOut'[j] # -1 => Len(lane'[o].got) = LaneSize(o)'
    BY <1>2, <1>3, <2>2, Zenon
  <2> QED BY <1>2, <2>1, <2>3 DEF Outputs
<1> QED BY <1>9, <1>10, <1>11, <1>12 DEF RansInv

LEMMA DecodedStep == RansInv /\ Decoded => RansInv'
<1> SUFFICES ASSUME RansInv, Decoded PROVE RansInv'
  OBVIOUS
<1>1. /\ RansTypes /\ Frequencies /\ LanesHold /\ Outputs
  BY DEF RansInv
<1>2. /\ ransPc = "decode" /\ ransPc' = "done" /\ \A j \in DOMAIN ransData : ransOut[j] # -1
      /\ ransData' = ransData /\ numLanes' = numLanes /\ M' = M /\ ransOut' = ransOut
      /\ ransFreq' = ransFreq /\ diff' = diff /\ lane' = lane
  BY DEF Decoded
<1>3. Lanes' = Lanes
      /\ \A o : LaneStart(o)' = LaneStart(o) /\ LaneSize(o)' = LaneSize(o) /\ Places(o)' = Places(o)
  BY <1>2, CutsStay
<1>4. RansTypes'
  BY <1>1, <1>2 DEF RansTypes
<1>5. Frequencies'
  BY <1>2 DEF Frequencies
<1>6. ransData # <<>>
  BY <1>1, <1>2 DEF RansTypes
<1>7. LanesHold'
  <2>2. DOMAIN lane = Lanes /\ \A l \in Lanes : InLane(l)
    BY <1>1, <1>2, <1>6 DEF LanesHold
  <2>3. \A l \in Lanes : InLane(l)'
    BY <1>2, <1>3, <2>2, Zenon DEF InLane
  <2> QED BY <1>2, <1>3, <2>2, <2>3 DEF LanesHold
<1>8. Outputs'
  <2>1. \A o \in Lanes : \A j \in Places(o) : ransOut[j] # -1 => Len(lane[o].got) = LaneSize(o)
    BY <1>1, <1>2, <1>6 DEF Outputs
  <2>2. \A o \in Lanes' : \A j \in Places(o)' : ransOut'[j] # -1 => Len(lane'[o].got) = LaneSize(o)'
    BY <1>2, <1>3, <2>1, Zenon
  <2> QED BY <1>1, <1>2, <2>2 DEF Outputs
<1> QED BY <1>4, <1>5, <1>7, <1>8 DEF RansInv

LEMMA RansStutters == RansInv /\ UNCHANGED ransVars => RansInv'
<1> SUFFICES ASSUME RansInv, UNCHANGED ransVars PROVE RansInv'
  OBVIOUS
<1>1. /\ RansTypes /\ Frequencies /\ LanesHold /\ Outputs
  BY DEF RansInv
<1>2. /\ ransPc' = ransPc /\ ransData' = ransData /\ numLanes' = numLanes /\ M' = M
      /\ ransOut' = ransOut /\ ransFreq' = ransFreq /\ diff' = diff /\ lane' = lane
  BY DEF ransVars
<1>3. Occurring' = Occurring /\ Lanes' = Lanes
      /\ \A o : LaneStart(o)' = LaneStart(o) /\ LaneSize(o)' = LaneSize(o) /\ Places(o)' = Places(o)
  BY <1>2, CutsStay
<1>4. RansTypes'
  BY <1>1, <1>2 DEF RansTypes
<1>5. Frequencies'
  <2>1. Cum(Base)' = Cum(Base)
    BY <1>2, Zenon DEF Cum
  <2> QED BY <1>1, <1>2, <1>3, <2>1 DEF Frequencies
<1>6. LanesHold'
  <2>1. \A l : InLane(l)' = InLane(l)
    BY <1>2, <1>3, Zenon DEF InLane
  <2> QED BY <1>1, <1>2, <1>3, <2>1 DEF LanesHold
<1>7. Outputs'
  <2>1. ransPc \in {"decode", "done"} /\ ransData # <<>> =>
          \A l \in Lanes' : \A j \in Places(l)' :
            ransOut'[j] # -1 => Len(lane'[l].got) = LaneSize(l)'
    BY <1>1, <1>2, <1>3, Zenon DEF Outputs
  <2> QED BY <1>1, <1>2, <2>1 DEF Outputs
<1> QED BY <1>4, <1>5, <1>6, <1>7 DEF RansInv

LEMMA RansInvNext == RansInv /\ [RansNext]_ransVars => RansInv'
<1> SUFFICES ASSUME RansInv, [RansNext]_ransVars PROVE RansInv'
  OBVIOUS
<1>1. CASE Quantize
  BY <1>1, QuantizeStep
<1>2. CASE Nudge
  BY <1>2, NudgeStep
<1>3. CASE BuildTable
  BY <1>3, BuildTableStep
<1>4. ASSUME NEW l \in Lanes, RansEncodeSymbol(l) PROVE RansInv'
  BY <1>4, EncodeStep
<1>5. ASSUME NEW l \in Lanes, Flush(l) PROVE RansInv'
  BY <1>5, FlushStep
<1>6. CASE Framed
  BY <1>6, FramedStep
<1>7. ASSUME NEW l \in Lanes, StartLane(l) PROVE RansInv'
  BY <1>7, StartLaneStep
<1>8. ASSUME NEW l \in Lanes, RansDecodeSymbol(l) PROVE RansInv'
  BY <1>8, DecodeStep
<1>9. ASSUME NEW l \in Lanes, CopyOut(l) PROVE RansInv'
  BY <1>9, CopyOutStep
<1>10. CASE Decoded
  BY <1>10, DecodedStep
<1>11. CASE UNCHANGED ransVars
  BY <1>11, RansStutters
<1>12. CASE RansFinished
  BY <1>11, <1>12 DEF RansFinished
<1> QED BY <1>1, <1>2, <1>3, <1>4, <1>5, <1>6, <1>7, <1>8, <1>9, <1>10, <1>11, <1>12, Zenon DEF RansNext

\* The invariant says that what was encoded comes back.
LEMMA RansInvExact == RansInv => RansExact
<1> SUFFICES ASSUME RansInv PROVE RansExact
  OBVIOUS
<1>1. /\ RansTypes /\ Frequencies /\ LanesHold /\ Outputs
  BY DEF RansInv
<1>2. LanesComeBack
  <2>1. ASSUME ransPc = "done" PROVE ransOut = ransData
    <3>1. \A j \in DOMAIN ransData : ransOut[j] = ransData[j]
      BY <1>1, <2>1 DEF Outputs
    <3>2. ransOut = [j \in DOMAIN ransData |-> ransOut[j]]
      BY <1>1 DEF RansTypes
    <3>3. ransData = [j \in DOMAIN ransData |-> ransData[j]]
      BY <1>1 DEF RansTypes
    <3> QED BY <3>1, <3>2, <3>3
  <2>2. \A j \in DOMAIN ransData : ransOut[j] \in {-1, ransData[j]}
    BY <1>1 DEF Outputs
  <2> QED BY <2>1, <2>2 DEF LanesComeBack
<1>3. TableExact
  <2>1. ASSUME ransPc \in {"encode", "decode"} PROVE Cum(Base) = M
    BY <2>1, TableHolds DEF IsTable, Cum
  <2> QED BY <1>1, <2>1 DEF TableExact, Frequencies
<1>4. LanesFit
  <2> SUFFICES ASSUME ransPc \in {"encode", "decode", "done"}, ransData # <<>>, NEW l \in Lanes
               PROVE  /\ lane[l].x \in RansL .. RansL * Base - 1
                      /\ Len(lane[l].bytes) <= 2 * LaneSize(l) + Slack
                      /\ lane[l].pos <= Len(lane[l].bytes)
                      /\ ransPc = "done" /\ LaneSize(l) > 0 =>
                           lane[l].pos = Len(lane[l].bytes) /\ lane[l].x = RansL
    BY DEF LanesFit
  <2>1. LaneStart(l) \in Nat /\ LaneSize(l) \in Nat /\ \A j \in Places(l) : j \in DOMAIN ransData
    BY <1>1, LanePlaces DEF RansTypes
  <2>2. LaneInv(ransData, LaneStart(l), LaneSize(l), ransFreq, M, lane[l])
    BY <1>1 DEF LanesHold, InLane
  <2>3. /\ lane[l].x \in States
        /\ Len(lane[l].bytes) <= 2 * LaneSize(l) + 4 /\ lane[l].pos <= Len(lane[l].bytes)
        /\ Len(lane[l].got) = LaneSize(l) /\ LaneSize(l) > 0 =>
             lane[l].pos = Len(lane[l].bytes) /\ lane[l].x = RansL
    <3> DEFINE r == lane[l]
               a == LaneStart(l)
               n == LaneSize(l)
    <3>1. a \in Nat /\ n \in Nat /\ LaneInv(ransData, a, n, ransFreq, M, r)
      BY <2>1, <2>2
    <3> HIDE DEF r, a, n
    <3>2. r.x \in States /\ Len(r.bytes) <= 2 * n + 4 /\ r.pos <= Len(r.bytes)
      BY <3>1, LaneFacts
    <3>3. BackAtStart(r, n)
      BY <3>1, LaneFacts
    <3> QED BY <3>2, <3>3 DEF r, n, BackAtStart
  <2>4. Len(lane[l].bytes) <= 2 * LaneSize(l) + Slack
    <3>1. Len(lane[l].bytes) \in Nat
      BY <2>2 DEF LaneInv, LaneRecord
    <3>2. Slack \in Nat /\ 4 <= Slack
      BY RansAssumption
    <3> QED BY <2>1, <2>3, <3>1, <3>2
  <2>5. ASSUME ransPc = "done", LaneSize(l) > 0 PROVE Len(lane[l].got) = LaneSize(l)
    <3>1. LaneStart(l) + 1 \in Places(l)
      BY <2>1, <2>5 DEF Places
    <3>2. ransOut[LaneStart(l) + 1] # -1
      BY <1>1, <2>1, <2>5, <3>1 DEF Outputs
    <3> QED BY <1>1, <2>5, <3>1, <3>2 DEF Outputs
  <2> QED BY <2>3, <2>4, <2>5 DEF States
<1> QED BY <1>2, <1>3, <1>4 DEF RansExact
-----------------------------------------------------------------------------
\* The interleaved rANS coder's invariant. A lane's encoder leaves a trace of states,
\* one for each symbol, and the bytes written between them; its decoder walks the trace
\* back. The frequencies stay as much from M as diff says.
THEOREM RansInvariant == RansSpec => []RansInv
<1>1. RansInit => RansInv
  BY RansInvInit
<1>2. RansInv /\ [RansNext]_ransVars => RansInv'
  BY RansInvNext
<1> QED BY <1>1, <1>2, PTL DEF RansSpec

\* What encode_interleaved_rans encoded, decode_interleaved_rans gives back, for every
\* input, number of lanes and scale: with a table that is exact when one is possible,
\* states that stay in 32 bits, and buffers the lanes fit in.
THEOREM RansComesBack == RansSpec => []RansExact
<1>1. RansInv => RansExact
  BY RansInvExact
<1> QED BY <1>1, RansInvariant, PTL
=============================================================================
