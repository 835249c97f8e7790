--------------------------- MODULE CompressorProofs ---------------------------
(***************************************************************************)
(* The two codecs for bytes. For every alphabet, size of a block and       *)
(* input, the suffix sorts of SuffixArray sort and BwtCodec gives back     *)
(* what was compressed. For every input, hash function, chain bound and    *)
(* nice length, what LZCodec decodes is the input, under the same models,  *)
(* and the hash chains are exact.                                          *)
(***************************************************************************)
EXTENDS LZCodec, BwtCodec, FiniteSetTheorems, SequenceTheorems, NaturalsInduction,
        WellFoundedInduction, TLAPS

\* A set of numbers has a least one.
LEMMA Least ==
  ASSUME NEW S, S \subseteq Nat, S # {}
  PROVE  \E m \in S : \A z \in S : m <= z
<1>1. PICK m \in S : \A z \in S : <<z, m>> \notin OpToRel(<, Nat)
  BY NatLessThanWellFounded, WFMin, Zenon
<1>2. ASSUME NEW z \in S PROVE m <= z
  <2>1. z \in Nat /\ m \in Nat
    OBVIOUS
  <2>2. ~ (z < m)
    BY <1>1, <2>1 DEF OpToRel
  <2> QED BY <2>1, <2>2
<1> QED BY <1>2

\* A set of numbers that has 0, and with each number the next, has all.
LEMMA Climb ==
  ASSUME NEW n \in Nat, NEW S, 0 \in S, \A l \in 1 .. n : l - 1 \in S => l \in S
  PROVE  \A l \in 0 .. n : l \in S
<1> DEFINE Out == {l \in 0 .. n : l \notin S}
<1> SUFFICES ASSUME Out # {} PROVE FALSE
  OBVIOUS
<1>1. PICK m \in Out : \A l \in Out : m <= l
  <2>1. Out \subseteq Nat
    OBVIOUS
  <2> HIDE DEF Out
  <2> QED BY <2>1, Least
<1>2. m \in 1 .. n /\ m - 1 \in 0 .. n /\ ~ (m <= m - 1)
  OBVIOUS
<1>3. m - 1 \in S
  BY <1>1, <1>2
<1> QED BY <1>1, <1>2, <1>3

\* What starts at c and goes from each value to the next by G.
Evolves(f, n, c, G) == f[0] = c /\ \A l \in 1 .. n : f[l] = G[<<l, f[l - 1]>>]

\* A function on 0 .. n may be given by its first value and the step from one value to
\* the next.
LEMMA Evolution ==
  ASSUME NEW n \in Nat, NEW S, NEW c \in S, NEW G \in [(1 .. n) \X S -> S]
  PROVE  \E f \in [0 .. n -> S] : Evolves(f, n, c, G)
<1> DEFINE Upto(m, f) == f \in [0 .. m -> S] /\ f[0] = c
                         /\ \A l \in 1 .. m : f[l] = G[<<l, f[l - 1]>>]
           T == {m \in 0 .. n : \E f : Upto(m, f)}
<1>1. 0 \in T
  <2>1. Upto(0, [l \in 0 .. 0 |-> c])
    OBVIOUS
  <2> HIDE DEF Upto
  <2> QED BY <2>1
<1>2. ASSUME NEW m \in 1 .. n, m - 1 \in T PROVE m \in T
  <2>1. PICK f : Upto(m - 1, f)
    BY <1>2
  <2>2. m - 1 \in 0 .. m - 1 /\ m \in Nat /\ m # 0
    OBVIOUS
  <2> DEFINE g == [l \in 0 .. m |-> IF l = m THEN G[<<m, f[m - 1]>>] ELSE f[l]]
  <2>3. f[m - 1] \in S
    BY <2>1, <2>2
  <2>4. G[<<m, f[m - 1]>>] \in S
    BY <2>3
  <2>5. \A l \in 0 .. m : l # m => l \in 0 .. m - 1
    BY <2>2
  <2>6. g \in [0 .. m -> S]
    BY <2>1, <2>4, <2>5
  <2>7. g[0] = c
    BY <2>1, <2>2
  <2>8. ASSUME NEW l \in 1 .. m PROVE g[l] = G[<<l, g[l - 1]>>]
    <3>1. l - 1 \in 0 .. m /\ l - 1 # m /\ l \in 0 .. m
      BY <2>2
    <3>2. g[l - 1] = f[l - 1]
      BY <3>1
    <3>3. CASE l = m
      BY <3>1, <3>2, <3>3
    <3>4. CASE l # m
      <4>1. l \in 1 .. m - 1
        BY <2>2, <3>4
      <4> QED BY <2>1, <3>1, <3>2, <3>4, <4>1
    <3> QED BY <3>3, <3>4
  <2>9. Upto(m, g)
    <3> HIDE DEF g
    <3> QED BY <2>6, <2>7, <2>8
  <2> HIDE DEF Upto, g
  <2> QED BY <2>9
<1>3. n \in T
  <2> HIDE DEF T
  <2>1. \A l \in 0 .. n : l \in T
    BY <1>1, <1>2, Climb
  <2> QED BY <2>1
<1> QED BY <1>3 DEF Evolves

-----------------------------------------------------------------------------
(***************************************************************************)
(* The suffix arrays. The suffixes of a text that ends with a symbol of    *)
(* its own are totally ordered; with each symbol goes the type of its      *)
(* position, and the LMS substrings, from one LMS position to the next,    *)
(* have an order that is part of theirs.                                   *)
(***************************************************************************)

\* The texts that are sorted: the last symbol is smaller than any other.
IsText(t) ==
  /\ t \in Seq(Nat) /\ Len(t) >= 1
  /\ \A p \in 1 .. Len(t) - 1 : t[Len(t)] < t[p]

\* What is used of them, with their length.
TextOf(t, n) ==
  /\ n \in Nat /\ n >= 1 /\ Len(t) = n /\ DOMAIN t = 1 .. n
  /\ t \in [1 .. n -> Nat]
  /\ \A p \in 1 .. n : t[p] \in Nat /\ t[n] <= t[p] /\ (t[p] = t[n] => p = n)

\* A text has a length of its own, and its last symbol nowhere else.
LEMMA TextIs ==
  ASSUME NEW t, IsText(t)
  PROVE  TextOf(t, Len(t))
<1>1. PICK n \in Nat : n = Len(t) /\ DOMAIN t = 1 .. n /\ t \in [1 .. n -> Nat] /\ n >= 1
  BY LenProperties DEF IsText
<1>0. n \in Nat
  OBVIOUS
<1>2. \A p \in 1 .. n - 1 : t[n] < t[p]
  BY <1>1 DEF IsText
<1>3. \A p \in 1 .. n : t[p] \in Nat /\ t[n] <= t[p] /\ (t[p] = t[n] => p = n)
  <2> SUFFICES ASSUME NEW p \in 1 .. n
               PROVE  t[p] \in Nat /\ t[n] <= t[p] /\ (t[p] = t[n] => p = n)
    OBVIOUS
  <2>1. p = n \/ p \in 1 .. n - 1
    BY <1>0
  <2>2. t[p] \in Nat /\ t[n] \in Nat
    BY <1>1
  <2> QED BY <1>2, <2>1, <2>2
<1> QED BY <1>1, <1>3 DEF TextOf

\* The order of suffixes: the symbols d on are the first that differ.
Differ(t, n, p, q, d) ==
  /\ p + d <= n /\ q + d <= n /\ t[p + d] < t[q + d]
  /\ \A j \in 0 .. d - 1 : t[p + j] = t[q + j]

\* One suffix is before another at the first symbol in which they differ.
LEMMA BeforeIs ==
  ASSUME NEW n \in Nat, NEW t, Len(t) = n,
         NEW p \in 1 .. n, NEW q \in 1 .. n
  PROVE  Before(t, p, q) <=> \E d \in Nat : Differ(t, n, p, q, d)
<1>1. Before(t, p, q) <=> \E d \in 0 .. n - 1 : Differ(t, n, p, q, d)
  BY DEF Before, Differ
<1>2. \A d \in Nat : Differ(t, n, p, q, d) => d \in 0 .. n - 1
  BY DEF Differ
<1>3. \A d \in 0 .. n - 1 : d \in Nat
  OBVIOUS
<1> QED BY <1>1, <1>2, <1>3, Zenon

\* Where they differ at all they differ first somewhere.
LEMMA BeforeTotal ==
  ASSUME NEW n \in Nat, NEW t \in [1 .. n -> Int], Len(t) = n,
         NEW p \in 1 .. n, NEW q \in 1 .. n,
         NEW e \in Nat, p + e <= n, q + e <= n, t[p + e] # t[q + e]
  PROVE  Before(t, p, q) \/ Before(t, q, p)
<1> DEFINE D == {d \in Nat : p + d <= n /\ q + d <= n /\ t[p + d] # t[q + d]}
<1>1. PICK d \in D : \A j \in D : d <= j
  <2>1. D \subseteq Nat /\ D # {}
    OBVIOUS
  <2> HIDE DEF D
  <2> QED BY <2>1, Least
<1>2. \A j \in 0 .. d - 1 : t[p + j] = t[q + j]
  <2> SUFFICES ASSUME NEW j \in 0 .. d - 1 PROVE t[p + j] = t[q + j]
    OBVIOUS
  <2>1. j \in Nat /\ p + j <= n /\ q + j <= n /\ ~ (d <= j)
    OBVIOUS
  <2> QED BY <1>1, <2>1
<1>3. p + d \in 1 .. n /\ q + d \in 1 .. n /\ t[p + d] # t[q + d] /\ d \in Nat
  OBVIOUS
<1>4. t[p + d] < t[q + d] \/ t[q + d] < t[p + d]
  BY <1>3
<1>5. Differ(t, n, p, q, d) \/ Differ(t, n, q, p, d)
  BY <1>2, <1>4 DEF Differ
<1> QED BY <1>3, <1>5, BeforeIs

\* The order of suffixes is transitive.
LEMMA BeforeTrans ==
  ASSUME NEW n \in Nat, NEW t \in [1 .. n -> Int], Len(t) = n,
         NEW p \in 1 .. n, NEW q \in 1 .. n, NEW r \in 1 .. n,
         Before(t, p, q), Before(t, q, r)
  PROVE  Before(t, p, r)
<1>1. PICK d \in Nat : Differ(t, n, p, q, d)
  BY BeforeIs
<1>2. PICK e \in Nat : Differ(t, n, q, r, e)
  BY BeforeIs
<1>3. PICK m \in Nat : m <= d /\ m <= e /\ (m = d \/ m = e)
  OBVIOUS
<1>4. p + m <= n /\ q + m <= n /\ r + m <= n
  BY <1>1, <1>2, <1>3 DEF Differ
<1>5. t[p + m] \in Int /\ t[q + m] \in Int /\ t[r + m] \in Int
  BY <1>4
<1>6. t[p + m] <= t[q + m] /\ t[q + m] <= t[r + m] /\ (t[p + m] < t[q + m] \/ t[q + m] < t[r + m])
  <2>1. m = d => t[p + m] < t[q + m]
    BY <1>1 DEF Differ
  <2>2. m # d => t[p + m] = t[q + m]
    <3>1. m # d => m \in 0 .. d - 1
      BY <1>3
    <3> QED BY <1>1, <3>1 DEF Differ
  <2>3. m = e => t[q + m] < t[r + m]
    BY <1>2 DEF Differ
  <2>4. m # e => t[q + m] = t[r + m]
    <3>1. m # e => m \in 0 .. e - 1
      BY <1>3
    <3> QED BY <1>2, <3>1 DEF Differ
  <2> QED BY <1>3, <1>5, <2>1, <2>2, <2>3, <2>4
<1>7. \A j \in 0 .. m - 1 : t[p + j] = t[r + j]
  <2>1. \A j \in 0 .. m - 1 : j \in 0 .. d - 1 /\ j \in 0 .. e - 1
    BY <1>3
  <2> QED BY <1>1, <1>2, <2>1 DEF Differ
<1>8. t[p + m] < t[r + m]
  BY <1>5, <1>6
<1>9. Differ(t, n, p, r, m)
  BY <1>4, <1>7, <1>8 DEF Differ
<1> QED BY <1>9, BeforeIs

\* The order of suffixes is asymmetric.
LEMMA BeforeNotBoth ==
  ASSUME NEW n \in Nat, NEW t \in [1 .. n -> Int], Len(t) = n,
         NEW p \in 1 .. n, NEW q \in 1 .. n, Before(t, p, q)
  PROVE  ~ Before(t, q, p)
<1> SUFFICES ASSUME Before(t, q, p) PROVE FALSE
  OBVIOUS
<1>1. Before(t, p, p)
  BY BeforeTrans
<1>2. PICK d \in Nat : Differ(t, n, p, p, d)
  BY <1>1, BeforeIs
<1>3. t[p + d] \in Int /\ t[p + d] < t[p + d]
  BY <1>2 DEF Differ
<1> QED BY <1>3

\* The same symbols in front do not matter.
LEMMA BeforePrefix ==
  ASSUME NEW n \in Nat, NEW t \in [1 .. n -> Int], Len(t) = n,
         NEW p \in 1 .. n, NEW q \in 1 .. n, NEW e \in Nat, p + e <= n, q + e <= n,
         \A j \in 0 .. e - 1 : t[p + j] = t[q + j], Before(t, p + e, q + e)
  PROVE  Before(t, p, q)
<1>1. p + e \in 1 .. n /\ q + e \in 1 .. n
  OBVIOUS
<1>2. PICK d \in Nat : Differ(t, n, p + e, q + e, d)
  BY <1>1, BeforeIs
<1>3. e + d \in Nat /\ p + (e + d) = (p + e) + d /\ q + (e + d) = (q + e) + d
  OBVIOUS
<1>4. ASSUME NEW j \in 0 .. (e + d) - 1 PROVE t[p + j] = t[q + j]
  <2>1. CASE j \in 0 .. e - 1
    BY <2>1
  <2>2. CASE j \notin 0 .. e - 1
    <3>1. j - e \in 0 .. d - 1 /\ (p + e) + (j - e) = p + j /\ (q + e) + (j - e) = q + j
      BY <2>2
    <3>2. \A z \in 0 .. d - 1 : t[(p + e) + z] = t[(q + e) + z]
      BY <1>2 DEF Differ
    <3>3. t[(p + e) + (j - e)] = t[(q + e) + (j - e)]
      BY <3>1, <3>2
    <3> QED BY <3>1, <3>3
  <2> QED BY <2>1, <2>2
<1>5. Differ(t, n, p, q, e + d)
  BY <1>2, <1>3, <1>4 DEF Differ
<1> QED BY <1>3, <1>5, BeforeIs

\* Two suffixes of a text differ before either ends.
Unequal(t, n, p, q, e) == p + e <= n /\ q + e <= n /\ t[p + e] # t[q + e]

\* Two suffixes of a text differ before either ends, as the last symbol is unique.
LEMMA TextDiffers ==
  ASSUME NEW n, NEW t, TextOf(t, n), NEW p \in 1 .. n, NEW q \in 1 .. n, p # q
  PROVE  \E e \in Nat : Unequal(t, n, p, q, e)
<1>1. n \in Nat /\ \A r \in 1 .. n : t[r] = t[n] => r = n
  BY DEF TextOf
<1>2. CASE p < q
  <2>1. n - q \in Nat /\ p + (n - q) \in 1 .. n /\ q + (n - q) = n /\ p + (n - q) # n
    BY <1>1, <1>2
  <2> QED BY <1>1, <2>1 DEF Unequal
<1>3. CASE q < p
  <2>1. n - p \in Nat /\ q + (n - p) \in 1 .. n /\ p + (n - p) = n /\ q + (n - p) # n
    BY <1>1, <1>3
  <2> QED BY <1>1, <2>1 DEF Unequal
<1> QED BY <1>1, <1>2, <1>3

\* The order of the suffixes of a text is total.
LEMMA TextTotal ==
  ASSUME NEW n, NEW t, TextOf(t, n), NEW p \in 1 .. n, NEW q \in 1 .. n, p # q
  PROVE  Before(t, p, q) \/ Before(t, q, p)
<1>1. n \in Nat /\ Len(t) = n /\ t \in [1 .. n -> Int]
  BY DEF TextOf
<1>2. PICK e \in Nat : Unequal(t, n, p, q, e)
  BY TextDiffers
<1> QED BY <1>1, <1>2, BeforeTotal DEF Unequal

\* The last position, the sentinel, is of S-type.
LEMMA TypeLast ==
  ASSUME NEW n, NEW t, TextOf(t, n)
  PROVE  SType(t, n)
<1>1. Len(t) = n /\ n \in Nat
  BY DEF TextOf
<1>2. n \in n .. Len(t) /\ (\A r \in n .. n - 1 : t[r] = t[r + 1]) /\ n = Len(t)
  BY <1>1
<1> QED BY <1>2 DEF SType

\* The type of a position is that of the next one when their symbols are equal.
LEMMA TypeStep ==
  ASSUME NEW n, NEW t, TextOf(t, n), NEW p \in 1 .. n - 1
  PROVE  /\ t[p] < t[p + 1] => SType(t, p)
         /\ t[p + 1] < t[p] => ~ SType(t, p)
         /\ t[p] = t[p + 1] => (SType(t, p) <=> SType(t, p + 1))
<1>1. Len(t) = n /\ n \in Nat /\ p \in Nat /\ p < n
  BY DEF TextOf
<1>2. \A r \in 1 .. n : t[r] \in Nat
  BY DEF TextOf
<1> DEFINE Ends(a, q) == /\ \A r \in a .. q - 1 : t[r] = t[r + 1]
                         /\ q = Len(t) \/ t[q] < t[q + 1]
<1>3. \A a : SType(t, a) <=> \E q \in a .. n : Ends(a, q)
  BY <1>1 DEF SType
<1>4. t[p] < t[p + 1] => SType(t, p)
  <2>1. t[p] < t[p + 1] => Ends(p, p)
    BY <1>1
  <2>2. p \in p .. n
    BY <1>1
  <2> HIDE DEF Ends
  <2> QED BY <1>3, <2>1, <2>2
<1>5. ASSUME NEW q \in p .. n, Ends(p, q), q # p PROVE t[p] = t[p + 1] /\ q \in p + 1 .. n /\ Ends(p + 1, q)
  <2>1. p \in p .. q - 1 /\ q \in p + 1 .. n /\ \A r \in p + 1 .. q - 1 : r \in p .. q - 1
    BY <1>1, <1>5
  <2> QED BY <1>5, <2>1
<1>6. t[p + 1] < t[p] => ~ SType(t, p)
  <2> SUFFICES ASSUME t[p + 1] < t[p], SType(t, p) PROVE FALSE
    OBVIOUS
  <2>1. PICK q \in p .. n : Ends(p, q)
    BY <1>3
  <2>2. t[p] \in Nat /\ t[p + 1] \in Nat
    BY <1>1, <1>2
  <2>3. CASE q = p
    BY <1>1, <2>1, <2>2, <2>3
  <2>4. CASE q # p
    BY <1>5, <2>1, <2>2, <2>4
  <2> QED BY <2>3, <2>4
<1>7. ASSUME t[p] = t[p + 1], SType(t, p) PROVE SType(t, p + 1)
  <2>1. PICK q \in p .. n : Ends(p, q)
    BY <1>3, <1>7
  <2>2. t[p] \in Nat /\ t[p + 1] \in Nat
    BY <1>1, <1>2
  <2>3. q # p
    BY <1>1, <1>7, <2>1, <2>2
  <2>4. q \in p + 1 .. n /\ Ends(p + 1, q)
    BY <1>5, <2>1, <2>3
  <2> HIDE DEF Ends
  <2> QED BY <1>3, <2>4
<1>8. ASSUME t[p] = t[p + 1], SType(t, p + 1) PROVE SType(t, p)
  <2>1. PICK q \in p + 1 .. n : Ends(p + 1, q)
    BY <1>3, <1>8
  <2>2. q \in p .. n
    BY <1>1
  <2>3. \A r \in p .. q - 1 : r = p \/ r \in p + 1 .. q - 1
    BY <1>1
  <2>4. Ends(p, q)
    BY <1>8, <2>1, <2>3
  <2> HIDE DEF Ends
  <2> QED BY <1>3, <2>2, <2>4
<1> QED BY <1>4, <1>6, <1>7, <1>8

\* A run ends at the end of the text or where the next symbol is another.
LEMMA RunEnds ==
  ASSUME NEW n, NEW t, TextOf(t, n), NEW p \in 1 .. n
  PROVE  \E e \in Nat : /\ p + e <= n
                        /\ \A j \in 0 .. e : t[p + j] = t[p]
                        /\ p + e = n \/ t[p + e + 1] # t[p]
                        /\ SType(t, p) <=> SType(t, p + e)
<1>1. n \in Nat /\ p \in Nat
  BY DEF TextOf
<1> DEFINE D == {e \in Nat : p + e <= n /\ (p + e = n \/ t[p + e + 1] # t[p])}
<1>2. PICK e \in D : \A j \in D : e <= j
  <2>1. n - p \in D
    BY <1>1
  <2>2. D \subseteq Nat /\ D # {}
    BY <2>1
  <2> HIDE DEF D
  <2> QED BY <2>2, Least
<1>3. e \in Nat /\ p + e <= n /\ (p + e = n \/ t[p + e + 1] # t[p])
  OBVIOUS
<1>4. ASSUME NEW j \in Nat, j < e PROVE t[p + j + 1] = t[p]
  <2>1. j \notin D
    <3> HIDE DEF D
    <3>1. e \in Nat
      BY <1>3
    <3> QED BY <1>2, <1>4, <3>1
  <2> QED BY <1>1, <1>3, <1>4, <2>1
<1> HIDE DEF D
<1>5. ASSUME NEW j \in 0 .. e PROVE t[p + j] = t[p]
  <2>1. CASE j = 0
    BY <1>1, <2>1
  <2>2. CASE j # 0
    <3>1. j - 1 \in Nat /\ j - 1 < e /\ p + (j - 1) + 1 = p + j
      BY <1>1, <1>3, <2>2
    <3> QED BY <1>4, <3>1
  <2> QED BY <2>1, <2>2
<1> DEFINE Same == {j \in 0 .. e : SType(t, p) <=> SType(t, p + j)}
<1>6. 0 \in Same
  BY <1>1, <1>3
<1>7. ASSUME NEW j \in 1 .. e, j - 1 \in Same PROVE j \in Same
  <2>1. p + (j - 1) \in 1 .. n - 1 /\ (p + (j - 1)) + 1 = p + j /\ j - 1 \in 0 .. e /\ j \in 0 .. e
    BY <1>1, <1>3
  <2>2. t[p + (j - 1)] = t[p + j]
    BY <1>5, <2>1
  <2>3. SType(t, p + (j - 1)) <=> SType(t, p + j)
    BY <2>1, <2>2, TypeStep
  <2> QED BY <1>7, <2>1, <2>3
<1>8. e \in Same
  <2> HIDE DEF Same
  <2>1. e \in Nat /\ e \in 0 .. e
    BY <1>3
  <2> QED BY <1>6, <1>7, <2>1, Climb
<1> QED BY <1>3, <1>5, <1>8

\* Of two suffixes with the same first symbol, the L-type one is smaller.
LEMMA TypeOrder ==
  ASSUME NEW n, NEW t, TextOf(t, n), NEW p \in 1 .. n, NEW q \in 1 .. n,
         t[p] = t[q], ~ SType(t, p), SType(t, q)
  PROVE  Before(t, p, q)
<1>1. n \in Nat /\ p \in Nat /\ q \in Nat /\ Len(t) = n
  BY DEF TextOf
<1>2. \A r \in 1 .. n : t[r] \in Nat /\ (t[r] = t[n] => r = n)
  BY DEF TextOf
<1>3. PICK e \in Nat : /\ p + e <= n
                       /\ \A j \in 0 .. e : t[p + j] = t[p]
                       /\ p + e = n \/ t[p + e + 1] # t[p]
                       /\ SType(t, p) <=> SType(t, p + e)
  BY RunEnds
<1>4. PICK f \in Nat : /\ q + f <= n
                       /\ \A j \in 0 .. f : t[q + j] = t[q]
                       /\ q + f = n \/ t[q + f + 1] # t[q]
                       /\ SType(t, q) <=> SType(t, q + f)
  BY RunEnds
<1>5. p # q /\ p + e # n
  BY <1>3, TypeLast
<1>6. q + f # n
  <2> SUFFICES ASSUME q + f = n PROVE FALSE
    OBVIOUS
  <2>1. t[q] = t[n]
    BY <1>4
  <2> QED BY <1>2, <1>5, <2>1
<1>7. p + e \in 1 .. n - 1 /\ q + f \in 1 .. n - 1
  BY <1>1, <1>3, <1>4, <1>5, <1>6
<1>8. t[p + e] = t[p] /\ t[q + f] = t[p]
  BY <1>3, <1>4
<1>9. p + e + 1 \in 1 .. n /\ q + f + 1 \in 1 .. n
  BY <1>1, <1>7
<1>10. t[p + e + 1] < t[p]
  <2>1. ~ (t[p + e] < t[p + e + 1])
    BY <1>3, <1>7, TypeStep
  <2> QED BY <1>2, <1>3, <1>5, <1>8, <1>9, <2>1
<1>11. t[p] < t[q + f + 1]
  <2>1. ~ (t[q + f + 1] < t[q + f])
    BY <1>4, <1>7, TypeStep
  <2> QED BY <1>2, <1>4, <1>6, <1>8, <1>9, <2>1
<1>12. PICK d \in Nat : d = (IF e <= f THEN e ELSE f)
  OBVIOUS
<1>13. \A j \in 0 .. (d + 1) - 1 : t[p + j] = t[q + j]
  <2>1. \A j \in 0 .. (d + 1) - 1 : j \in 0 .. e /\ j \in 0 .. f
    BY <1>12
  <2> QED BY <1>3, <1>4, <2>1
<1>14. p + (d + 1) = p + d + 1 /\ q + (d + 1) = q + d + 1 /\ d + 1 \in Nat
  BY <1>1
<1>15. p + (d + 1) <= n /\ q + (d + 1) <= n
  BY <1>1, <1>9, <1>12
<1>16. t[p + (d + 1)] < t[q + (d + 1)]
  <2>1. CASE e < f
    <3>1. d = e /\ d + 1 \in 0 .. f
      BY <1>12, <2>1
    <3>2. t[q + (d + 1)] = t[p]
      BY <1>4, <3>1
    <3> QED BY <1>10, <1>14, <3>1, <3>2
  <2>2. CASE e = f
    <3>1. t[p] \in Nat /\ t[p + e + 1] \in Nat /\ t[q + f + 1] \in Nat
      BY <1>2, <1>9
    <3> QED BY <1>10, <1>11, <1>12, <1>14, <2>2, <3>1
  <2>3. CASE f < e
    <3>1. d = f /\ d + 1 \in 0 .. e
      BY <1>12, <2>3
    <3>2. t[p + (d + 1)] = t[p]
      BY <1>3, <3>1
    <3> QED BY <1>11, <1>14, <3>1, <3>2
  <2> QED BY <2>1, <2>2, <2>3
<1>17. Differ(t, n, p, q, d + 1)
  BY <1>13, <1>15, <1>16 DEF Differ
<1> QED BY <1>1, <1>14, <1>17, BeforeIs

\* The text with types: of two equal symbols, the one of an L-type suffix is smaller.
Typed(t) == [p \in 1 .. Len(t) |-> 2 * t[p] + (IF SType(t, p) THEN 1 ELSE 0)]

\* Symbols that carry their types are ordered by symbol, then L-type before S-type.
LEMMA TypedIs ==
  ASSUME NEW n, NEW t, TextOf(t, n)
  PROVE  /\ Typed(t) \in [1 .. n -> Int] /\ Len(Typed(t)) = n
         /\ \A p, q \in 1 .. n :
              /\ Typed(t)[p] = Typed(t)[q] <=> t[p] = t[q] /\ (SType(t, p) <=> SType(t, q))
              /\ Typed(t)[p] < Typed(t)[q] <=>
                   t[p] < t[q] \/ (t[p] = t[q] /\ ~ SType(t, p) /\ SType(t, q))
<1>1. n \in Nat /\ Len(t) = n /\ \A p \in 1 .. n : t[p] \in Nat
  BY DEF TextOf
<1>2. Typed(t) = [p \in 1 .. n |-> 2 * t[p] + (IF SType(t, p) THEN 1 ELSE 0)]
  BY <1>1 DEF Typed
<1>3. Typed(t) \in [1 .. n -> Int] /\ Len(Typed(t)) = n
  BY <1>1, <1>2
<1>4. ASSUME NEW p \in 1 .. n, NEW q \in 1 .. n
      PROVE  /\ Typed(t)[p] = Typed(t)[q] <=> t[p] = t[q] /\ (SType(t, p) <=> SType(t, q))
             /\ Typed(t)[p] < Typed(t)[q] <=>
                  t[p] < t[q] \/ (t[p] = t[q] /\ ~ SType(t, p) /\ SType(t, q))
  <2>1. t[p] \in Nat /\ t[q] \in Nat
    BY <1>1
  <2>2. Typed(t)[p] = 2 * t[p] + (IF SType(t, p) THEN 1 ELSE 0)
    BY <1>2
  <2>3. Typed(t)[q] = 2 * t[q] + (IF SType(t, q) THEN 1 ELSE 0)
    BY <1>2
  <2> QED BY <2>1, <2>2, <2>3
<1> QED BY <1>3, <1>4

\* The order of the typed symbols is the order of the suffixes.
LEMMA TypedOrder ==
  ASSUME NEW n, NEW t, TextOf(t, n), NEW p \in 1 .. n, NEW q \in 1 .. n, Before(Typed(t), p, q)
  PROVE  Before(t, p, q)
<1>1. n \in Nat /\ Len(t) = n /\ t \in [1 .. n -> Int] /\ Len(Typed(t)) = n
  BY TypedIs DEF TextOf
<1>2. PICK d \in Nat : Differ(Typed(t), n, p, q, d)
  BY <1>1, BeforeIs
<1>3. p + d \in 1 .. n /\ q + d \in 1 .. n /\ p + d <= n /\ q + d <= n
  BY <1>1, <1>2 DEF Differ
<1>4. ASSUME NEW j \in 0 .. d - 1 PROVE t[p + j] = t[q + j]
  <2>1. p + j \in 1 .. n /\ q + j \in 1 .. n
    BY <1>1, <1>3
  <2>2. Typed(t)[p + j] = Typed(t)[q + j]
    BY <1>2 DEF Differ
  <2> QED BY <2>1, <2>2, TypedIs
<1>5. t[p + d] < t[q + d] \/ (t[p + d] = t[q + d] /\ ~ SType(t, p + d) /\ SType(t, q + d))
  <2>1. Typed(t)[p + d] < Typed(t)[q + d]
    BY <1>2 DEF Differ
  <2> QED BY <1>3, <2>1, TypedIs
<1>6. CASE t[p + d] < t[q + d]
  <2>1. Differ(t, n, p, q, d)
    BY <1>3, <1>4, <1>6 DEF Differ
  <2> QED BY <1>1, <2>1, BeforeIs
<1>7. CASE t[p + d] = t[q + d] /\ ~ SType(t, p + d) /\ SType(t, q + d)
  <2>1. Before(t, p + d, q + d)
    BY <1>3, <1>7, TypeOrder
  <2> QED BY <1>1, <1>3, <1>4, <2>1, BeforePrefix
<1> QED BY <1>5, <1>6, <1>7

\* Where two suffixes have the same typed symbols both have their LMS positions.
LEMMA LMSAlong ==
  ASSUME NEW n, NEW t, TextOf(t, n), NEW p \in 1 .. n, NEW q \in 1 .. n, NEW j \in Nat,
         j >= 1, p + j <= n, q + j <= n,
         Typed(t)[p + (j - 1)] = Typed(t)[q + (j - 1)], Typed(t)[p + j] = Typed(t)[q + j]
  PROVE  IsLMS(t, p + j) <=> IsLMS(t, q + j)
<1>1. n \in Nat
  BY DEF TextOf
<1>2. /\ p + (j - 1) \in 1 .. n /\ q + (j - 1) \in 1 .. n /\ p + j \in 1 .. n /\ q + j \in 1 .. n
      /\ p + (j - 1) = (p + j) - 1 /\ q + (j - 1) = (q + j) - 1 /\ p + j > 1 /\ q + j > 1
  BY <1>1
<1>3. (SType(t, p + j) <=> SType(t, q + j)) /\ (SType(t, p + (j - 1)) <=> SType(t, q + (j - 1)))
  BY <1>2, TypedIs
<1> QED BY <1>2, <1>3 DEF IsLMS

\* No LMS position between p and d further on.
Inner(t, p, d) == \A j \in 1 .. d - 1 : ~ IsLMS(t, p + j)

\* The typed symbols differ no later than where the next LMS position is.
SubLess(t, n, p, q) == \E d \in Nat : Differ(Typed(t), n, p, q, d) /\ Inner(t, p, d)

\* An LMS substring that is less starts a suffix that is before.
LEMMA SubLessBefore ==
  ASSUME NEW n, NEW t, TextOf(t, n), NEW p \in 1 .. n, NEW q \in 1 .. n, SubLess(t, n, p, q)
  PROVE  Before(t, p, q)
<1>1. n \in Nat /\ Len(Typed(t)) = n
  BY TypedIs DEF TextOf
<1>2. Before(Typed(t), p, q)
  BY <1>1, BeforeIs DEF SubLess
<1> QED BY <1>2, TypedOrder

\* The same typed symbols as far as e.
Agree(t, p, q, e) == \A j \in 0 .. e - 1 : Typed(t)[p + j] = Typed(t)[q + j]

\* Where typed symbols agree so do the LMS positions.
LEMMA InnerAlong ==
  ASSUME NEW n, NEW t, TextOf(t, n), NEW p \in 1 .. n, NEW q \in 1 .. n, NEW d \in Nat,
         p + d <= n, q + d <= n, Agree(t, p, q, d), Inner(t, p, d)
  PROVE  Inner(t, q, d)
<1> SUFFICES ASSUME NEW j \in 1 .. d - 1 PROVE ~ IsLMS(t, q + j)
  BY DEF Inner
<1>1. n \in Nat
  BY DEF TextOf
<1>2. j \in Nat /\ j >= 1 /\ p + j <= n /\ q + j <= n /\ j - 1 \in 0 .. d - 1 /\ j \in 0 .. d - 1
  BY <1>1
<1>3. Typed(t)[p + (j - 1)] = Typed(t)[q + (j - 1)] /\ Typed(t)[p + j] = Typed(t)[q + j]
  BY <1>2 DEF Agree
<1>4. ~ IsLMS(t, p + j)
  BY DEF Inner
<1> QED BY <1>2, <1>3, <1>4, LMSAlong

\* Two different suffixes agree up to somewhere, where one has the smaller typed symbol.
LEMMA Parts ==
  ASSUME NEW n, NEW t, TextOf(t, n), NEW p \in 1 .. n, NEW q \in 1 .. n, p # q
  PROVE  \E d \in Nat : /\ p + d <= n /\ q + d <= n /\ Agree(t, p, q, d)
                        /\ Typed(t)[p + d] < Typed(t)[q + d] \/ Typed(t)[q + d] < Typed(t)[p + d]
<1> DEFINE D == {d \in Nat : p + d <= n /\ q + d <= n /\ Typed(t)[p + d] # Typed(t)[q + d]}
<1>1. n \in Nat /\ Typed(t) \in [1 .. n -> Int]
  BY TypedIs DEF TextOf
<1>2. D # {}
  <2>1. PICK e \in Nat : p + e <= n /\ q + e <= n /\ t[p + e] # t[q + e]
    <3>1. PICK e \in Nat : Unequal(t, n, p, q, e)
      BY TextDiffers
    <3> QED BY <3>1 DEF Unequal
  <2>2. p + e \in 1 .. n /\ q + e \in 1 .. n
    BY <1>1, <2>1
  <2>3. Typed(t)[p + e] # Typed(t)[q + e]
    BY <2>1, <2>2, TypedIs
  <2> QED BY <2>1, <2>3
<1>3. PICK d \in D : \A j \in D : d <= j
  <2>1. D \subseteq Nat
    OBVIOUS
  <2> HIDE DEF D
  <2> QED BY <1>2, <2>1, Least
<1>4. d \in Nat /\ p + d <= n /\ q + d <= n /\ Typed(t)[p + d] # Typed(t)[q + d]
  OBVIOUS
<1>5. ASSUME NEW j \in 0 .. d - 1 PROVE Typed(t)[p + j] = Typed(t)[q + j]
  <2>1. j \in Nat /\ p + j <= n /\ q + j <= n /\ ~ (d <= j)
    BY <1>1, <1>4
  <2>2. j \notin D
    <3> HIDE DEF D
    <3> QED BY <1>3, <2>1
  <2> QED BY <2>1, <2>2
<1>6. p + d \in 1 .. n /\ q + d \in 1 .. n
  BY <1>1, <1>4
<1>7. Typed(t)[p + d] < Typed(t)[q + d] \/ Typed(t)[q + d] < Typed(t)[p + d]
  BY <1>1, <1>4, <1>6
<1> QED BY <1>4, <1>5, <1>7 DEF Agree

\* LMS substrings that are not the same are ordered one way or the other.
LEMMA SubLessElse ==
  ASSUME NEW n, NEW t, TextOf(t, n), NEW p \in 1 .. n, NEW q \in 1 .. n, p # q,
         ~ SameLMSSubstring(t, p, q)
  PROVE  SubLess(t, n, p, q) \/ SubLess(t, n, q, p)
<1>1. n \in Nat /\ Len(t) = n
  BY DEF TextOf
<1>2. PICK d \in Nat : /\ p + d <= n /\ q + d <= n /\ Agree(t, p, q, d)
                       /\ Typed(t)[p + d] < Typed(t)[q + d] \/ Typed(t)[q + d] < Typed(t)[p + d]
  BY Parts
<1>3. CASE Inner(t, p, d)
  <2>1. Inner(t, q, d)
    BY <1>2, <1>3, InnerAlong
  <2>2. Differ(Typed(t), n, p, q, d) \/ Differ(Typed(t), n, q, p, d)
    BY <1>2 DEF Differ, Agree
  <2> QED BY <1>3, <2>1, <2>2 DEF SubLess
<1>4. CASE ~ Inner(t, p, d)
  <2> DEFINE L == {j \in 1 .. d - 1 : IsLMS(t, p + j)}
  <2>1. PICK len \in L : \A j \in L : len <= j
    <3>1. PICK j \in 1 .. d - 1 : IsLMS(t, p + j)
      BY <1>4, Zenon DEF Inner
    <3>2. j \in L
      BY <3>1
    <3>3. L \subseteq Nat
      OBVIOUS
    <3> HIDE DEF L
    <3> QED BY <3>2, <3>3, Least
  <2>2. len \in 1 .. d - 1 /\ IsLMS(t, p + len)
    OBVIOUS
  <2>3. Inner(t, p, len)
    <3> SUFFICES ASSUME NEW j \in 1 .. len - 1 PROVE ~ IsLMS(t, p + j)
      BY DEF Inner
    <3>1. j \in 1 .. d - 1 /\ ~ (len <= j)
      BY <2>2
    <3>2. j \notin L
      <4> HIDE DEF L
      <4> QED BY <2>1, <3>1
    <3> QED BY <3>1, <3>2
  <2> HIDE DEF L
  <2>4. /\ len \in Nat /\ len >= 1 /\ p + len <= n /\ q + len <= n /\ len \in 1 .. n - p
        /\ len - 1 \in 0 .. d - 1 /\ len \in 0 .. d - 1 /\ \A j \in 0 .. len - 1 : j \in 0 .. d - 1
    BY <1>1, <1>2, <2>2
  <2>5. Agree(t, p, q, len)
    BY <1>2, <2>4 DEF Agree
  <2>6. Inner(t, q, len)
    BY <2>3, <2>4, <2>5, InnerAlong
  <2>7. IsLMS(t, q + len)
    <3>1. Typed(t)[p + (len - 1)] = Typed(t)[q + (len - 1)] /\ Typed(t)[p + len] = Typed(t)[q + len]
      BY <1>2, <2>4 DEF Agree
    <3> QED BY <2>2, <2>4, <3>1, LMSAlong
  <2>8. \A j \in 0 .. len - 1 : t[p + j] = t[q + j]
    <3> SUFFICES ASSUME NEW j \in 0 .. len - 1 PROVE t[p + j] = t[q + j]
      OBVIOUS
    <3>1. p + j \in 1 .. n /\ q + j \in 1 .. n
      BY <1>1, <2>4
    <3>2. Typed(t)[p + j] = Typed(t)[q + j]
      BY <2>5 DEF Agree
    <3> QED BY <3>1, <3>2, TypedIs
  <2>9. SameLMSSubstring(t, p, q)
    <3>1. \A j \in 1 .. len - 1 : ~ IsLMS(t, p + j) /\ ~ IsLMS(t, q + j)
      BY <2>3, <2>6 DEF Inner
    <3> QED BY <1>1, <2>2, <2>4, <2>7, <2>8, <3>1 DEF SameLMSSubstring
  <2> QED BY <2>9
<1> QED BY <1>3, <1>4

\* It is a weak order: what lies between two that differ differs from one of them.
LEMMA SubLessSplit ==
  ASSUME NEW n, NEW t, TextOf(t, n), NEW p \in 1 .. n, NEW q \in 1 .. n, NEW r \in 1 .. n,
         SubLess(t, n, p, q)
  PROVE  SubLess(t, n, p, r) \/ SubLess(t, n, r, q)
<1>1. n \in Nat /\ Typed(t) \in [1 .. n -> Int]
  BY TypedIs DEF TextOf
<1>2. PICK d \in Nat : Differ(Typed(t), n, p, q, d) /\ Inner(t, p, d)
  BY DEF SubLess
<1>3. CASE p = r
  BY <1>3
<1>4. CASE p # r
  <2>1. PICK e \in Nat : /\ p + e <= n /\ r + e <= n /\ Agree(t, p, r, e)
                         /\ Typed(t)[p + e] < Typed(t)[r + e] \/ Typed(t)[r + e] < Typed(t)[p + e]
    BY <1>4, Parts
  <2>2. p + d <= n /\ q + d <= n /\ Typed(t)[p + d] < Typed(t)[q + d] /\ Agree(t, p, q, d)
    BY <1>2 DEF Differ, Agree
  <2>3. CASE d < e
    <3>1. d \in 0 .. e - 1 /\ \A j \in 0 .. d - 1 : j \in 0 .. e - 1
      BY <2>3
    <3>2. Agree(t, p, r, d) /\ Typed(t)[r + d] = Typed(t)[p + d] /\ r + d <= n
      <4>1. r + d <= n
        BY <1>1, <2>1, <2>3
      <4> QED BY <2>1, <3>1, <4>1 DEF Agree
    <3>3. Differ(Typed(t), n, r, q, d)
      BY <2>2, <3>2 DEF Differ, Agree
    <3>4. Inner(t, r, d)
      BY <1>2, <2>2, <3>2, InnerAlong
    <3> QED BY <3>3, <3>4 DEF SubLess
  <2>4. CASE e <= d
    <3>1. Inner(t, p, e)
      <4>1. \A j \in 1 .. e - 1 : j \in 1 .. d - 1
        BY <2>4
      <4> QED BY <1>2, <4>1 DEF Inner
    <3>2. CASE Typed(t)[p + e] < Typed(t)[r + e]
      <4>1. Differ(Typed(t), n, p, r, e)
        BY <2>1, <3>2 DEF Differ, Agree
      <4> QED BY <3>1, <4>1 DEF SubLess
    <3>3. CASE Typed(t)[r + e] < Typed(t)[p + e]
      <4>1. q + e <= n /\ q + e \in 1 .. n /\ p + e \in 1 .. n /\ r + e \in 1 .. n
        BY <1>1, <2>1, <2>2, <2>4
      <4>2. Typed(t)[p + e] <= Typed(t)[q + e]
        <5>1. CASE e = d
          BY <1>1, <2>2, <4>1, <5>1
        <5>2. CASE e # d
          <6>1. e \in 0 .. d - 1
            BY <2>4, <5>2
          <6> QED BY <1>1, <2>2, <4>1, <6>1 DEF Agree
        <5> QED BY <5>1, <5>2
      <4>3. Typed(t)[r + e] < Typed(t)[q + e]
        BY <1>1, <3>3, <4>1, <4>2
      <4>4. \A j \in 0 .. e - 1 : Typed(t)[r + j] = Typed(t)[q + j]
        <5>1. \A j \in 0 .. e - 1 : j \in 0 .. d - 1
          BY <2>4
        <5> QED BY <2>1, <2>2, <5>1 DEF Agree
      <4>5. Differ(Typed(t), n, r, q, e)
        BY <2>1, <4>1, <4>3, <4>4 DEF Differ
      <4>6. Inner(t, r, e)
        BY <2>1, <3>1, InnerAlong
      <4> QED BY <4>5, <4>6 DEF SubLess
    <3> QED BY <2>1, <3>2, <3>3
  <2> QED BY <2>3, <2>4
<1> QED BY <1>3, <1>4

\* The order of LMS substrings is asymmetric.
LEMMA SubLessNotBoth ==
  ASSUME NEW n, NEW t, TextOf(t, n), NEW p \in 1 .. n, NEW q \in 1 .. n, SubLess(t, n, p, q)
  PROVE  ~ SubLess(t, n, q, p)
<1>1. n \in Nat /\ Len(t) = n /\ t \in [1 .. n -> Int]
  BY DEF TextOf
<1>2. Before(t, p, q)
  BY SubLessBefore
<1> QED BY <1>1, <1>2, SubLessBefore, BeforeNotBoth

\* What it means to be the same, with the length.
Same(t, p, q, len) ==
  /\ len \in 1 .. Len(t) - p /\ q + len <= Len(t)
  /\ IsLMS(t, p + len) /\ IsLMS(t, q + len)
  /\ \A d \in 0 .. len - 1 : t[p + d] = t[q + d]
  /\ \A d \in 1 .. len - 1 : ~ IsLMS(t, p + d) /\ ~ IsLMS(t, q + d)

\* Two LMS substrings are the same for some length.
LEMMA SameIs ==
  ASSUME NEW t, NEW p, NEW q
  PROVE  SameLMSSubstring(t, p, q) <=> \E len : Same(t, p, q, len)
BY DEF SameLMSSubstring, Same

\* Being the same LMS substring is transitive.
LEMMA SameTrans ==
  ASSUME NEW n, NEW t, TextOf(t, n), NEW p \in 1 .. n, NEW q \in 1 .. n, NEW r \in 1 .. n,
         SameLMSSubstring(t, p, q), SameLMSSubstring(t, q, r)
  PROVE  SameLMSSubstring(t, p, r)
<1>1. n \in Nat /\ Len(t) = n
  BY DEF TextOf
<1>2. PICK len : Same(t, p, q, len)
  BY SameIs
<1>3. PICK m : Same(t, q, r, m)
  BY SameIs
<1>4. len \in Nat /\ len >= 1 /\ m \in Nat /\ m >= 1
  BY <1>1, <1>2, <1>3 DEF Same
<1>5. len = m
  <2>1. len < m => len \in 1 .. m - 1
    BY <1>4
  <2>2. m < len => m \in 1 .. len - 1
    BY <1>4
  <2>3. IsLMS(t, q + len) /\ IsLMS(t, q + m)
    BY <1>2, <1>3 DEF Same
  <2>4. \A d \in 1 .. m - 1 : ~ IsLMS(t, q + d)
    BY <1>3 DEF Same
  <2>5. \A d \in 1 .. len - 1 : ~ IsLMS(t, q + d)
    BY <1>2 DEF Same
  <2>6. ~ (len < m) /\ ~ (m < len)
    BY <2>1, <2>2, <2>3, <2>4, <2>5
  <2> QED BY <1>4, <2>6
<1>6. Same(t, p, r, len)
  BY <1>2, <1>3, <1>5 DEF Same
<1> QED BY <1>6, SameIs

-----------------------------------------------------------------------------
(***************************************************************************)
(* The passes of induced sorting. Each bucket has an L-type part, filled   *)
(* from its start, and an S-type part, filled from its end. What is in a   *)
(* part at any time is the positions before those that were scanned, each  *)
(* in one slot, and in the order of the scan.                              *)
(***************************************************************************)

\* The bucket of c has its L-type suffixes first.
LOf(t, c) == {p \in 1 .. Len(t) : t[p] = c /\ ~ SType(t, p)}
SOf(t, c) == {p \in 1 .. Len(t) : t[p] = c /\ SType(t, p)}
BucketMiddle(t, c) == BucketStart(t, c) + Cardinality(LOf(t, c))

\* A bucket is its L-type part, then its S-type part, within the array.
LEMMA BucketIs ==
  ASSUME NEW n, NEW t, TextOf(t, n), NEW c \in Nat
  PROVE  /\ IsFiniteSet(LOf(t, c)) /\ IsFiniteSet(SOf(t, c))
         /\ Cardinality(LOf(t, c)) \in Nat /\ Cardinality(SOf(t, c)) \in Nat
         /\ BucketStart(t, c) \in Nat /\ BucketMiddle(t, c) \in Nat /\ BucketEnd(t, c) \in Nat
         /\ 1 <= BucketStart(t, c) /\ BucketStart(t, c) <= BucketMiddle(t, c)
         /\ BucketMiddle(t, c) <= BucketEnd(t, c) + 1 /\ BucketEnd(t, c) <= n
         /\ BucketMiddle(t, c) = BucketStart(t, c) + Cardinality(LOf(t, c))
         /\ BucketEnd(t, c) + 1 = BucketMiddle(t, c) + Cardinality(SOf(t, c))
<1>1. n \in Nat /\ Len(t) = n /\ DOMAIN t = 1 .. n
  BY DEF TextOf
<1>2. \A p \in 1 .. n : t[p] \in Nat
  BY DEF TextOf
<1> DEFINE A == {p \in 1 .. n : t[p] < c}
           B == {p \in 1 .. n : t[p] = c}
           D == {p \in 1 .. n : t[p] <= c}
<1>3. BucketStart(t, c) = Cardinality(A) + 1 /\ BucketEnd(t, c) = Cardinality(D)
  BY <1>1 DEF BucketStart, BucketEnd
<1>4. IsFiniteSet(1 .. n) /\ Cardinality(1 .. n) = n
  BY <1>1, FS_Interval
<1>5. A \subseteq 1 .. n /\ LOf(t, c) \subseteq 1 .. n /\ SOf(t, c) \subseteq 1 .. n /\ D \subseteq 1 .. n
  BY <1>1 DEF LOf, SOf
<1>6. LOf(t, c) \cap SOf(t, c) = {} /\ A \cap (LOf(t, c) \cup SOf(t, c)) = {}
  BY <1>1, <1>2 DEF LOf, SOf
<1>7. D = A \cup (LOf(t, c) \cup SOf(t, c))
  BY <1>1, <1>2 DEF LOf, SOf
<1> HIDE DEF A, B, D
<1>8. /\ IsFiniteSet(A) /\ IsFiniteSet(LOf(t, c)) /\ IsFiniteSet(SOf(t, c)) /\ IsFiniteSet(D)
      /\ Cardinality(A) \in Nat /\ Cardinality(LOf(t, c)) \in Nat /\ Cardinality(SOf(t, c)) \in Nat
      /\ Cardinality(D) \in Nat /\ Cardinality(D) <= n
  BY <1>4, <1>5, FS_Subset, FS_CardinalityType
<1>9. /\ IsFiniteSet(LOf(t, c) \cup SOf(t, c))
      /\ Cardinality(LOf(t, c) \cup SOf(t, c)) = Cardinality(LOf(t, c)) + Cardinality(SOf(t, c))
  <2>1. Cardinality(LOf(t, c) \cap SOf(t, c)) = 0
    BY <1>6, FS_EmptySet
  <2>2. /\ IsFiniteSet(LOf(t, c) \cup SOf(t, c))
        /\ Cardinality(LOf(t, c) \cup SOf(t, c)) =
             Cardinality(LOf(t, c)) + Cardinality(SOf(t, c)) - Cardinality(LOf(t, c) \cap SOf(t, c))
    BY <1>8, FS_Union
  <2> QED BY <1>8, <2>1, <2>2
<1>10. Cardinality(D) = Cardinality(A) + Cardinality(LOf(t, c)) + Cardinality(SOf(t, c))
  <2>1. Cardinality(A \cap (LOf(t, c) \cup SOf(t, c))) = 0
    BY <1>6, FS_EmptySet
  <2>2. Cardinality(A \cup (LOf(t, c) \cup SOf(t, c))) =
             Cardinality(A) + Cardinality(LOf(t, c) \cup SOf(t, c)) - Cardinality(A \cap (LOf(t, c) \cup SOf(t, c)))
    BY <1>8, <1>9, FS_Union
  <2> QED BY <1>7, <1>8, <1>9, <2>1, <2>2
<1> QED BY <1>1, <1>3, <1>8, <1>10 DEF BucketMiddle

\* The buckets follow each other.
LEMMA BucketOrder ==
  ASSUME NEW n, NEW t, TextOf(t, n), NEW c \in Nat, NEW d \in Nat, c < d
  PROVE  BucketEnd(t, c) < BucketStart(t, d)
<1>1. n \in Nat /\ Len(t) = n /\ DOMAIN t = 1 .. n
  BY DEF TextOf
<1>2. \A p \in 1 .. n : t[p] \in Nat
  BY DEF TextOf
<1> DEFINE A == {p \in 1 .. n : t[p] < d}
           D == {p \in 1 .. n : t[p] <= c}
<1>3. BucketStart(t, d) = Cardinality(A) + 1 /\ BucketEnd(t, c) = Cardinality(D)
  BY <1>1 DEF BucketStart, BucketEnd
<1>4. D \subseteq A /\ A \subseteq 1 .. n
  BY <1>2
<1> HIDE DEF A, D
<1>5. IsFiniteSet(A)
  <2>1. IsFiniteSet(1 .. n)
    BY <1>1, FS_Interval
  <2> QED BY <1>4, <2>1, FS_Subset
<1>6. IsFiniteSet(D) /\ Cardinality(D) <= Cardinality(A)
  BY <1>4, <1>5, FS_Subset
<1>7. Cardinality(A) \in Nat /\ Cardinality(D) \in Nat
  BY <1>5, <1>6, FS_CardinalityType
<1> QED BY <1>3, <1>6, <1>7

\* Distinct members of a finite set in slots from a to b, and one more that is in none.
LEMMA Room ==
  ASSUME NEW a \in Int, NEW b \in Int, b >= a - 1, NEW sa, NEW T, IsFiniteSet(T), NEW p \in T,
         \A s \in a .. b : sa[s] \in T /\ sa[s] # p,
         \A s, u \in a .. b : sa[s] = sa[u] => s = u
  PROVE  b - a + 1 < Cardinality(T)
<1> DEFINE f == [s \in a .. b |-> sa[s]]
<1>1. f \in Injection(a .. b, T \ {p})
  BY DEF Injection, IsInjective
<1>2. IsFiniteSet(T \ {p}) /\ Cardinality(T \ {p}) = Cardinality(T) - 1 /\ Cardinality(T) \in Nat
  BY FS_RemoveElement, FS_CardinalityType
<1> HIDE DEF f
<1>3. Cardinality(a .. b) <= Cardinality(T \ {p})
  BY <1>1, <1>2, FS_Injection
<1>4. Cardinality(a .. b) = b - a + 1
  <2>1. Cardinality(a .. b) = (IF a > b THEN 0 ELSE b - a + 1)
    BY FS_Interval
  <2> QED BY <2>1
<1> QED BY <1>2, <1>3, <1>4

\* The symbols of a text are the naturals that occur in it.
LEMMA SymbolsAre ==
  ASSUME NEW n, NEW t, TextOf(t, n)
  PROVE  /\ \A p \in 1 .. n : t[p] \in Range(t)
         /\ \A c \in Range(t) : c \in Nat /\ \E p \in 1 .. n : t[p] = c
BY DEF TextOf, Range

\* The state of a pass.
Passes(t, n) == [sa : [1 .. n -> 0 .. n], at : [Range(t) -> Int]]

\* A placement writes one slot and moves one bucket pointer.
LEMMA PutIs ==
  ASSUME NEW n, NEW t, TextOf(t, n), NEW acc \in Passes(t, n), NEW p \in 1 .. n, NEW step \in Int
  PROVE  /\ Put(t, acc, p, step) \in Passes(t, n)
         /\ \A s \in 1 .. n : Put(t, acc, p, step).sa[s] = IF s = acc.at[t[p]] THEN p ELSE acc.sa[s]
         /\ \A c \in Range(t) : Put(t, acc, p, step).at[c] =
                                  IF c = t[p] THEN acc.at[c] + step ELSE acc.at[c]
<1>1. t[p] \in Range(t) /\ n \in Nat /\ p \in 0 .. n
  BY SymbolsAre DEF TextOf
<1>2. PICK sa \in [1 .. n -> 0 .. n], at \in [Range(t) -> Int], c \in Range(t) :
        acc.sa = sa /\ acc.at = at /\ c = t[p]
  BY <1>1 DEF Passes
<1>3. PICK a \in Int : at[c] = a
  OBVIOUS
<1> DEFINE sa2 == [sa EXCEPT ![a] = p]
           at2 == [at EXCEPT ![c] = a + step]
<1>4. Put(t, acc, p, step) = [sa |-> sa2, at |-> at2]
  BY <1>2, <1>3 DEF Put
<1>5. sa2 \in [1 .. n -> 0 .. n]
  BY <1>1
<1>6. at2 \in [Range(t) -> Int]
  <2>1. a + step \in Int
    OBVIOUS
  <2> QED BY <2>1
<1>7. \A s \in 1 .. n : sa2[s] = IF s = a THEN p ELSE sa[s]
  OBVIOUS
<1>8. \A d \in Range(t) : at2[d] = IF d = c THEN a + step ELSE at[d]
  OBVIOUS
<1>9. \A d \in Range(t) : at2[d] = IF d = c THEN at[d] + step ELSE at[d]
  BY <1>3, <1>8
<1> HIDE DEF sa2, at2
<1>10. Put(t, acc, p, step).sa = sa2 /\ Put(t, acc, p, step).at = at2
  BY <1>4
<1>11. Put(t, acc, p, step) \in Passes(t, n)
  BY <1>4, <1>5, <1>6 DEF Passes
<1>12. acc.at[t[p]] = a
  BY <1>2, <1>3
<1> QED BY <1>2, <1>7, <1>9, <1>10, <1>11, <1>12

\* The slots from a to b hold different positions of T that start with c.
Holds(t, sa, a, b, c, T) ==
  /\ \A s \in a .. b : sa[s] \in T /\ t[sa[s]] = c
  /\ \A s, u \in a .. b : sa[s] = sa[u] => s = u

\* A bucket filled from its end, with S-type positions.
DownAt(t, sa, a, c, P) ==
  /\ BucketMiddle(t, c) - 1 <= a /\ a <= BucketEnd(t, c)
  /\ Holds(t, sa, a + 1, BucketEnd(t, c), c, P)
Down(t, n, acc, P) ==
  /\ acc \in Passes(t, n)
  /\ \A p \in P : p \in 1 .. n /\ SType(t, p)
  /\ \A c \in Range(t) : DownAt(t, acc.sa, acc.at[c], c, P)
  /\ \A p \in P : \E s \in acc.at[t[p]] + 1 .. BucketEnd(t, t[p]) : acc.sa[s] = p

\* A bucket filled from its start, with L-type positions.
UpAt(t, sa, a, c, P) ==
  /\ BucketStart(t, c) <= a /\ a <= BucketMiddle(t, c)
  /\ Holds(t, sa, BucketStart(t, c), a - 1, c, P)
Up(t, n, acc, P) ==
  /\ acc \in Passes(t, n)
  /\ \A p \in P : p \in 1 .. n /\ ~ SType(t, p)
  /\ \A c \in Range(t) : UpAt(t, acc.sa, acc.at[c], c, P)
  /\ \A p \in P : \E s \in BucketStart(t, t[p]) .. acc.at[t[p]] - 1 : acc.sa[s] = p

\* There is room for one more, in a slot of the part of the bucket.
LEMMA DownRoom ==
  ASSUME NEW n, NEW t, TextOf(t, n), NEW acc, NEW P, Down(t, n, acc, P),
         NEW p \in 1 .. n, SType(t, p), p \notin P
  PROVE  /\ acc.at[t[p]] \in BucketMiddle(t, t[p]) .. BucketEnd(t, t[p])
         /\ acc.at[t[p]] \in 1 .. n
<1> DEFINE c == t[p]
           a == acc.at[c]
<1>1. n \in Nat /\ Len(t) = n /\ c \in Nat /\ c \in Range(t)
  BY SymbolsAre DEF TextOf
<1>2. a \in Int
  BY <1>1 DEF Down, Passes
<1>3. DownAt(t, acc.sa, a, c, P)
  BY <1>1 DEF Down
<1>4. p \in SOf(t, c)
  BY <1>1 DEF SOf
<1>5. \A s \in a + 1 .. BucketEnd(t, c) : acc.sa[s] \in SOf(t, c) /\ acc.sa[s] # p
  <2> SUFFICES ASSUME NEW s \in a + 1 .. BucketEnd(t, c)
               PROVE  acc.sa[s] \in SOf(t, c) /\ acc.sa[s] # p
    OBVIOUS
  <2>1. acc.sa[s] \in P /\ t[acc.sa[s]] = c
    BY <1>3 DEF DownAt, Holds
  <2>2. acc.sa[s] \in 1 .. n /\ SType(t, acc.sa[s])
    BY <2>1 DEF Down
  <2> QED BY <1>1, <2>1, <2>2 DEF SOf
<1>6. \A s, u \in a + 1 .. BucketEnd(t, c) : acc.sa[s] = acc.sa[u] => s = u
  BY <1>3 DEF DownAt, Holds
<1>7. /\ IsFiniteSet(SOf(t, c)) /\ BucketEnd(t, c) \in Nat /\ BucketMiddle(t, c) \in Nat
      /\ Cardinality(SOf(t, c)) \in Nat /\ BucketMiddle(t, c) >= 1 /\ BucketEnd(t, c) <= n
      /\ BucketEnd(t, c) + 1 = BucketMiddle(t, c) + Cardinality(SOf(t, c))
  <2> HIDE DEF c
  <2>1. BucketStart(t, c) \in Nat /\ 1 <= BucketStart(t, c) /\ BucketStart(t, c) <= BucketMiddle(t, c)
    BY <1>1, BucketIs
  <2>2. /\ IsFiniteSet(SOf(t, c)) /\ BucketEnd(t, c) \in Nat /\ BucketMiddle(t, c) \in Nat
        /\ Cardinality(SOf(t, c)) \in Nat /\ BucketEnd(t, c) <= n
        /\ BucketEnd(t, c) + 1 = BucketMiddle(t, c) + Cardinality(SOf(t, c))
    BY <1>1, BucketIs
  <2> QED BY <2>1, <2>2
<1>8. BucketMiddle(t, c) - 1 <= a /\ a <= BucketEnd(t, c)
  BY <1>3 DEF DownAt
<1> HIDE DEF c, a
<1>9. BucketEnd(t, c) - (a + 1) + 1 < Cardinality(SOf(t, c))
  <2>1. a + 1 \in Int /\ BucketEnd(t, c) \in Int /\ BucketEnd(t, c) >= (a + 1) - 1
    BY <1>2, <1>7, <1>8
  <2> QED BY <1>4, <1>5, <1>6, <1>7, <2>1, Room
<1>10. a \in BucketMiddle(t, c) .. BucketEnd(t, c) /\ a \in 1 .. n
  BY <1>1, <1>2, <1>7, <1>8, <1>9
<1> QED BY <1>10 DEF a, c

\* The same for an L-type part, from its start.
LEMMA UpRoom ==
  ASSUME NEW n, NEW t, TextOf(t, n), NEW acc, NEW P, Up(t, n, acc, P),
         NEW p \in 1 .. n, ~ SType(t, p), p \notin P
  PROVE  /\ acc.at[t[p]] \in BucketStart(t, t[p]) .. BucketMiddle(t, t[p]) - 1
         /\ acc.at[t[p]] \in 1 .. n
<1> DEFINE c == t[p]
           a == acc.at[c]
<1>1. n \in Nat /\ Len(t) = n /\ c \in Nat /\ c \in Range(t)
  BY SymbolsAre DEF TextOf
<1>2. a \in Int
  BY <1>1 DEF Up, Passes
<1>3. UpAt(t, acc.sa, a, c, P)
  BY <1>1 DEF Up
<1>4. p \in LOf(t, c)
  BY <1>1 DEF LOf
<1>5. \A s \in BucketStart(t, c) .. a - 1 : acc.sa[s] \in LOf(t, c) /\ acc.sa[s] # p
  <2> SUFFICES ASSUME NEW s \in BucketStart(t, c) .. a - 1
               PROVE  acc.sa[s] \in LOf(t, c) /\ acc.sa[s] # p
    OBVIOUS
  <2>1. acc.sa[s] \in P /\ t[acc.sa[s]] = c
    BY <1>3 DEF UpAt, Holds
  <2>2. acc.sa[s] \in 1 .. n /\ ~ SType(t, acc.sa[s])
    BY <2>1 DEF Up
  <2> QED BY <1>1, <2>1, <2>2 DEF LOf
<1>6. \A s, u \in BucketStart(t, c) .. a - 1 : acc.sa[s] = acc.sa[u] => s = u
  BY <1>3 DEF UpAt, Holds
<1>7. /\ IsFiniteSet(LOf(t, c)) /\ BucketEnd(t, c) \in Nat /\ BucketMiddle(t, c) \in Nat
      /\ Cardinality(LOf(t, c)) \in Nat /\ BucketEnd(t, c) <= n
      /\ BucketStart(t, c) \in Nat /\ BucketStart(t, c) >= 1
      /\ BucketMiddle(t, c) = BucketStart(t, c) + Cardinality(LOf(t, c))
      /\ BucketMiddle(t, c) <= BucketEnd(t, c) + 1
  <2> HIDE DEF c
  <2>1. BucketStart(t, c) \in Nat /\ 1 <= BucketStart(t, c) /\ BucketMiddle(t, c) <= BucketEnd(t, c) + 1
    BY <1>1, BucketIs
  <2>2. /\ IsFiniteSet(LOf(t, c)) /\ BucketEnd(t, c) \in Nat /\ BucketMiddle(t, c) \in Nat
        /\ Cardinality(LOf(t, c)) \in Nat /\ BucketEnd(t, c) <= n
        /\ BucketMiddle(t, c) = BucketStart(t, c) + Cardinality(LOf(t, c))
    BY <1>1, BucketIs
  <2> QED BY <2>1, <2>2
<1>8. BucketStart(t, c) <= a /\ a <= BucketMiddle(t, c)
  BY <1>3 DEF UpAt
<1> HIDE DEF c, a
<1>9. (a - 1) - BucketStart(t, c) + 1 < Cardinality(LOf(t, c))
  <2>1. a - 1 \in Int /\ BucketStart(t, c) \in Int /\ a - 1 >= BucketStart(t, c) - 1
    BY <1>2, <1>7, <1>8
  <2> QED BY <1>4, <1>5, <1>6, <1>7, <2>1, Room
<1>10. a \in BucketStart(t, c) .. BucketMiddle(t, c) - 1 /\ a \in 1 .. n
  BY <1>1, <1>2, <1>7, <1>8, <1>9
<1> QED BY <1>10 DEF a, c

\* A slot is in one bucket only.
InBucket(t, s, c) == BucketStart(t, c) <= s /\ s <= BucketEnd(t, c)

\* No slot is in the buckets of two symbols.
LEMMA BucketApart ==
  ASSUME NEW n, NEW t, TextOf(t, n), NEW c \in Nat, NEW d \in Nat, NEW s \in Int,
         InBucket(t, s, c), InBucket(t, s, d)
  PROVE  c = d
<1>1. BucketStart(t, c) \in Nat /\ BucketEnd(t, c) \in Nat
  BY BucketIs
<1>2. BucketStart(t, d) \in Nat /\ BucketEnd(t, d) \in Nat
  BY BucketIs
<1>3. ~ (c < d)
  <2> SUFFICES ASSUME c < d PROVE FALSE
    OBVIOUS
  <2>1. BucketEnd(t, c) < BucketStart(t, d)
    BY BucketOrder
  <2> QED BY <1>1, <1>2, <2>1 DEF InBucket
<1>4. ~ (d < c)
  <2> SUFFICES ASSUME d < c PROVE FALSE
    OBVIOUS
  <2>1. BucketEnd(t, d) < BucketStart(t, c)
    BY BucketOrder
  <2> QED BY <1>1, <1>2, <2>1 DEF InBucket
<1> QED BY <1>3, <1>4

\* The slots that are filled are in an order.
Ranked(sa, a, b, R) == \A s, u \in a .. b : s < u => <<sa[s], sa[u]>> \in R
UpSorted(t, acc, R) == \A c \in Range(t) : Ranked(acc.sa, BucketStart(t, c), acc.at[c] - 1, R)
DownSorted(t, acc, R) == \A c \in Range(t) : Ranked(acc.sa, acc.at[c] + 1, BucketEnd(t, c), R)

\* What a placement changes.
PutAt(t, n, acc, new, p, step) ==
  /\ \A s \in 1 .. n : new.sa[s] = IF s = acc.at[t[p]] THEN p ELSE acc.sa[s]
  /\ \A c \in Range(t) : new.at[c] = IF c = t[p] THEN acc.at[c] + step ELSE acc.at[c]

\* Placing one more at the front of an L-type part, or at the back of an S-type part.
LEMMA UpPut ==
  ASSUME NEW n, NEW t, TextOf(t, n), NEW acc, NEW P, NEW R, NEW R2, NEW new,
         Up(t, n, acc, P), UpSorted(t, acc, R), R \subseteq R2,
         NEW p \in 1 .. n, ~ SType(t, p), p \notin P,
         \A q \in P : <<q, p>> \in R2,
         new = Put(t, acc, p, 1)
  PROVE  Up(t, n, new, P \cup {p}) /\ UpSorted(t, new, R2) /\ PutAt(t, n, acc, new, p, 1)
<1>1. n \in Nat /\ t[p] \in Range(t) /\ \A c \in Range(t) : c \in Nat
  BY SymbolsAre DEF TextOf
<1>2. acc \in Passes(t, n)
  BY DEF Up
<1>3. new \in Passes(t, n) /\ PutAt(t, n, acc, new, p, 1)
  BY <1>2, PutIs DEF PutAt
<1> DEFINE d == t[p]
           a == acc.at[d]
<1>4. a \in BucketStart(t, d) .. BucketMiddle(t, d) - 1 /\ a \in 1 .. n
  BY UpRoom
<1>5. d \in Range(t) /\ d \in Nat
  BY <1>1
<1>6. /\ \A s \in 1 .. n : s # a => new.sa[s] = acc.sa[s]
      /\ new.sa[a] = p /\ new.at[d] = a + 1
      /\ \A c \in Range(t) : c # d => new.at[c] = acc.at[c]
  BY <1>3, <1>4, <1>5 DEF PutAt
<1>7. acc.sa \in [1 .. n -> 0 .. n] /\ \A c \in Range(t) : acc.at[c] \in Int
  BY <1>2 DEF Passes
<1>8. ASSUME NEW c \in Range(t)
      PROVE  /\ UpAt(t, acc.sa, acc.at[c], c, P) /\ BucketStart(t, c) \in Nat /\ 1 <= BucketStart(t, c)
             /\ BucketMiddle(t, c) <= BucketEnd(t, c) + 1 /\ BucketEnd(t, c) <= n
             /\ BucketMiddle(t, c) \in Nat /\ BucketEnd(t, c) \in Nat
             /\ \A s \in BucketStart(t, c) .. acc.at[c] - 1 : s \in 1 .. n /\ s # a /\ new.sa[s] = acc.sa[s]
  <2>1. UpAt(t, acc.sa, acc.at[c], c, P)
    BY DEF Up
  <2>2. /\ BucketStart(t, c) \in Nat /\ 1 <= BucketStart(t, c) /\ BucketEnd(t, c) <= n
        /\ BucketMiddle(t, c) <= BucketEnd(t, c) + 1
        /\ BucketMiddle(t, c) \in Nat /\ BucketEnd(t, c) \in Nat
    BY <1>1, BucketIs
  <2>3. ASSUME NEW s \in BucketStart(t, c) .. acc.at[c] - 1 PROVE s \in 1 .. n /\ s # a
    <3>1. acc.at[c] \in Int /\ acc.at[c] <= BucketMiddle(t, c)
      BY <1>7, <2>1 DEF UpAt
    <3>2. s \in Int /\ s \in 1 .. n /\ BucketStart(t, c) <= s /\ s <= BucketEnd(t, c)
      BY <1>1, <2>2, <3>1
    <3>3. CASE c = d
      <4>1. acc.at[c] = a
        BY <3>3
      <4> QED BY <3>1, <3>2, <4>1
    <3>4. CASE c # d
      <4> SUFFICES ASSUME s = a PROVE FALSE
        BY <3>2
      <4>1. /\ BucketStart(t, d) \in Nat /\ BucketMiddle(t, d) \in Nat /\ BucketEnd(t, d) \in Nat
            /\ BucketMiddle(t, d) <= BucketEnd(t, d) + 1
        BY <1>5, BucketIs
      <4>2. BucketStart(t, d) <= a /\ a <= BucketEnd(t, d)
        BY <1>4, <4>1
      <4>3. InBucket(t, s, c) /\ InBucket(t, s, d)
        BY <3>2, <4>2 DEF InBucket
      <4> QED BY <1>1, <1>5, <3>2, <3>4, <4>3, BucketApart
    <3> QED BY <3>3, <3>4
  <2>4. \A s \in BucketStart(t, c) .. acc.at[c] - 1 : new.sa[s] = acc.sa[s]
    BY <1>6, <2>3
  <2> HIDE DEF a, d
  <2> QED BY <2>1, <2>2, <2>3, <2>4
<1>9. ASSUME NEW q \in P PROVE q \in 1 .. n /\ ~ SType(t, q) /\ t[q] \in Range(t)
  <2>1. q \in 1 .. n /\ ~ SType(t, q)
    BY DEF Up
  <2> QED BY <2>1, SymbolsAre
<1> HIDE DEF a, d
<1>10. d = t[p]
  BY DEF d
<1>11. ASSUME NEW c \in Range(t)
       PROVE  UpAt(t, new.sa, new.at[c], c, P \cup {p}) /\ Ranked(new.sa, BucketStart(t, c), new.at[c] - 1, R2)
  <2>1. /\ BucketStart(t, c) <= acc.at[c] /\ acc.at[c] <= BucketMiddle(t, c)
        /\ \A s \in BucketStart(t, c) .. acc.at[c] - 1 : acc.sa[s] \in P /\ t[acc.sa[s]] = c
        /\ \A s, u \in BucketStart(t, c) .. acc.at[c] - 1 : acc.sa[s] = acc.sa[u] => s = u
    BY <1>8 DEF UpAt, Holds
  <2>2. Ranked(acc.sa, BucketStart(t, c), acc.at[c] - 1, R)
    BY DEF UpSorted
  <2>3. \A s \in BucketStart(t, c) .. acc.at[c] - 1 : new.sa[s] = acc.sa[s]
    BY <1>8
  <2>4. BucketStart(t, c) \in Int /\ acc.at[c] \in Int
    BY <1>7, <1>8
  <2>5. CASE c # d
    <3>1. new.at[c] = acc.at[c]
      BY <1>6, <2>5
    <3>2. Ranked(new.sa, BucketStart(t, c), acc.at[c] - 1, R2)
      BY <2>2, <2>3 DEF Ranked
    <3>3. UpAt(t, new.sa, acc.at[c], c, P \cup {p})
      BY <2>1, <2>3 DEF UpAt, Holds
    <3> QED BY <3>1, <3>2, <3>3
  <2>6. CASE c = d
    <3>1. new.at[c] - 1 = a /\ new.at[c] = a + 1 /\ acc.at[c] = a /\ a \in Int /\ new.sa[a] = p
      BY <1>4, <1>6, <2>6 DEF a
    <3>2. \A s \in BucketStart(t, c) .. a : s = a \/ s \in BucketStart(t, c) .. acc.at[c] - 1
      BY <2>4, <3>1
    <3>3. BucketStart(t, c) <= a + 1 /\ a + 1 <= BucketMiddle(t, c)
      BY <1>4, <1>8, <2>6
    <3>4. \A s \in BucketStart(t, c) .. a : new.sa[s] \in P \cup {p} /\ t[new.sa[s]] = c
      BY <1>10, <2>1, <2>3, <2>6, <3>1, <3>2
    <3>5. \A s, u \in BucketStart(t, c) .. a : new.sa[s] = new.sa[u] => s = u
      BY <2>1, <2>3, <3>1, <3>2
    <3>6. ASSUME NEW s \in BucketStart(t, c) .. a, NEW u \in BucketStart(t, c) .. a, s < u
          PROVE  <<new.sa[s], new.sa[u]>> \in R2
      <4>1. s \in BucketStart(t, c) .. acc.at[c] - 1
        BY <2>4, <3>1, <3>6
      <4>2. CASE u = a
        BY <2>1, <2>3, <3>1, <4>1, <4>2
      <4>3. CASE u # a
        <5>1. u \in BucketStart(t, c) .. acc.at[c] - 1
          BY <3>2, <4>3
        <5>2. <<acc.sa[s], acc.sa[u]>> \in R
          BY <2>2, <3>6, <4>1, <5>1 DEF Ranked
        <5> QED BY <2>3, <4>1, <5>1, <5>2
      <4> QED BY <4>2, <4>3
    <3>7. UpAt(t, new.sa, a + 1, c, P \cup {p})
      BY <3>1, <3>3, <3>4, <3>5 DEF UpAt, Holds
    <3>8. Ranked(new.sa, BucketStart(t, c), a, R2)
      BY <3>6 DEF Ranked
    <3> QED BY <3>1, <3>7, <3>8
  <2> QED BY <2>5, <2>6
<1>12. ASSUME NEW q \in P \cup {p} PROVE \E s \in BucketStart(t, t[q]) .. new.at[t[q]] - 1 : new.sa[s] = q
  <2>1. CASE q = p
    <3>1. new.at[t[q]] - 1 = a /\ a \in BucketStart(t, t[q]) .. a /\ new.sa[a] = q
      BY <1>4, <1>6, <1>10, <2>1
    <3> QED BY <3>1
  <2>2. CASE q # p
    <3>1. q \in P
      BY <2>2
    <3>2. PICK s \in BucketStart(t, t[q]) .. acc.at[t[q]] - 1 : acc.sa[s] = q
      BY <3>1 DEF Up
    <3>3. t[q] \in Range(t)
      BY <1>9, <3>1
    <3>4. new.sa[s] = q
      BY <1>8, <3>2, <3>3
    <3>5. s \in BucketStart(t, t[q]) .. new.at[t[q]] - 1
      <4>1. new.at[t[q]] = acc.at[t[q]] \/ (t[q] = d /\ new.at[t[q]] = acc.at[t[q]] + 1)
        BY <1>6, <3>3 DEF a
      <4>2. BucketStart(t, t[q]) \in Nat /\ acc.at[t[q]] \in Int
        BY <1>7, <1>8, <3>3
      <4> QED BY <4>1, <4>2
    <3> QED BY <3>4, <3>5
  <2> QED BY <2>1, <2>2
<1>13. Up(t, n, new, P \cup {p})
  <2>1. \A q \in P \cup {p} : q \in 1 .. n /\ ~ SType(t, q)
    BY <1>9
  <2> QED BY <1>3, <1>11, <1>12, <2>1 DEF Up
<1>14. UpSorted(t, new, R2)
  BY <1>11 DEF UpSorted
<1> QED BY <1>3, <1>13, <1>14

\* The same for an S-type part, from its end.
LEMMA DownPut ==
  ASSUME NEW n, NEW t, TextOf(t, n), NEW acc, NEW P, NEW R, NEW R2, NEW new,
         Down(t, n, acc, P), DownSorted(t, acc, R), R \subseteq R2,
         NEW p \in 1 .. n, SType(t, p), p \notin P,
         \A q \in P : <<p, q>> \in R2,
         new = Put(t, acc, p, -1)
  PROVE  Down(t, n, new, P \cup {p}) /\ DownSorted(t, new, R2) /\ PutAt(t, n, acc, new, p, -1)
<1>1. n \in Nat /\ t[p] \in Range(t) /\ \A c \in Range(t) : c \in Nat
  BY SymbolsAre DEF TextOf
<1>2. acc \in Passes(t, n)
  BY DEF Down
<1>3. new \in Passes(t, n) /\ PutAt(t, n, acc, new, p, -1)
  BY <1>2, PutIs DEF PutAt
<1> DEFINE d == t[p]
           a == acc.at[d]
<1>4. a \in BucketMiddle(t, d) .. BucketEnd(t, d) /\ a \in 1 .. n
  BY DownRoom
<1>5. d \in Range(t) /\ d \in Nat
  BY <1>1
<1>6. /\ \A s \in 1 .. n : s # a => new.sa[s] = acc.sa[s]
      /\ new.sa[a] = p /\ new.at[d] = a - 1
      /\ \A c \in Range(t) : c # d => new.at[c] = acc.at[c]
  BY <1>3, <1>4, <1>5 DEF PutAt
<1>7. acc.sa \in [1 .. n -> 0 .. n] /\ \A c \in Range(t) : acc.at[c] \in Int
  BY <1>2 DEF Passes
<1>8. ASSUME NEW c \in Range(t)
      PROVE  /\ DownAt(t, acc.sa, acc.at[c], c, P) /\ BucketStart(t, c) \in Nat /\ 1 <= BucketStart(t, c)
             /\ BucketStart(t, c) <= BucketMiddle(t, c) /\ BucketEnd(t, c) <= n
             /\ BucketMiddle(t, c) \in Nat /\ BucketEnd(t, c) \in Nat
             /\ \A s \in acc.at[c] + 1 .. BucketEnd(t, c) : s \in 1 .. n /\ s # a /\ new.sa[s] = acc.sa[s]
  <2>1. DownAt(t, acc.sa, acc.at[c], c, P)
    BY DEF Down
  <2>2. /\ BucketStart(t, c) \in Nat /\ 1 <= BucketStart(t, c) /\ BucketEnd(t, c) <= n
        /\ BucketStart(t, c) <= BucketMiddle(t, c)
        /\ BucketMiddle(t, c) \in Nat /\ BucketEnd(t, c) \in Nat
    BY <1>1, BucketIs
  <2>3. ASSUME NEW s \in acc.at[c] + 1 .. BucketEnd(t, c) PROVE s \in 1 .. n /\ s # a
    <3>1. acc.at[c] \in Int /\ BucketMiddle(t, c) - 1 <= acc.at[c]
      BY <1>7, <2>1 DEF DownAt
    <3>2. s \in Int /\ s \in 1 .. n /\ BucketStart(t, c) <= s /\ s <= BucketEnd(t, c)
      BY <1>1, <2>2, <3>1
    <3>3. CASE c = d
      <4>1. acc.at[c] = a
        BY <3>3
      <4> QED BY <3>1, <3>2, <4>1
    <3>4. CASE c # d
      <4> SUFFICES ASSUME s = a PROVE FALSE
        BY <3>2
      <4>1. /\ BucketStart(t, d) \in Nat /\ BucketMiddle(t, d) \in Nat /\ BucketEnd(t, d) \in Nat
            /\ BucketStart(t, d) <= BucketMiddle(t, d)
        BY <1>5, BucketIs
      <4>2. BucketStart(t, d) <= a /\ a <= BucketEnd(t, d)
        BY <1>4, <4>1
      <4>3. InBucket(t, s, c) /\ InBucket(t, s, d)
        BY <3>2, <4>2 DEF InBucket
      <4> QED BY <1>1, <1>5, <3>2, <3>4, <4>3, BucketApart
    <3> QED BY <3>3, <3>4
  <2>4. \A s \in acc.at[c] + 1 .. BucketEnd(t, c) : new.sa[s] = acc.sa[s]
    BY <1>6, <2>3
  <2> HIDE DEF a, d
  <2> QED BY <2>1, <2>2, <2>3, <2>4
<1>9. ASSUME NEW q \in P PROVE q \in 1 .. n /\ SType(t, q) /\ t[q] \in Range(t)
  <2>1. q \in 1 .. n /\ SType(t, q)
    BY DEF Down
  <2> QED BY <2>1, SymbolsAre
<1> HIDE DEF a, d
<1>10. d = t[p]
  BY DEF d
<1>11. ASSUME NEW c \in Range(t)
       PROVE  DownAt(t, new.sa, new.at[c], c, P \cup {p}) /\ Ranked(new.sa, new.at[c] + 1, BucketEnd(t, c), R2)
  <2>1. /\ BucketMiddle(t, c) - 1 <= acc.at[c] /\ acc.at[c] <= BucketEnd(t, c)
        /\ \A s \in acc.at[c] + 1 .. BucketEnd(t, c) : acc.sa[s] \in P /\ t[acc.sa[s]] = c
        /\ \A s, u \in acc.at[c] + 1 .. BucketEnd(t, c) : acc.sa[s] = acc.sa[u] => s = u
    BY <1>8 DEF DownAt, Holds
  <2>2. Ranked(acc.sa, acc.at[c] + 1, BucketEnd(t, c), R)
    BY DEF DownSorted
  <2>3. \A s \in acc.at[c] + 1 .. BucketEnd(t, c) : new.sa[s] = acc.sa[s]
    BY <1>8
  <2>4. BucketEnd(t, c) \in Int /\ acc.at[c] \in Int
    BY <1>7, <1>8
  <2>5. CASE c # d
    <3>1. new.at[c] = acc.at[c]
      BY <1>6, <2>5
    <3>2. Ranked(new.sa, acc.at[c] + 1, BucketEnd(t, c), R2)
      BY <2>2, <2>3 DEF Ranked
    <3>3. DownAt(t, new.sa, acc.at[c], c, P \cup {p})
      BY <2>1, <2>3 DEF DownAt, Holds
    <3> QED BY <3>1, <3>2, <3>3
  <2>6. CASE c = d
    <3>1. new.at[c] + 1 = a /\ new.at[c] = a - 1 /\ acc.at[c] = a /\ a \in Int /\ new.sa[a] = p
      BY <1>4, <1>6, <2>6 DEF a
    <3>2. \A s \in a .. BucketEnd(t, c) : s = a \/ s \in acc.at[c] + 1 .. BucketEnd(t, c)
      BY <2>4, <3>1
    <3>3. BucketMiddle(t, c) - 1 <= a - 1 /\ a - 1 <= BucketEnd(t, c)
      BY <1>4, <1>8, <2>6
    <3>4. \A s \in a .. BucketEnd(t, c) : new.sa[s] \in P \cup {p} /\ t[new.sa[s]] = c
      BY <1>10, <2>1, <2>3, <2>6, <3>1, <3>2
    <3>5. \A s, u \in a .. BucketEnd(t, c) : new.sa[s] = new.sa[u] => s = u
      BY <2>1, <2>3, <3>1, <3>2
    <3>6. ASSUME NEW s \in a .. BucketEnd(t, c), NEW u \in a .. BucketEnd(t, c), s < u
          PROVE  <<new.sa[s], new.sa[u]>> \in R2
      <4>1. u \in acc.at[c] + 1 .. BucketEnd(t, c)
        BY <2>4, <3>1, <3>6
      <4>2. CASE s = a
        BY <2>1, <2>3, <3>1, <4>1, <4>2
      <4>3. CASE s # a
        <5>1. s \in acc.at[c] + 1 .. BucketEnd(t, c)
          BY <3>2, <4>3
        <5>2. <<acc.sa[s], acc.sa[u]>> \in R
          BY <2>2, <3>6, <4>1, <5>1 DEF Ranked
        <5> QED BY <2>3, <4>1, <5>1, <5>2
      <4> QED BY <4>2, <4>3
    <3>7. DownAt(t, new.sa, a - 1, c, P \cup {p})
      BY <3>1, <3>3, <3>4, <3>5 DEF DownAt, Holds
    <3>8. Ranked(new.sa, a, BucketEnd(t, c), R2)
      BY <3>6 DEF Ranked
    <3> QED BY <3>1, <3>7, <3>8
  <2> QED BY <2>5, <2>6
<1>12. ASSUME NEW q \in P \cup {p} PROVE \E s \in new.at[t[q]] + 1 .. BucketEnd(t, t[q]) : new.sa[s] = q
  <2>1. CASE q = p
    <3>1. new.at[t[q]] + 1 = a /\ a \in a .. BucketEnd(t, t[q]) /\ new.sa[a] = q
      BY <1>4, <1>6, <1>10, <2>1
    <3> QED BY <3>1
  <2>2. CASE q # p
    <3>1. q \in P
      BY <2>2
    <3>2. PICK s \in acc.at[t[q]] + 1 .. BucketEnd(t, t[q]) : acc.sa[s] = q
      BY <3>1 DEF Down
    <3>3. t[q] \in Range(t)
      BY <1>9, <3>1
    <3>4. new.sa[s] = q
      BY <1>8, <3>2, <3>3
    <3>5. s \in new.at[t[q]] + 1 .. BucketEnd(t, t[q])
      <4>1. new.at[t[q]] = acc.at[t[q]] \/ (t[q] = d /\ new.at[t[q]] = acc.at[t[q]] - 1)
        BY <1>6, <3>3 DEF a
      <4>2. BucketEnd(t, t[q]) \in Nat /\ acc.at[t[q]] \in Int
        BY <1>7, <1>8, <3>3
      <4> QED BY <4>1, <4>2
    <3> QED BY <3>4, <3>5
  <2> QED BY <2>1, <2>2
<1>13. Down(t, n, new, P \cup {p})
  <2>1. \A q \in P \cup {p} : q \in 1 .. n /\ SType(t, q)
    BY <1>9
  <2> QED BY <1>3, <1>11, <1>12, <2>1 DEF Down
<1>14. DownSorted(t, new, R2)
  BY <1>11 DEF DownSorted
<1> QED BY <1>3, <1>13, <1>14

\* Nothing placed yet.
LEMMA DownStart ==
  ASSUME NEW n, NEW t, TextOf(t, n), NEW sa \in [1 .. n -> 0 .. n], NEW R, NEW acc,
         acc = [sa |-> sa, at |-> [c \in Range(t) |-> BucketEnd(t, c)]]
  PROVE  Down(t, n, acc, {}) /\ DownSorted(t, acc, R) /\ acc.sa = sa
<1>1. \A c \in Range(t) : c \in Nat
  BY SymbolsAre
<1>2. ASSUME NEW c \in Range(t)
      PROVE  /\ BucketEnd(t, c) \in Nat /\ BucketMiddle(t, c) - 1 <= BucketEnd(t, c)
             /\ acc.at[c] = BucketEnd(t, c) /\ acc.at[c] + 1 .. BucketEnd(t, c) = {}
  <2>1. BucketEnd(t, c) \in Nat /\ BucketMiddle(t, c) \in Nat /\ BucketMiddle(t, c) <= BucketEnd(t, c) + 1
    BY <1>1, BucketIs
  <2>2. acc.at[c] = BucketEnd(t, c)
    OBVIOUS
  <2> QED BY <2>1, <2>2
<1>3. acc \in Passes(t, n) /\ acc.sa = sa
  <2>1. [c \in Range(t) |-> BucketEnd(t, c)] \in [Range(t) -> Int]
    BY <1>2
  <2> QED BY <2>1 DEF Passes
<1>4. ASSUME NEW c \in Range(t)
      PROVE  DownAt(t, acc.sa, acc.at[c], c, {}) /\ Ranked(acc.sa, acc.at[c] + 1, BucketEnd(t, c), R)
  <2>1. BucketMiddle(t, c) - 1 <= acc.at[c] /\ acc.at[c] <= BucketEnd(t, c)
    BY <1>2
  <2> QED BY <1>2, <2>1 DEF DownAt, Holds, Ranked
<1> QED BY <1>3, <1>4 DEF Down, DownSorted

\* Nothing is in the L-type parts when the pass from the left starts.
LEMMA UpStart ==
  ASSUME NEW n, NEW t, TextOf(t, n), NEW sa \in [1 .. n -> 0 .. n], NEW R, NEW acc,
         acc = [sa |-> sa, at |-> [c \in Range(t) |-> BucketStart(t, c)]]
  PROVE  Up(t, n, acc, {}) /\ UpSorted(t, acc, R) /\ acc.sa = sa
<1>1. \A c \in Range(t) : c \in Nat
  BY SymbolsAre
<1>2. ASSUME NEW c \in Range(t)
      PROVE  /\ BucketStart(t, c) \in Nat /\ BucketStart(t, c) <= BucketMiddle(t, c)
             /\ acc.at[c] = BucketStart(t, c) /\ BucketStart(t, c) .. acc.at[c] - 1 = {}
  <2>1. BucketStart(t, c) \in Nat /\ BucketStart(t, c) <= BucketMiddle(t, c)
    BY <1>1, BucketIs
  <2>2. acc.at[c] = BucketStart(t, c)
    OBVIOUS
  <2> QED BY <2>1, <2>2
<1>3. acc \in Passes(t, n) /\ acc.sa = sa
  <2>1. [c \in Range(t) |-> BucketStart(t, c)] \in [Range(t) -> Int]
    BY <1>2
  <2> QED BY <2>1 DEF Passes
<1>4. ASSUME NEW c \in Range(t)
      PROVE  UpAt(t, acc.sa, acc.at[c], c, {}) /\ Ranked(acc.sa, BucketStart(t, c), acc.at[c] - 1, R)
  <2>1. BucketStart(t, c) <= acc.at[c] /\ acc.at[c] <= BucketMiddle(t, c)
    BY <1>2
  <2> QED BY <1>2, <2>1 DEF UpAt, Holds, Ranked
<1> QED BY <1>3, <1>4 DEF Up, UpSorted

\* A list of the LMS positions, in some order.
ListsLMS(t, n, order, K) ==
  /\ K \in Nat
  /\ \A b \in 1 .. K : order[b] \in 1 .. n /\ IsLMS(t, order[b])
  /\ \A b, e \in 1 .. K : order[b] = order[e] => b = e
  /\ \A p \in 1 .. n : IsLMS(t, p) => \E b \in 1 .. K : order[b] = p

Earlier(order, K, p, q) == \E b, e \in 1 .. K : b < e /\ order[b] = p /\ order[e] = q

\* Position p has its slot in the part for its type in the bucket of its symbol.
InPart(t, s, p) ==
  IF SType(t, p) THEN BucketMiddle(t, t[p]) <= s /\ s <= BucketEnd(t, t[p])
                 ELSE BucketStart(t, t[p]) <= s /\ s <= BucketMiddle(t, t[p]) - 1

\* The LMS positions are where induced sorting starts from.
Seeded(t, n, order, K, sa) ==
  /\ sa \in [1 .. n -> 0 .. n]
  /\ \A s \in 1 .. n : sa[s] # 0 => IsLMS(t, sa[s]) /\ InPart(t, s, sa[s])
  /\ \A s, u \in 1 .. n : sa[s] # 0 /\ sa[s] = sa[u] => s = u
  /\ \A p \in 1 .. n : IsLMS(t, p) => \E s \in 1 .. n : sa[s] = p
  /\ \A s, u \in 1 .. n : s < u /\ sa[s] # 0 /\ sa[u] # 0 /\ t[sa[s]] = t[sa[u]]
                            => Earlier(order, K, sa[s], sa[u])

\* After the last z of the list.
LastOf(order, K, z) == {order[b] : b \in K + 1 - z .. K}
EarlierPairs(order, K) == {<<order[z[1]], order[z[2]]>> : z \in {y \in (1 .. K) \X (1 .. K) : y[1] < y[2]}}
Placing(t, n, order, K, acc, z) ==
  /\ Down(t, n, acc, LastOf(order, K, z))
  /\ DownSorted(t, acc, EarlierPairs(order, K))
  /\ \A s \in 1 .. n : acc.sa[s] = 0 \/ (/\ acc.sa[s] \in LastOf(order, K, z)
                                         /\ acc.at[t[acc.sa[s]]] + 1 <= s
                                         /\ s <= BucketEnd(t, t[acc.sa[s]]))

\* The pairs of a list are what is earlier in it.
LEMMA EarlierIs ==
  ASSUME NEW K \in Nat, NEW order, NEW p, NEW q
  PROVE  <<p, q>> \in EarlierPairs(order, K) <=> Earlier(order, K, p, q)
<1>1. ASSUME <<p, q>> \in EarlierPairs(order, K) PROVE Earlier(order, K, p, q)
  <2>1. PICK z \in (1 .. K) \X (1 .. K) : z[1] < z[2] /\ <<p, q>> = <<order[z[1]], order[z[2]]>>
    BY <1>1 DEF EarlierPairs
  <2>2. p = order[z[1]] /\ q = order[z[2]] /\ z[1] \in 1 .. K /\ z[2] \in 1 .. K
    BY <2>1
  <2> QED BY <2>1, <2>2 DEF Earlier
<1>2. ASSUME Earlier(order, K, p, q) PROVE <<p, q>> \in EarlierPairs(order, K)
  <2>1. PICK b, e \in 1 .. K : b < e /\ order[b] = p /\ order[e] = q
    BY <1>2 DEF Earlier
  <2>2. <<b, e>> \in {y \in (1 .. K) \X (1 .. K) : y[1] < y[2]}
    BY <2>1
  <2>3. <<b, e>>[1] = b /\ <<b, e>>[2] = e
    OBVIOUS
  <2> QED BY <2>1, <2>2, <2>3 DEF EarlierPairs
<1> QED BY <1>1, <1>2

\* Nothing is placed when the buckets point to their ends.
LEMMA PlacingStart ==
  ASSUME NEW n, NEW t, TextOf(t, n), NEW order, NEW K, ListsLMS(t, n, order, K), NEW acc,
         acc = [sa |-> [s \in 1 .. n |-> 0], at |-> [c \in Range(t) |-> BucketEnd(t, c)]]
  PROVE  Placing(t, n, order, K, acc, 0)
<1>1. n \in Nat /\ K \in Nat
  BY DEF TextOf, ListsLMS
<1>2. [s \in 1 .. n |-> 0] \in [1 .. n -> 0 .. n]
  BY <1>1
<1>3. /\ Down(t, n, acc, {}) /\ DownSorted(t, acc, EarlierPairs(order, K))
      /\ acc.sa = [s \in 1 .. n |-> 0]
  BY <1>2, DownStart
<1>4. LastOf(order, K, 0) = {}
  BY <1>1 DEF LastOf
<1> QED BY <1>3, <1>4 DEF Placing

\* One more LMS position, from the end of the list, is placed.
LEMMA PlacingStep ==
  ASSUME NEW n, NEW t, TextOf(t, n), NEW order, NEW K, ListsLMS(t, n, order, K), NEW acc, NEW new,
         NEW z \in 1 .. K, Placing(t, n, order, K, acc, z - 1),
         new = Put(t, acc, order[K + 1 - z], -1)
  PROVE  Placing(t, n, order, K, new, z)
<1>1. n \in Nat /\ K \in Nat /\ K + 1 - z \in 1 .. K
  BY DEF TextOf, ListsLMS
<1> DEFINE p == order[K + 1 - z]
           P == LastOf(order, K, z - 1)
           R == EarlierPairs(order, K)
<1>2. p \in 1 .. n /\ SType(t, p)
  BY <1>1 DEF ListsLMS, IsLMS
<1>3. p \notin P
  <2> SUFFICES ASSUME p \in P PROVE FALSE
    OBVIOUS
  <2>1. PICK b \in K + 1 - (z - 1) .. K : order[b] = p
    BY DEF LastOf
  <2>2. b \in 1 .. K /\ b # K + 1 - z
    BY <1>1
  <2> QED BY <1>1, <2>1, <2>2 DEF ListsLMS
<1>4. \A q \in P : <<p, q>> \in R
  <2> SUFFICES ASSUME NEW q \in P PROVE <<p, q>> \in R
    OBVIOUS
  <2>1. PICK b \in K + 1 - (z - 1) .. K : order[b] = q
    BY DEF LastOf
  <2>2. b \in 1 .. K /\ K + 1 - z < b
    BY <1>1
  <2>3. Earlier(order, K, p, q)
    BY <1>1, <2>1, <2>2 DEF Earlier
  <2> QED BY <1>1, <2>3, EarlierIs
<1>5. LastOf(order, K, z) = P \cup {p}
  <2>1. K + 1 - z .. K = (K + 1 - (z - 1) .. K) \cup {K + 1 - z}
    BY <1>1
  <2> QED BY <2>1 DEF LastOf
<1>6. Down(t, n, acc, P) /\ DownSorted(t, acc, R)
  BY DEF Placing
<1>7. \A s \in 1 .. n : acc.sa[s] = 0 \/ (/\ acc.sa[s] \in P
                                         /\ acc.at[t[acc.sa[s]]] + 1 <= s
                                         /\ s <= BucketEnd(t, t[acc.sa[s]]))
  BY DEF Placing
<1>8. t[p] \in Range(t) /\ t[p] \in Nat /\ \A c \in Range(t) : acc.at[c] \in Int
  <2>1. t[p] \in Range(t) /\ t[p] \in Nat
    BY <1>2, SymbolsAre
  <2> QED BY <1>6, <2>1 DEF Down, Passes
<1>9. acc.at[t[p]] \in BucketMiddle(t, t[p]) .. BucketEnd(t, t[p]) /\ acc.at[t[p]] \in 1 .. n
  BY <1>2, <1>3, <1>6, DownRoom
<1>10. \A q \in P : q \in 1 .. n /\ t[q] \in Range(t)
  <2>1. \A q \in P : q \in 1 .. n
    BY <1>6 DEF Down
  <2> QED BY <2>1, SymbolsAre
<1> HIDE DEF p, P, R
<1>11. new = Put(t, acc, p, -1)
  BY DEF p
<1>12. R \subseteq R
  OBVIOUS
<1>13. Down(t, n, new, P \cup {p}) /\ DownSorted(t, new, R) /\ PutAt(t, n, acc, new, p, -1)
  BY <1>2, <1>3, <1>4, <1>6, <1>11, <1>12, DownPut
<1>14. ASSUME NEW s \in 1 .. n
       PROVE  new.sa[s] = 0 \/ (/\ new.sa[s] \in P \cup {p}
                                /\ new.at[t[new.sa[s]]] + 1 <= s
                                /\ s <= BucketEnd(t, t[new.sa[s]]))
  <2>1. CASE s = acc.at[t[p]]
    <3>1. new.sa[s] = p /\ new.at[t[p]] = acc.at[t[p]] + (-1)
      BY <1>8, <1>13, <2>1 DEF PutAt
    <3>2. new.at[t[p]] + 1 <= s /\ s <= BucketEnd(t, t[p])
      BY <1>8, <1>9, <2>1, <3>1
    <3> QED BY <3>1, <3>2
  <2>2. CASE s # acc.at[t[p]]
    <3>1. new.sa[s] = acc.sa[s]
      BY <1>13, <2>2 DEF PutAt
    <3>2. CASE acc.sa[s] = 0
      BY <3>1, <3>2
    <3>3. CASE acc.sa[s] # 0
      <4>1. acc.sa[s] \in P /\ acc.at[t[acc.sa[s]]] + 1 <= s /\ s <= BucketEnd(t, t[acc.sa[s]])
        BY <1>7, <3>3
      <4>2. t[acc.sa[s]] \in Range(t)
        BY <1>10, <4>1
      <4>3. new.at[t[acc.sa[s]]] = acc.at[t[acc.sa[s]]] \/ new.at[t[acc.sa[s]]] = acc.at[t[acc.sa[s]]] + (-1)
        BY <1>13, <4>2 DEF PutAt
      <4>4. acc.at[t[acc.sa[s]]] \in Int
        BY <1>8, <4>2
      <4>5. new.at[t[acc.sa[s]]] + 1 <= s
        BY <4>1, <4>3, <4>4
      <4> QED BY <3>1, <4>1, <4>5
    <3> QED BY <3>2, <3>3
  <2> QED BY <2>1, <2>2
<1> QED BY <1>5, <1>13, <1>14 DEF Placing, R

\* When the list is placed the array holds the LMS positions and nothing else.
LEMMA PlacingEnd ==
  ASSUME NEW n, NEW t, TextOf(t, n), NEW order, NEW K, ListsLMS(t, n, order, K), NEW acc,
         Placing(t, n, order, K, acc, K)
  PROVE  Seeded(t, n, order, K, acc.sa)
<1> DEFINE P == LastOf(order, K, K)
<1>1. n \in Nat /\ K \in Nat
  BY DEF TextOf, ListsLMS
<1>2. \A p \in 1 .. n : IsLMS(t, p) => p \in P
  <2> SUFFICES ASSUME NEW p \in 1 .. n, IsLMS(t, p) PROVE p \in P
    OBVIOUS
  <2>1. PICK b \in 1 .. K : order[b] = p
    BY DEF ListsLMS
  <2>2. b \in K + 1 - K .. K
    BY <1>1
  <2> QED BY <2>1, <2>2 DEF LastOf
<1>3. \A p \in P : p \in 1 .. n /\ IsLMS(t, p) /\ SType(t, p)
  <2> SUFFICES ASSUME NEW p \in P PROVE p \in 1 .. n /\ IsLMS(t, p) /\ SType(t, p)
    OBVIOUS
  <2>1. PICK b \in K + 1 - K .. K : order[b] = p
    BY DEF LastOf
  <2>2. b \in 1 .. K
    BY <1>1
  <2> QED BY <2>1, <2>2 DEF ListsLMS, IsLMS
<1>4. Down(t, n, acc, P) /\ DownSorted(t, acc, EarlierPairs(order, K))
  BY DEF Placing
<1>5. \A s \in 1 .. n : acc.sa[s] = 0 \/ (/\ acc.sa[s] \in P
                                         /\ acc.at[t[acc.sa[s]]] + 1 <= s
                                         /\ s <= BucketEnd(t, t[acc.sa[s]]))
  BY DEF Placing
<1> HIDE DEF P
<1>6. acc.sa \in [1 .. n -> 0 .. n] /\ \A c \in Range(t) : acc.at[c] \in Int
  BY <1>4 DEF Down, Passes
<1>7. ASSUME NEW s \in 1 .. n, acc.sa[s] # 0
      PROVE  /\ acc.sa[s] \in P /\ acc.sa[s] \in 1 .. n /\ IsLMS(t, acc.sa[s]) /\ SType(t, acc.sa[s])
             /\ t[acc.sa[s]] \in Range(t) /\ t[acc.sa[s]] \in Nat
             /\ s \in acc.at[t[acc.sa[s]]] + 1 .. BucketEnd(t, t[acc.sa[s]])
             /\ InPart(t, s, acc.sa[s])
  <2> DEFINE p == acc.sa[s]
  <2>1. p \in P /\ acc.at[t[p]] + 1 <= s /\ s <= BucketEnd(t, t[p])
    BY <1>5, <1>7
  <2>2. p \in 1 .. n /\ IsLMS(t, p) /\ SType(t, p)
    BY <1>3, <2>1
  <2>3. t[p] \in Range(t) /\ t[p] \in Nat
    BY <2>2, SymbolsAre
  <2>4. BucketEnd(t, t[p]) \in Nat /\ BucketMiddle(t, t[p]) \in Nat
    BY <2>3, BucketIs
  <2>5. DownAt(t, acc.sa, acc.at[t[p]], t[p], P)
    BY <1>4, <2>3 DEF Down
  <2>6. BucketMiddle(t, t[p]) - 1 <= acc.at[t[p]] /\ acc.at[t[p]] \in Int
    BY <1>6, <2>3, <2>5 DEF DownAt
  <2>7. BucketMiddle(t, t[p]) <= s
    BY <2>1, <2>4, <2>6
  <2>8. s \in acc.at[t[p]] + 1 .. BucketEnd(t, t[p])
    BY <2>1, <2>4, <2>6
  <2> QED BY <2>1, <2>2, <2>3, <2>7, <2>8 DEF InPart
<1>8. ASSUME NEW s \in 1 .. n, NEW u \in 1 .. n, acc.sa[s] # 0, acc.sa[s] = acc.sa[u] PROVE s = u
  <2>1. s \in acc.at[t[acc.sa[s]]] + 1 .. BucketEnd(t, t[acc.sa[s]]) /\ t[acc.sa[s]] \in Range(t)
    BY <1>7, <1>8
  <2>2. u \in acc.at[t[acc.sa[s]]] + 1 .. BucketEnd(t, t[acc.sa[s]])
    BY <1>7, <1>8
  <2>3. DownAt(t, acc.sa, acc.at[t[acc.sa[s]]], t[acc.sa[s]], P)
    BY <1>4, <2>1 DEF Down
  <2> QED BY <1>8, <2>1, <2>2, <2>3 DEF DownAt, Holds
<1>9. ASSUME NEW p \in 1 .. n, IsLMS(t, p) PROVE \E s \in 1 .. n : acc.sa[s] = p
  <2>1. p \in P
    BY <1>2, <1>9
  <2>2. PICK s \in acc.at[t[p]] + 1 .. BucketEnd(t, t[p]) : acc.sa[s] = p
    BY <1>4, <2>1 DEF Down
  <2>3. t[p] \in Range(t) /\ t[p] \in Nat
    BY SymbolsAre
  <2>4. BucketEnd(t, t[p]) \in Nat /\ BucketMiddle(t, t[p]) \in Nat /\ BucketEnd(t, t[p]) <= n
    BY <2>3, BucketIs
  <2>5. BucketStart(t, t[p]) \in Nat /\ 1 <= BucketStart(t, t[p]) /\ BucketStart(t, t[p]) <= BucketMiddle(t, t[p])
    BY <2>3, BucketIs
  <2>6. DownAt(t, acc.sa, acc.at[t[p]], t[p], P)
    BY <1>4, <2>3 DEF Down
  <2>7. BucketMiddle(t, t[p]) - 1 <= acc.at[t[p]] /\ acc.at[t[p]] \in Int
    BY <1>6, <2>3, <2>6 DEF DownAt
  <2>8. s \in 1 .. n
    BY <1>1, <2>4, <2>5, <2>7
  <2> QED BY <2>2, <2>8
<1>10. ASSUME NEW s \in 1 .. n, NEW u \in 1 .. n, s < u, acc.sa[s] # 0, acc.sa[u] # 0,
              t[acc.sa[s]] = t[acc.sa[u]]
       PROVE  Earlier(order, K, acc.sa[s], acc.sa[u])
  <2>1. s \in acc.at[t[acc.sa[s]]] + 1 .. BucketEnd(t, t[acc.sa[s]]) /\ t[acc.sa[s]] \in Range(t)
    BY <1>7, <1>10
  <2>2. u \in acc.at[t[acc.sa[s]]] + 1 .. BucketEnd(t, t[acc.sa[s]])
    BY <1>7, <1>10
  <2>3. <<acc.sa[s], acc.sa[u]>> \in EarlierPairs(order, K)
    BY <1>4, <1>10, <2>1, <2>2 DEF DownSorted, Ranked
  <2> QED BY <1>1, <2>3, EarlierIs
<1> QED BY <1>6, <1>7, <1>8, <1>9, <1>10 DEF Seeded

\* The positions whose successors are in the slots from a to b, and pairs of them in the
\* order of these slots.
LBehind(t, n, sa, b) == {p \in 1 .. n : ~ SType(t, p) /\ \E s \in 1 .. b : sa[s] = p + 1}
SBehind(t, n, sa, a) == {p \in 1 .. n : SType(t, p) /\ \E s \in a .. n : sa[s] = p + 1}
PairsBehind(n, sa, a, b) ==
  {z \in (1 .. n) \X (1 .. n) : \E u, v \in a .. b : u < v /\ sa[u] = z[1] + 1 /\ sa[v] = z[2] + 1}

\* The pass from the left has scanned b slots.
FromLeft(t, n, order, K, sa0, acc, b) ==
  /\ Seeded(t, n, order, K, sa0)
  /\ Up(t, n, acc, LBehind(t, n, acc.sa, b))
  /\ UpSorted(t, acc, PairsBehind(n, acc.sa, 1, b))
  /\ \A s \in 1 .. n : acc.sa[s] = sa0[s] \/ (/\ acc.sa[s] \in LBehind(t, n, acc.sa, b)
                                              /\ BucketStart(t, t[acc.sa[s]]) <= s
                                              /\ s <= acc.at[t[acc.sa[s]]] - 1)

\* Where what is in a slot belongs, and only there.
LEMMA LeftSlots ==
  ASSUME NEW n, NEW t, TextOf(t, n), NEW order, NEW K, NEW sa0, NEW acc, NEW b,
         FromLeft(t, n, order, K, sa0, acc, b)
  PROVE  /\ \A s \in 1 .. n : acc.sa[s] \in 0 .. n
         /\ \A s \in 1 .. n : acc.sa[s] # 0 =>
              /\ acc.sa[s] \in 1 .. n /\ InPart(t, s, acc.sa[s]) /\ InBucket(t, s, t[acc.sa[s]])
              /\ ~ SType(t, acc.sa[s]) => s \in BucketStart(t, t[acc.sa[s]]) .. acc.at[t[acc.sa[s]]] - 1
              /\ SType(t, acc.sa[s]) => acc.sa[s] = sa0[s]
         /\ \A s, u \in 1 .. n : acc.sa[s] # 0 /\ acc.sa[s] = acc.sa[u] => s = u
<1> DEFINE P == LBehind(t, n, acc.sa, b)
<1>1. n \in Nat /\ \A p \in 1 .. n : t[p] \in Nat /\ t[p] \in Range(t)
  BY SymbolsAre DEF TextOf
<1>2. Up(t, n, acc, P) /\ Seeded(t, n, order, K, sa0)
  BY DEF FromLeft
<1>3. acc.sa \in [1 .. n -> 0 .. n] /\ \A c \in Range(t) : acc.at[c] \in Int
  BY <1>2 DEF Up, Passes
<1>4. \A s \in 1 .. n : acc.sa[s] = sa0[s] \/ (/\ acc.sa[s] \in P
                                              /\ BucketStart(t, t[acc.sa[s]]) <= s
                                              /\ s <= acc.at[t[acc.sa[s]]] - 1)
  BY DEF FromLeft
<1>5. \A p \in P : p \in 1 .. n /\ ~ SType(t, p)
  BY DEF LBehind
<1>6. \A s \in 1 .. n : sa0[s] # 0 => SType(t, sa0[s]) /\ InPart(t, s, sa0[s])
  BY <1>2 DEF Seeded, IsLMS
<1> HIDE DEF P
<1>7. ASSUME NEW s \in 1 .. n, acc.sa[s] # 0
      PROVE  /\ acc.sa[s] \in 1 .. n /\ InPart(t, s, acc.sa[s]) /\ InBucket(t, s, t[acc.sa[s]])
             /\ ~ SType(t, acc.sa[s]) => s \in BucketStart(t, t[acc.sa[s]]) .. acc.at[t[acc.sa[s]]] - 1
             /\ SType(t, acc.sa[s]) => acc.sa[s] = sa0[s]
  <2>1. PICK v \in 1 .. n : v = acc.sa[s]
    <3>1. acc.sa[s] \in 0 .. n
      BY <1>3
    <3> QED BY <1>1, <1>7, <3>1
  <2>2. t[v] \in Nat /\ t[v] \in Range(t) /\ acc.at[t[v]] \in Int
    BY <1>1, <1>3
  <2>3. /\ BucketStart(t, t[v]) \in Nat /\ BucketMiddle(t, t[v]) \in Nat /\ BucketEnd(t, t[v]) \in Nat
        /\ BucketStart(t, t[v]) <= BucketMiddle(t, t[v]) /\ BucketMiddle(t, t[v]) <= BucketEnd(t, t[v]) + 1
    BY <2>2, BucketIs
  <2>4. s \in Nat
    BY <1>1
  <2>5. CASE v = sa0[s]
    <3>1. SType(t, v) /\ InPart(t, s, v)
      BY <1>6, <2>5
    <3>2. InBucket(t, s, t[v])
      <4>1. BucketMiddle(t, t[v]) <= s /\ s <= BucketEnd(t, t[v])
        BY <3>1 DEF InPart
      <4> QED BY <2>3, <2>4, <4>1 DEF InBucket
    <3> QED BY <2>1, <2>5, <3>1, <3>2
  <2>6. CASE v # sa0[s]
    <3>1. v \in P /\ BucketStart(t, t[v]) <= s /\ s <= acc.at[t[v]] - 1
      BY <1>4, <2>1, <2>6
    <3>2. ~ SType(t, v)
      BY <1>5, <3>1
    <3>3. UpAt(t, acc.sa, acc.at[t[v]], t[v], P)
      BY <1>2, <2>2 DEF Up
    <3>4. acc.at[t[v]] <= BucketMiddle(t, t[v])
      BY <3>3 DEF UpAt
    <3>5. s <= BucketMiddle(t, t[v]) - 1 /\ s <= BucketEnd(t, t[v])
      BY <2>2, <2>3, <2>4, <3>1, <3>4
    <3>6. s \in BucketStart(t, t[v]) .. acc.at[t[v]] - 1
      BY <2>2, <2>3, <2>4, <3>1
    <3> QED BY <2>1, <3>1, <3>2, <3>5, <3>6 DEF InPart, InBucket
  <2> QED BY <2>5, <2>6
<1>8. ASSUME NEW s \in 1 .. n, NEW u \in 1 .. n, acc.sa[s] # 0, acc.sa[s] = acc.sa[u] PROVE s = u
  <2>1. CASE SType(t, acc.sa[s])
    <3>1. acc.sa[s] = sa0[s] /\ acc.sa[u] = sa0[u]
      BY <1>7, <1>8, <2>1
    <3> QED BY <1>2, <1>8, <3>1 DEF Seeded
  <2>2. CASE ~ SType(t, acc.sa[s])
    <3>1. s \in BucketStart(t, t[acc.sa[s]]) .. acc.at[t[acc.sa[s]]] - 1
      BY <1>7, <1>8, <2>2
    <3>2. u \in BucketStart(t, t[acc.sa[s]]) .. acc.at[t[acc.sa[s]]] - 1
      BY <1>7, <1>8, <2>2
    <3>3. t[acc.sa[s]] \in Range(t)
      BY <1>1, <1>7, <1>8
    <3>4. UpAt(t, acc.sa, acc.at[t[acc.sa[s]]], t[acc.sa[s]], P)
      BY <1>2, <3>3 DEF Up
    <3> QED BY <1>8, <3>1, <3>2, <3>4 DEF UpAt, Holds
  <2> QED BY <2>1, <2>2
<1> QED BY <1>3, <1>7, <1>8

\* Before the pass from the left no slot is scanned.
LEMMA LeftStart ==
  ASSUME NEW n, NEW t, TextOf(t, n), NEW order, NEW K, NEW sa0, Seeded(t, n, order, K, sa0), NEW acc,
         acc = [sa |-> sa0, at |-> [c \in Range(t) |-> BucketStart(t, c)]]
  PROVE  FromLeft(t, n, order, K, sa0, acc, 0)
<1>1. sa0 \in [1 .. n -> 0 .. n]
  BY DEF Seeded
<1>2. Up(t, n, acc, {}) /\ UpSorted(t, acc, PairsBehind(n, acc.sa, 1, 0)) /\ acc.sa = sa0
  BY <1>1, UpStart
<1>3. LBehind(t, n, acc.sa, 0) = {}
  BY DEF LBehind
<1> QED BY <1>2, <1>3 DEF FromLeft

\* Scanning one more slot places the L-type position before it.
LEMMA LeftStep ==
  ASSUME NEW n, NEW t, TextOf(t, n), NEW order, NEW K, NEW sa0, NEW acc, NEW new,
         NEW b \in 1 .. n, FromLeft(t, n, order, K, sa0, acc, b - 1),
         new = InduceL(t, acc, b)
  PROVE  FromLeft(t, n, order, K, sa0, new, b)
<1> DEFINE v == acc.sa[b]
           p == v - 1
           P == LBehind(t, n, acc.sa, b - 1)
           R == PairsBehind(n, acc.sa, 1, b - 1)
<1>1. n \in Nat /\ \A q \in 1 .. n : t[q] \in Nat /\ t[q] \in Range(t)
  BY SymbolsAre DEF TextOf
<1>2. b \in Nat /\ b - 1 \in Nat /\ \A s \in 1 .. b - 1 : s \in 1 .. n /\ s # b /\ s < b /\ s \in 1 .. b
  BY <1>1
<1>3. Seeded(t, n, order, K, sa0) /\ Up(t, n, acc, P) /\ UpSorted(t, acc, R)
  BY DEF FromLeft
<1>4. \A s \in 1 .. n : acc.sa[s] = sa0[s] \/ (/\ acc.sa[s] \in P
                                              /\ BucketStart(t, t[acc.sa[s]]) <= s
                                              /\ s <= acc.at[t[acc.sa[s]]] - 1)
  BY DEF FromLeft
<1>5. v \in 0 .. n /\ \A s \in 1 .. n : acc.sa[s] \in 0 .. n
  BY LeftSlots
<1>6. \A s \in 1 .. n : acc.sa[s] # 0 /\ acc.sa[s] = v => s = b
  BY LeftSlots
<1>7. PairsBehind(n, acc.sa, 1, b - 1) \subseteq PairsBehind(n, acc.sa, 1, b)
  BY <1>2 DEF PairsBehind
<1>8. CASE ~ (p >= 1 /\ ~ SType(t, p))
  <2>1. new = acc
    BY <1>8 DEF InduceL
  <2>2. LBehind(t, n, acc.sa, b) = P
    <3>1. ASSUME NEW q \in LBehind(t, n, acc.sa, b) PROVE q \in P
      <4>1. PICK s \in 1 .. b : acc.sa[s] = q + 1
        BY DEF LBehind
      <4>2. q \in 1 .. n /\ ~ SType(t, q)
        BY DEF LBehind
      <4>3. s # b
        BY <1>5, <1>8, <4>1, <4>2
      <4>4. s \in 1 .. b - 1
        BY <1>2, <4>3
      <4> QED BY <4>1, <4>2, <4>4 DEF LBehind
    <3>2. P \subseteq LBehind(t, n, acc.sa, b)
      BY <1>2 DEF LBehind
    <3> QED BY <3>1, <3>2
  <2>3. UpSorted(t, acc, PairsBehind(n, acc.sa, 1, b))
    BY <1>3, <1>7 DEF UpSorted, Ranked
  <2> HIDE DEF P
  <2> QED BY <1>3, <1>4, <2>1, <2>2, <2>3 DEF FromLeft
<1>9. CASE p >= 1 /\ ~ SType(t, p)
  <2>1. new = Put(t, acc, p, 1)
    BY <1>9 DEF InduceL
  <2>2. p \in 1 .. n - 1 /\ p \in 1 .. n /\ v \in 1 .. n /\ v = p + 1 /\ v # 0
    BY <1>1, <1>5, <1>9
  <2>3. p \notin P
    <3> SUFFICES ASSUME p \in P PROVE FALSE
      OBVIOUS
    <3>1. PICK s \in 1 .. b - 1 : acc.sa[s] = p + 1
      BY DEF LBehind
    <3> QED BY <1>2, <1>6, <2>2, <3>1
  <2> DEFINE a == acc.at[t[p]]
  <2>4. a \in BucketStart(t, t[p]) .. BucketMiddle(t, t[p]) - 1 /\ a \in 1 .. n
    BY <1>3, <1>9, <2>2, <2>3, UpRoom
  <2>5. b < a
    <3>1. /\ InBucket(t, b, t[v])
          /\ ~ SType(t, v) => b \in BucketStart(t, t[v]) .. acc.at[t[v]] - 1
      BY <2>2, LeftSlots
    <3>2. /\ t[p] < t[v] => SType(t, p)
          /\ t[p] = t[v] => (SType(t, p) <=> SType(t, v))
      BY <2>2, TypeStep
    <3>3. t[p] \in Nat /\ t[v] \in Nat
      BY <1>1, <2>2
    <3>4. CASE t[p] = t[v]
      <4>1. b \in BucketStart(t, t[v]) .. a - 1
        BY <1>9, <3>1, <3>2, <3>4
      <4>2. a \in Int
        BY <2>4
      <4> HIDE DEF a
      <4> QED BY <4>1, <4>2
    <3>5. CASE t[v] < t[p]
      <4>1. BucketEnd(t, t[v]) < BucketStart(t, t[p])
        BY <3>3, <3>5, BucketOrder
      <4>2. BucketEnd(t, t[v]) \in Nat /\ BucketStart(t, t[p]) \in Nat
        BY <3>3, BucketIs
      <4>3. b <= BucketEnd(t, t[v]) /\ BucketStart(t, t[p]) <= a /\ a \in Int
        BY <2>4, <3>1 DEF InBucket
      <4> HIDE DEF a
      <4> QED BY <1>2, <4>1, <4>2, <4>3
    <3> QED BY <1>9, <3>2, <3>3, <3>4, <3>5
  <2> HIDE DEF v, P, R
  <2>6. \A s \in 1 .. n : new.sa[s] = IF s = a THEN p ELSE acc.sa[s]
    <3>1. acc \in Passes(t, n)
      BY <1>3 DEF Up
    <3>2. p \in 1 .. n /\ 1 \in Int
      BY <2>2
    <3> HIDE DEF p
    <3>3. \A s \in 1 .. n : Put(t, acc, p, 1).sa[s] = IF s = acc.at[t[p]] THEN p ELSE acc.sa[s]
      BY <3>1, <3>2, PutIs
    <3> QED BY <2>1, <3>3
  <2> HIDE DEF a
  <2>7. \A s \in 1 .. b : s \in 1 .. n /\ new.sa[s] = acc.sa[s]
    <3> SUFFICES ASSUME NEW s \in 1 .. b PROVE s \in 1 .. n /\ new.sa[s] = acc.sa[s]
      OBVIOUS
    <3>1. s \in 1 .. n
      BY <1>1, <1>2
    <3>2. s # a
      BY <2>4, <2>5
    <3> QED BY <2>6, <3>1, <3>2
  <2> DEFINE P2 == LBehind(t, n, new.sa, b)
             R2 == PairsBehind(n, new.sa, 1, b)
  <2>8. P2 = P \cup {p}
    <3>1. ASSUME NEW q \in P2 PROVE q \in P \cup {p}
      <4>1. PICK s \in 1 .. b : new.sa[s] = q + 1
        BY DEF LBehind
      <4>2. q \in 1 .. n /\ ~ SType(t, q)
        BY DEF LBehind
      <4>3. acc.sa[s] = q + 1
        BY <2>7, <4>1
      <4>4. CASE s = b
        <5>1. v = q + 1
          BY <4>3, <4>4 DEF v
        <5>2. q = p
          BY <4>2, <5>1
        <5> QED BY <5>2
      <4>5. CASE s # b
        <5>1. s \in 1 .. b - 1
          BY <1>2, <4>5
        <5> QED BY <4>2, <4>3, <5>1 DEF P, LBehind
      <4> QED BY <4>4, <4>5
    <3>2. ASSUME NEW q \in P PROVE q \in P2
      <4>1. PICK s \in 1 .. b - 1 : acc.sa[s] = q + 1
        BY DEF P, LBehind
      <4>2. q \in 1 .. n /\ ~ SType(t, q)
        BY DEF P, LBehind
      <4>3. s \in 1 .. b /\ new.sa[s] = q + 1
        BY <1>2, <2>7, <4>1
      <4> QED BY <4>2, <4>3 DEF LBehind
    <3>3. p \in P2
      <4>1. b \in 1 .. b /\ new.sa[b] = p + 1
        BY <1>2, <2>2, <2>7 DEF v
      <4> QED BY <1>9, <2>2, <4>1 DEF LBehind
    <3> QED BY <3>1, <3>2, <3>3
  <2>9. R \subseteq R2
    <3> SUFFICES ASSUME NEW z \in R PROVE z \in R2
      OBVIOUS
    <3>1. z \in (1 .. n) \X (1 .. n)
      BY DEF R, PairsBehind
    <3>2. PICK u \in 1 .. b - 1, w \in 1 .. b - 1 : u < w /\ acc.sa[u] = z[1] + 1 /\ acc.sa[w] = z[2] + 1
      BY DEF R, PairsBehind
    <3>3. u \in 1 .. b /\ w \in 1 .. b /\ new.sa[u] = z[1] + 1 /\ new.sa[w] = z[2] + 1
      BY <1>2, <2>7, <3>2
    <3> QED BY <3>1, <3>2, <3>3 DEF PairsBehind
  <2>10. ASSUME NEW q \in P PROVE <<q, p>> \in R2
    <3>1. PICK s \in 1 .. b - 1 : acc.sa[s] = q + 1
      BY DEF P, LBehind
    <3>2. q \in 1 .. n
      BY DEF P, LBehind
    <3>3. s \in 1 .. b /\ b \in 1 .. b /\ s < b /\ new.sa[s] = q + 1 /\ new.sa[b] = p + 1
      BY <1>2, <2>2, <2>7, <3>1 DEF v
    <3>4. <<q, p>> \in (1 .. n) \X (1 .. n) /\ <<q, p>>[1] = q /\ <<q, p>>[2] = p
      BY <2>2, <3>2
    <3> QED BY <3>3, <3>4 DEF PairsBehind
  <2> HIDE DEF P2, R2, p
  <2>11. Up(t, n, new, P \cup {p}) /\ UpSorted(t, new, R2) /\ PutAt(t, n, acc, new, p, 1)
    BY <1>3, <1>9, <2>1, <2>2, <2>3, <2>9, <2>10, UpPut
  <2>12. ASSUME NEW s \in 1 .. n
         PROVE  new.sa[s] = sa0[s] \/ (/\ new.sa[s] \in P \cup {p}
                                       /\ BucketStart(t, t[new.sa[s]]) <= s
                                       /\ s <= new.at[t[new.sa[s]]] - 1)
    <3>0. \A c \in Range(t) : acc.at[c] \in Int
      BY <1>3 DEF Up, Passes
    <3>1. CASE s = a
      <4>1. new.sa[s] = p /\ new.at[t[p]] = acc.at[t[p]] + 1 /\ acc.at[t[p]] \in Int
        BY <1>1, <2>2, <2>11, <3>0, <3>1 DEF PutAt, a
      <4>2. new.at[t[p]] - 1 = s
        BY <3>1, <4>1 DEF a
      <4>3. BucketStart(t, t[p]) <= s /\ s \in Int
        BY <2>4, <3>1
      <4> QED BY <4>1, <4>2, <4>3
    <3>2. CASE s # a
      <4>1. new.sa[s] = acc.sa[s]
        BY <2>6, <3>2
      <4>2. CASE acc.sa[s] = sa0[s]
        BY <4>1, <4>2
      <4>3. CASE acc.sa[s] # sa0[s]
        <5>1. acc.sa[s] \in P /\ BucketStart(t, t[acc.sa[s]]) <= s /\ s <= acc.at[t[acc.sa[s]]] - 1
          BY <1>4, <4>3
        <5>2. t[acc.sa[s]] \in Range(t)
          BY <1>1, <5>1 DEF P, LBehind
        <5>3. new.at[t[acc.sa[s]]] = acc.at[t[acc.sa[s]]] \/ new.at[t[acc.sa[s]]] = acc.at[t[acc.sa[s]]] + 1
          BY <2>11, <5>2 DEF PutAt
        <5>4. acc.at[t[acc.sa[s]]] \in Int /\ s \in Int
          BY <3>0, <5>2
        <5>5. s <= new.at[t[acc.sa[s]]] - 1
          BY <5>1, <5>3, <5>4
        <5> QED BY <4>1, <5>1, <5>5
      <4> QED BY <4>2, <4>3
    <3> QED BY <3>1, <3>2
  <2> QED BY <1>3, <2>8, <2>11, <2>12 DEF FromLeft, P2, R2
<1> QED BY <1>8, <1>9

\* Slots are in the order of the symbols, and of the types for the same symbol.
LEMMA PartIs ==
  ASSUME NEW n, NEW t, TextOf(t, n), NEW p \in 1 .. n, NEW s \in Int, InPart(t, s, p)
  PROVE  InBucket(t, s, t[p])
<1>1. t[p] \in Nat
  BY SymbolsAre
<1>2. /\ BucketStart(t, t[p]) \in Nat /\ BucketMiddle(t, t[p]) \in Nat /\ BucketEnd(t, t[p]) \in Nat
      /\ BucketStart(t, t[p]) <= BucketMiddle(t, t[p]) /\ BucketMiddle(t, t[p]) <= BucketEnd(t, t[p]) + 1
  BY <1>1, BucketIs
<1>3. CASE SType(t, p)
  BY <1>2, <1>3 DEF InPart, InBucket
<1>4. CASE ~ SType(t, p)
  BY <1>2, <1>4 DEF InPart, InBucket
<1> QED BY <1>3, <1>4

\* Slots are in the order of the symbols, then of the types.
LEMMA PartOrder ==
  ASSUME NEW n, NEW t, TextOf(t, n), NEW p \in 1 .. n, NEW q \in 1 .. n,
         NEW s \in Int, NEW u \in Int, s <= u, InPart(t, s, p), InPart(t, u, q)
  PROVE  \/ t[p] < t[q]
         \/ t[p] = t[q] /\ (SType(t, p) => SType(t, q))
<1>1. t[p] \in Nat /\ t[q] \in Nat
  BY SymbolsAre
<1>2. InBucket(t, s, t[p]) /\ InBucket(t, u, t[q])
  BY PartIs
<1>3. CASE t[q] < t[p]
  <2>1. BucketEnd(t, t[q]) < BucketStart(t, t[p])
    BY <1>1, <1>3, BucketOrder
  <2>2. BucketEnd(t, t[q]) \in Nat /\ BucketStart(t, t[p]) \in Nat
    BY <1>1, BucketIs
  <2> QED BY <1>2, <2>1, <2>2 DEF InBucket
<1>4. CASE t[p] = t[q]
  <2> SUFFICES ASSUME SType(t, p), ~ SType(t, q) PROVE FALSE
    BY <1>4
  <2>1. BucketMiddle(t, t[p]) <= s /\ u <= BucketMiddle(t, t[p]) - 1
    BY <1>4 DEF InPart
  <2>2. BucketMiddle(t, t[p]) \in Nat
    BY <1>1, BucketIs
  <2> QED BY <2>1, <2>2
<1> QED BY <1>1, <1>3, <1>4

\* A slot is in one part of one bucket.
LEMMA PartApart ==
  ASSUME NEW n, NEW t, TextOf(t, n), NEW p \in 1 .. n, NEW q \in 1 .. n,
         NEW s \in Int, InPart(t, s, p), InPart(t, s, q)
  PROVE  t[p] = t[q] /\ (SType(t, p) <=> SType(t, q))
<1>1. t[p] \in Nat /\ t[q] \in Nat
  BY SymbolsAre
<1>2. s <= s
  OBVIOUS
<1>3. t[p] < t[q] \/ (t[p] = t[q] /\ (SType(t, p) => SType(t, q)))
  BY <1>2, PartOrder
<1>4. t[q] < t[p] \/ (t[q] = t[p] /\ (SType(t, q) => SType(t, p)))
  BY <1>2, PartOrder
<1> QED BY <1>1, <1>3, <1>4

\* One slot before another, for two positions.
InOrder(n, sa, p, q) == \E s, u \in 1 .. n : s < u /\ sa[s] = p /\ sa[u] = q

\* What the pass from the left leaves.
Lefted(t, n, order, K, sa) ==
  /\ sa \in [1 .. n -> 0 .. n]
  /\ \A s \in 1 .. n : sa[s] # 0 => /\ sa[s] \in 1 .. n /\ InPart(t, s, sa[s])
                                    /\ SType(t, sa[s]) => IsLMS(t, sa[s])
  /\ \A s, u \in 1 .. n : sa[s] # 0 /\ sa[s] = sa[u] => s = u
  /\ \A p \in 1 .. n : ~ SType(t, p) \/ IsLMS(t, p) => \E s \in 1 .. n : sa[s] = p
  /\ \A s, u \in 1 .. n :
       s < u /\ sa[s] # 0 /\ sa[u] # 0 /\ t[sa[s]] = t[sa[u]] =>
         /\ ~ SType(t, sa[s]) /\ ~ SType(t, sa[u]) => InOrder(n, sa, sa[s] + 1, sa[u] + 1)
         /\ SType(t, sa[s]) /\ SType(t, sa[u]) => Earlier(order, K, sa[s], sa[u])

\* The pass from the left reaches every L-type position.
LEMMA LeftEnd ==
  ASSUME NEW n, NEW t, TextOf(t, n), NEW order, NEW K, NEW sa0, NEW acc,
         FromLeft(t, n, order, K, sa0, acc, n)
  PROVE  Lefted(t, n, order, K, acc.sa)
<1> DEFINE sa == acc.sa
           P == LBehind(t, n, sa, n)
<1>1. n \in Nat /\ \A p \in 1 .. n : t[p] \in Nat /\ t[p] \in Range(t)
  BY SymbolsAre DEF TextOf
<1>2. Seeded(t, n, order, K, sa0) /\ Up(t, n, acc, P) /\ UpSorted(t, acc, PairsBehind(n, sa, 1, n))
  BY DEF FromLeft
<1>3. sa \in [1 .. n -> 0 .. n]
  BY <1>2 DEF Up, Passes
<1>4. \A s \in 1 .. n : sa[s] # 0 =>
              /\ sa[s] \in 1 .. n /\ InPart(t, s, sa[s]) /\ InBucket(t, s, t[sa[s]])
              /\ ~ SType(t, sa[s]) => s \in BucketStart(t, t[sa[s]]) .. acc.at[t[sa[s]]] - 1
              /\ SType(t, sa[s]) => sa[s] = sa0[s]
  BY LeftSlots
<1>5. \A s, u \in 1 .. n : sa[s] # 0 /\ sa[s] = sa[u] => s = u
  BY LeftSlots
<1>6. \A s \in 1 .. n : sa[s] = sa0[s] \/ (~ SType(t, sa[s]) /\ sa[s] # 0)
  <2> SUFFICES ASSUME NEW s \in 1 .. n, sa[s] # sa0[s] PROVE ~ SType(t, sa[s]) /\ sa[s] # 0
    OBVIOUS
  <2>1. sa[s] \in P
    BY DEF FromLeft
  <2> QED BY <1>1, <2>1 DEF LBehind
<1>7. ASSUME NEW p \in 1 .. n, IsLMS(t, p) PROVE \E s \in 1 .. n : sa[s] = p
  <2>1. PICK s \in 1 .. n : sa0[s] = p
    BY <1>2, <1>7 DEF Seeded
  <2>2. p # 0 /\ SType(t, p) /\ s \in Int
    BY <1>1, <1>7 DEF IsLMS
  <2>3. InPart(t, s, p)
    BY <1>2, <2>1, <2>2 DEF Seeded
  <2>4. sa[s] = sa0[s]
    <3> SUFFICES ASSUME sa[s] # sa0[s] PROVE FALSE
      OBVIOUS
    <3>1. ~ SType(t, sa[s]) /\ sa[s] # 0
      BY <1>6
    <3>2. sa[s] \in 1 .. n /\ InPart(t, s, sa[s])
      BY <1>4, <3>1
    <3> HIDE DEF sa
    <3> QED BY <2>2, <2>3, <3>1, <3>2, PartApart
  <2> QED BY <2>1, <2>4
<1>8. ASSUME NEW p \in P PROVE \E s \in 1 .. n : sa[s] = p
  <2>1. PICK s \in BucketStart(t, t[p]) .. acc.at[t[p]] - 1 : sa[s] = p
    BY <1>2 DEF Up
  <2>2. p \in 1 .. n
    BY DEF LBehind
  <2>3. t[p] \in Range(t) /\ t[p] \in Nat
    BY <1>1, <2>2
  <2>4. UpAt(t, acc.sa, acc.at[t[p]], t[p], P)
    BY <1>2, <2>3 DEF Up
  <2>5. acc.at[t[p]] <= BucketMiddle(t, t[p]) /\ acc.at[t[p]] \in Int
    BY <1>2, <2>3, <2>4 DEF UpAt, Up, Passes
  <2>6. /\ BucketStart(t, t[p]) \in Nat /\ BucketMiddle(t, t[p]) \in Nat /\ BucketEnd(t, t[p]) \in Nat
        /\ 1 <= BucketStart(t, t[p])
        /\ BucketMiddle(t, t[p]) <= BucketEnd(t, t[p]) + 1 /\ BucketEnd(t, t[p]) <= n
    BY <2>3, BucketIs
  <2>7. s \in 1 .. n
    BY <1>1, <2>5, <2>6
  <2> QED BY <2>1, <2>7
<1>9. ASSUME NEW p \in 1 .. n, ~ SType(t, p) PROVE p \in P
  <2> DEFINE Out == {q \in 1 .. n : ~ SType(t, q) /\ q \notin P}
             Back == {n - q : q \in Out}
  <2> SUFFICES ASSUME p \notin P PROVE FALSE
    OBVIOUS
  <2>1. n - p \in Back
    BY <1>9
  <2>2. Back \subseteq Nat
    BY <1>1
  <2>3. PICK m \in Back : \A z \in Back : m <= z
    <3> HIDE DEF Back
    <3> QED BY <2>1, <2>2, Least
  <2>4. PICK q \in Out : m = n - q
    OBVIOUS
  <2>5. q \in 1 .. n /\ ~ SType(t, q) /\ q \notin P
    BY <2>4
  <2>6. q # n
    BY <2>5, TypeLast
  <2>7. q + 1 \in 1 .. n /\ q + 1 > 1 /\ (q + 1) - 1 = q /\ ~ (m <= n - (q + 1))
    BY <1>1, <2>4, <2>5, <2>6
  <2>8. q + 1 \notin Out
    <3> SUFFICES ASSUME q + 1 \in Out PROVE FALSE
      OBVIOUS
    <3>1. n - (q + 1) \in Back
      OBVIOUS
    <3> HIDE DEF Back
    <3> QED BY <2>3, <2>7, <3>1
  <2>9. SType(t, q + 1) \/ q + 1 \in P
    BY <2>7, <2>8
  <2>10. \E s \in 1 .. n : sa[s] = q + 1
    <3>1. SType(t, q + 1) => IsLMS(t, q + 1)
      BY <2>5, <2>7 DEF IsLMS
    <3> HIDE DEF sa, P
    <3> QED BY <1>7, <1>8, <2>7, <2>9, <3>1
  <2> QED BY <2>5, <2>10 DEF LBehind
<1>10. ASSUME NEW s \in 1 .. n, NEW u \in 1 .. n, s < u, sa[s] # 0, sa[u] # 0, t[sa[s]] = t[sa[u]]
       PROVE  /\ ~ SType(t, sa[s]) /\ ~ SType(t, sa[u]) => InOrder(n, sa, sa[s] + 1, sa[u] + 1)
              /\ SType(t, sa[s]) /\ SType(t, sa[u]) => Earlier(order, K, sa[s], sa[u])
  <2>1. CASE ~ SType(t, sa[s]) /\ ~ SType(t, sa[u])
    <3> DEFINE c == t[sa[s]]
               R == PairsBehind(n, sa, 1, n)
    <3>1. c \in Range(t)
      BY <1>1, <1>4, <1>10
    <3>2. s \in BucketStart(t, c) .. acc.at[c] - 1 /\ u \in BucketStart(t, c) .. acc.at[c] - 1
      BY <1>4, <1>10, <2>1
    <3>3. <<sa[s], sa[u]>> \in R
      <4> HIDE DEF R, c
      <4>1. UpSorted(t, acc, R)
        BY <1>2 DEF R
      <4> QED BY <1>10, <3>1, <3>2, <4>1 DEF UpSorted, Ranked
    <3>4. PICK v, w \in 1 .. n : v < w /\ sa[v] = <<sa[s], sa[u]>>[1] + 1 /\ sa[w] = <<sa[s], sa[u]>>[2] + 1
      BY <3>3 DEF PairsBehind
    <3> HIDE DEF sa
    <3>5. sa[v] = sa[s] + 1 /\ sa[w] = sa[u] + 1
      BY <3>4
    <3> QED BY <2>1, <3>4, <3>5 DEF InOrder
  <2>2. CASE SType(t, sa[s]) /\ SType(t, sa[u])
    <3>1. sa[s] = sa0[s] /\ sa[u] = sa0[u]
      BY <1>4, <1>10, <2>2
    <3>2. Earlier(order, K, sa0[s], sa0[u])
      BY <1>2, <1>10, <3>1 DEF Seeded
    <3> QED BY <2>2, <3>1, <3>2
  <2> QED BY <2>1, <2>2
<1>11. ASSUME NEW s \in 1 .. n, sa[s] # 0, SType(t, sa[s]) PROVE IsLMS(t, sa[s])
  BY <1>2, <1>4, <1>11 DEF Seeded
<1>12. \A p \in 1 .. n : ~ SType(t, p) \/ IsLMS(t, p) => \E s \in 1 .. n : sa[s] = p
  BY <1>7, <1>8, <1>9
<1> HIDE DEF sa
<1>13. Lefted(t, n, order, K, sa)
  BY <1>3, <1>4, <1>5, <1>10, <1>11, <1>12 DEF Lefted
<1> QED BY <1>13 DEF sa

\* The pass from the right has scanned the slots from a on.
FromRight(t, n, order, K, sa1, acc, a) ==
  /\ Lefted(t, n, order, K, sa1)
  /\ Down(t, n, acc, SBehind(t, n, acc.sa, a))
  /\ DownSorted(t, acc, PairsBehind(n, acc.sa, a, n))
  /\ \A s \in 1 .. n : acc.sa[s] = sa1[s] \/ (/\ acc.sa[s] \in SBehind(t, n, acc.sa, a)
                                              /\ acc.at[t[acc.sa[s]]] + 1 <= s
                                              /\ s <= BucketEnd(t, t[acc.sa[s]]))

\* Only positions that start a run of S-type ones are still where the pass has not put them.
LEMMA RightSlots ==
  ASSUME NEW n, NEW t, TextOf(t, n), NEW order, NEW K, NEW sa1, NEW acc, NEW a,
         FromRight(t, n, order, K, sa1, acc, a)
  PROVE  /\ \A s \in 1 .. n : acc.sa[s] \in 0 .. n
         /\ \A s \in 1 .. n : acc.sa[s] # 0 =>
              /\ acc.sa[s] \in 1 .. n /\ InPart(t, s, acc.sa[s]) /\ InBucket(t, s, t[acc.sa[s]])
              /\ SType(t, acc.sa[s]) /\ ~ IsLMS(t, acc.sa[s]) =>
                   s \in acc.at[t[acc.sa[s]]] + 1 .. BucketEnd(t, t[acc.sa[s]])
              /\ ~ SType(t, acc.sa[s]) => acc.sa[s] = sa1[s]
         /\ \A s, u \in 1 .. n : acc.sa[s] # 0 /\ ~ IsLMS(t, acc.sa[s]) /\ acc.sa[s] = acc.sa[u] => s = u
<1> DEFINE P == SBehind(t, n, acc.sa, a)
<1>1. n \in Nat /\ \A p \in 1 .. n : t[p] \in Nat /\ t[p] \in Range(t)
  BY SymbolsAre DEF TextOf
<1>2. Down(t, n, acc, P) /\ Lefted(t, n, order, K, sa1)
  BY DEF FromRight
<1>3. acc.sa \in [1 .. n -> 0 .. n] /\ \A c \in Range(t) : acc.at[c] \in Int
  BY <1>2 DEF Down, Passes
<1>4. \A s \in 1 .. n : acc.sa[s] = sa1[s] \/ (/\ acc.sa[s] \in P
                                              /\ acc.at[t[acc.sa[s]]] + 1 <= s
                                              /\ s <= BucketEnd(t, t[acc.sa[s]]))
  BY DEF FromRight
<1>5. \A p \in P : p \in 1 .. n /\ SType(t, p)
  BY DEF SBehind
<1>6. \A s \in 1 .. n : sa1[s] # 0 => InPart(t, s, sa1[s]) /\ (SType(t, sa1[s]) => IsLMS(t, sa1[s]))
  BY <1>2 DEF Lefted
<1> HIDE DEF P
<1>7. ASSUME NEW s \in 1 .. n, acc.sa[s] # 0
      PROVE  /\ acc.sa[s] \in 1 .. n /\ InPart(t, s, acc.sa[s]) /\ InBucket(t, s, t[acc.sa[s]])
             /\ SType(t, acc.sa[s]) /\ ~ IsLMS(t, acc.sa[s]) =>
                   s \in acc.at[t[acc.sa[s]]] + 1 .. BucketEnd(t, t[acc.sa[s]])
             /\ ~ SType(t, acc.sa[s]) => acc.sa[s] = sa1[s]
  <2>1. PICK v \in 1 .. n : v = acc.sa[s]
    <3>1. acc.sa[s] \in 0 .. n
      BY <1>3
    <3> QED BY <1>1, <1>7, <3>1
  <2>2. t[v] \in Nat /\ t[v] \in Range(t) /\ acc.at[t[v]] \in Int
    BY <1>1, <1>3
  <2>3. BucketMiddle(t, t[v]) \in Nat /\ BucketEnd(t, t[v]) \in Nat
    BY <2>2, BucketIs
  <2>4. s \in Int
    BY <1>1
  <2>5. CASE v = sa1[s]
    <3>1. InPart(t, s, v) /\ (SType(t, v) => IsLMS(t, v))
      BY <1>6, <2>5
    <3>2. InBucket(t, s, t[v])
      BY <2>4, <3>1, PartIs
    <3> QED BY <2>1, <2>5, <3>1, <3>2
  <2>6. CASE v # sa1[s]
    <3>1. v \in P /\ acc.at[t[v]] + 1 <= s /\ s <= BucketEnd(t, t[v])
      BY <1>4, <2>1, <2>6
    <3>2. SType(t, v)
      BY <1>5, <3>1
    <3>3. DownAt(t, acc.sa, acc.at[t[v]], t[v], P)
      BY <1>2, <2>2 DEF Down
    <3>4. BucketMiddle(t, t[v]) - 1 <= acc.at[t[v]]
      BY <3>3 DEF DownAt
    <3>5. BucketMiddle(t, t[v]) <= s /\ s <= BucketEnd(t, t[v])
      BY <2>2, <2>3, <2>4, <3>1, <3>4
    <3>6. s \in acc.at[t[v]] + 1 .. BucketEnd(t, t[v])
      BY <2>2, <2>3, <2>4, <3>1
    <3>7. InPart(t, s, v)
      BY <3>2, <3>5 DEF InPart
    <3>8. InBucket(t, s, t[v])
      BY <2>4, <3>7, PartIs
    <3> QED BY <2>1, <3>2, <3>6, <3>7, <3>8
  <2> QED BY <2>5, <2>6
<1>8. ASSUME NEW s \in 1 .. n, NEW u \in 1 .. n, acc.sa[s] # 0, ~ IsLMS(t, acc.sa[s]), acc.sa[s] = acc.sa[u]
      PROVE  s = u
  <2>1. CASE ~ SType(t, acc.sa[s])
    <3>1. acc.sa[s] = sa1[s] /\ acc.sa[u] = sa1[u]
      BY <1>7, <1>8, <2>1
    <3> QED BY <1>2, <1>8, <3>1 DEF Lefted
  <2>2. CASE SType(t, acc.sa[s])
    <3>1. s \in acc.at[t[acc.sa[s]]] + 1 .. BucketEnd(t, t[acc.sa[s]])
      BY <1>7, <1>8, <2>2
    <3>2. u \in acc.at[t[acc.sa[s]]] + 1 .. BucketEnd(t, t[acc.sa[s]])
      BY <1>7, <1>8, <2>2
    <3>3. t[acc.sa[s]] \in Range(t)
      BY <1>1, <1>7, <1>8
    <3>4. DownAt(t, acc.sa, acc.at[t[acc.sa[s]]], t[acc.sa[s]], P)
      BY <1>2, <3>3 DEF Down
    <3> QED BY <1>8, <3>1, <3>2, <3>4 DEF DownAt, Holds
  <2> QED BY <2>1, <2>2
<1> QED BY <1>3, <1>7, <1>8

\* Before the pass from the right no slot is scanned.
LEMMA RightStart ==
  ASSUME NEW n, NEW t, TextOf(t, n), NEW order, NEW K, NEW sa1, Lefted(t, n, order, K, sa1), NEW acc,
         acc = [sa |-> sa1, at |-> [c \in Range(t) |-> BucketEnd(t, c)]]
  PROVE  FromRight(t, n, order, K, sa1, acc, n + 1)
<1>1. sa1 \in [1 .. n -> 0 .. n] /\ n \in Nat
  BY DEF Lefted, TextOf
<1>2. Down(t, n, acc, {}) /\ DownSorted(t, acc, PairsBehind(n, acc.sa, n + 1, n)) /\ acc.sa = sa1
  BY <1>1, DownStart
<1>3. SBehind(t, n, acc.sa, n + 1) = {}
  BY <1>1 DEF SBehind
<1> QED BY <1>2, <1>3 DEF FromRight

\* Scanning one more slot places the S-type position before it.
LEMMA RightStep ==
  ASSUME NEW n, NEW t, TextOf(t, n), NEW order, NEW K, NEW sa1, NEW acc, NEW new,
         NEW b \in 1 .. n, FromRight(t, n, order, K, sa1, acc, b + 1),
         new = InduceS(t, acc, b)
  PROVE  FromRight(t, n, order, K, sa1, new, b)
<1> DEFINE v == acc.sa[b]
           p == v - 1
           P == SBehind(t, n, acc.sa, b + 1)
           R == PairsBehind(n, acc.sa, b + 1, n)
<1>1. n \in Nat /\ \A q \in 1 .. n : t[q] \in Nat /\ t[q] \in Range(t)
  BY SymbolsAre DEF TextOf
<1>2. b \in Nat /\ \A s \in b + 1 .. n : s \in 1 .. n /\ s # b /\ b < s /\ s \in b .. n
  BY <1>1
<1>3. Lefted(t, n, order, K, sa1) /\ Down(t, n, acc, P) /\ DownSorted(t, acc, R)
  BY DEF FromRight
<1>4. \A s \in 1 .. n : acc.sa[s] = sa1[s] \/ (/\ acc.sa[s] \in P
                                              /\ acc.at[t[acc.sa[s]]] + 1 <= s
                                              /\ s <= BucketEnd(t, t[acc.sa[s]]))
  BY DEF FromRight
<1>5. v \in 0 .. n /\ \A s \in 1 .. n : acc.sa[s] \in 0 .. n
  BY RightSlots
<1>6. ~ IsLMS(t, v) => \A s \in 1 .. n : acc.sa[s] # 0 /\ acc.sa[s] = v => s = b
  BY RightSlots
<1>7. PairsBehind(n, acc.sa, b + 1, n) \subseteq PairsBehind(n, acc.sa, b, n)
  BY <1>2 DEF PairsBehind
<1>8. CASE ~ (p >= 1 /\ SType(t, p))
  <2>1. new = acc
    BY <1>8 DEF InduceS
  <2>2. SBehind(t, n, acc.sa, b) = P
    <3>1. ASSUME NEW q \in SBehind(t, n, acc.sa, b) PROVE q \in P
      <4>1. PICK s \in b .. n : acc.sa[s] = q + 1
        BY DEF SBehind
      <4>2. q \in 1 .. n /\ SType(t, q)
        BY DEF SBehind
      <4>3. s # b
        BY <1>5, <1>8, <4>1, <4>2
      <4>4. s \in b + 1 .. n
        BY <1>2, <4>3
      <4> QED BY <4>1, <4>2, <4>4 DEF SBehind
    <3>2. P \subseteq SBehind(t, n, acc.sa, b)
      BY <1>2 DEF SBehind
    <3> QED BY <3>1, <3>2
  <2>3. DownSorted(t, acc, PairsBehind(n, acc.sa, b, n))
    BY <1>3, <1>7 DEF DownSorted, Ranked
  <2> HIDE DEF P
  <2> QED BY <1>3, <1>4, <2>1, <2>2, <2>3 DEF FromRight
<1>9. CASE p >= 1 /\ SType(t, p)
  <2>1. new = Put(t, acc, p, -1)
    BY <1>9 DEF InduceS
  <2>2. p \in 1 .. n - 1 /\ p \in 1 .. n /\ v \in 1 .. n /\ v = p + 1 /\ v # 0
    BY <1>1, <1>5, <1>9
  <2>0. ~ IsLMS(t, v)
    <3>1. v - 1 = p
      BY <2>2
    <3> QED BY <1>9, <3>1 DEF IsLMS
  <2>3. p \notin P
    <3> SUFFICES ASSUME p \in P PROVE FALSE
      OBVIOUS
    <3>1. PICK s \in b + 1 .. n : acc.sa[s] = p + 1
      BY DEF SBehind
    <3> QED BY <1>2, <1>6, <2>0, <2>2, <3>1
  <2> DEFINE a == acc.at[t[p]]
  <2>4. a \in BucketMiddle(t, t[p]) .. BucketEnd(t, t[p]) /\ a \in 1 .. n
    BY <1>3, <1>9, <2>2, <2>3, DownRoom
  <2>5. a < b
    <3>1. /\ InBucket(t, b, t[v])
          /\ SType(t, v) => b \in acc.at[t[v]] + 1 .. BucketEnd(t, t[v])
      BY <2>0, <2>2, RightSlots
    <3>2. /\ t[v] < t[p] => ~ SType(t, p)
          /\ t[p] = t[v] => (SType(t, p) <=> SType(t, v))
      BY <2>2, TypeStep
    <3>3. t[p] \in Nat /\ t[v] \in Nat
      BY <1>1, <2>2
    <3>4. CASE t[p] = t[v]
      <4>1. b \in a + 1 .. BucketEnd(t, t[v])
        BY <1>9, <3>1, <3>2, <3>4
      <4>2. a \in Int
        BY <2>4
      <4> HIDE DEF a
      <4> QED BY <4>1, <4>2
    <3>5. CASE t[p] < t[v]
      <4>1. BucketEnd(t, t[p]) < BucketStart(t, t[v])
        BY <3>3, <3>5, BucketOrder
      <4>2. BucketEnd(t, t[p]) \in Nat /\ BucketStart(t, t[v]) \in Nat
        BY <3>3, BucketIs
      <4>3. BucketStart(t, t[v]) <= b /\ a <= BucketEnd(t, t[p]) /\ a \in Int
        BY <2>4, <3>1 DEF InBucket
      <4> HIDE DEF a
      <4> QED BY <1>2, <4>1, <4>2, <4>3
    <3> QED BY <1>9, <3>2, <3>3, <3>4, <3>5
  <2> HIDE DEF v, P, R
  <2>6. \A s \in 1 .. n : new.sa[s] = IF s = a THEN p ELSE acc.sa[s]
    <3>1. acc \in Passes(t, n)
      BY <1>3 DEF Down
    <3>2. p \in 1 .. n /\ -1 \in Int
      BY <2>2
    <3> HIDE DEF p
    <3>3. \A s \in 1 .. n : Put(t, acc, p, -1).sa[s] = IF s = acc.at[t[p]] THEN p ELSE acc.sa[s]
      BY <3>1, <3>2, PutIs
    <3> QED BY <2>1, <3>3
  <2> HIDE DEF a
  <2>7. \A s \in b .. n : s \in 1 .. n /\ new.sa[s] = acc.sa[s]
    <3> SUFFICES ASSUME NEW s \in b .. n PROVE s \in 1 .. n /\ new.sa[s] = acc.sa[s]
      OBVIOUS
    <3>1. s \in 1 .. n
      BY <1>1, <1>2
    <3>2. s # a
      BY <2>4, <2>5
    <3> QED BY <2>6, <3>1, <3>2
  <2> DEFINE P2 == SBehind(t, n, new.sa, b)
             R2 == PairsBehind(n, new.sa, b, n)
  <2>8. P2 = P \cup {p}
    <3>1. ASSUME NEW q \in P2 PROVE q \in P \cup {p}
      <4>1. PICK s \in b .. n : new.sa[s] = q + 1
        BY DEF SBehind
      <4>2. q \in 1 .. n /\ SType(t, q)
        BY DEF SBehind
      <4>3. acc.sa[s] = q + 1
        BY <2>7, <4>1
      <4>4. CASE s = b
        <5>1. v = q + 1
          BY <4>3, <4>4 DEF v
        <5>2. q = p
          BY <4>2, <5>1
        <5> QED BY <5>2
      <4>5. CASE s # b
        <5>1. s \in b + 1 .. n
          BY <1>2, <4>5
        <5> QED BY <4>2, <4>3, <5>1 DEF P, SBehind
      <4> QED BY <4>4, <4>5
    <3>2. ASSUME NEW q \in P PROVE q \in P2
      <4>1. PICK s \in b + 1 .. n : acc.sa[s] = q + 1
        BY DEF P, SBehind
      <4>2. q \in 1 .. n /\ SType(t, q)
        BY DEF P, SBehind
      <4>3. s \in b .. n /\ new.sa[s] = q + 1
        BY <1>2, <2>7, <4>1
      <4> QED BY <4>2, <4>3 DEF SBehind
    <3>3. p \in P2
      <4>1. b \in b .. n /\ new.sa[b] = p + 1
        BY <1>1, <1>2, <2>2, <2>7 DEF v
      <4> QED BY <1>9, <2>2, <4>1 DEF SBehind
    <3> QED BY <3>1, <3>2, <3>3
  <2>9. R \subseteq R2
    <3> SUFFICES ASSUME NEW z \in R PROVE z \in R2
      OBVIOUS
    <3>1. z \in (1 .. n) \X (1 .. n)
      BY DEF R, PairsBehind
    <3>2. PICK u \in b + 1 .. n, w \in b + 1 .. n : u < w /\ acc.sa[u] = z[1] + 1 /\ acc.sa[w] = z[2] + 1
      BY DEF R, PairsBehind
    <3>3. u \in b .. n /\ w \in b .. n /\ new.sa[u] = z[1] + 1 /\ new.sa[w] = z[2] + 1
      BY <1>2, <2>7, <3>2
    <3> QED BY <3>1, <3>2, <3>3 DEF PairsBehind
  <2>10. ASSUME NEW q \in P PROVE <<p, q>> \in R2
    <3>1. PICK s \in b + 1 .. n : acc.sa[s] = q + 1
      BY DEF P, SBehind
    <3>2. q \in 1 .. n
      BY DEF P, SBehind
    <3>3. s \in b .. n /\ b \in b .. n /\ b < s /\ new.sa[s] = q + 1 /\ new.sa[b] = p + 1
      BY <1>1, <1>2, <2>2, <2>7, <3>1 DEF v
    <3>4. <<p, q>> \in (1 .. n) \X (1 .. n) /\ <<p, q>>[1] = p /\ <<p, q>>[2] = q
      BY <2>2, <3>2
    <3> QED BY <3>3, <3>4 DEF PairsBehind
  <2> HIDE DEF P2, R2, p
  <2>11. Down(t, n, new, P \cup {p}) /\ DownSorted(t, new, R2) /\ PutAt(t, n, acc, new, p, -1)
    BY <1>3, <1>9, <2>1, <2>2, <2>3, <2>9, <2>10, DownPut
  <2>12. ASSUME NEW s \in 1 .. n
         PROVE  new.sa[s] = sa1[s] \/ (/\ new.sa[s] \in P \cup {p}
                                       /\ new.at[t[new.sa[s]]] + 1 <= s
                                       /\ s <= BucketEnd(t, t[new.sa[s]]))
    <3>0. \A c \in Range(t) : acc.at[c] \in Int
      BY <1>3 DEF Down, Passes
    <3>1. CASE s = a
      <4>1. new.sa[s] = p /\ new.at[t[p]] = acc.at[t[p]] + (-1) /\ acc.at[t[p]] \in Int
        BY <1>1, <2>2, <2>11, <3>0, <3>1 DEF PutAt, a
      <4>2. new.at[t[p]] + 1 = s
        BY <3>1, <4>1 DEF a
      <4>3. s <= BucketEnd(t, t[p]) /\ s \in Int
        BY <2>4, <3>1
      <4> QED BY <4>1, <4>2, <4>3
    <3>2. CASE s # a
      <4>1. new.sa[s] = acc.sa[s]
        BY <2>6, <3>2
      <4>2. CASE acc.sa[s] = sa1[s]
        BY <4>1, <4>2
      <4>3. CASE acc.sa[s] # sa1[s]
        <5>1. acc.sa[s] \in P /\ acc.at[t[acc.sa[s]]] + 1 <= s /\ s <= BucketEnd(t, t[acc.sa[s]])
          BY <1>4, <4>3
        <5>2. t[acc.sa[s]] \in Range(t)
          BY <1>1, <5>1 DEF P, SBehind
        <5>3. new.at[t[acc.sa[s]]] = acc.at[t[acc.sa[s]]] \/ new.at[t[acc.sa[s]]] = acc.at[t[acc.sa[s]]] + (-1)
          BY <2>11, <5>2 DEF PutAt
        <5>4. acc.at[t[acc.sa[s]]] \in Int /\ s \in Int
          BY <3>0, <5>2
        <5>5. new.at[t[acc.sa[s]]] + 1 <= s
          BY <5>1, <5>3, <5>4
        <5> QED BY <4>1, <5>1, <5>5
      <4> QED BY <4>2, <4>3
    <3> QED BY <3>1, <3>2
  <2> QED BY <1>3, <2>8, <2>11, <2>12 DEF FromRight, P2, R2
<1> QED BY <1>8, <1>9

-----------------------------------------------------------------------------
(***************************************************************************)
(* What the passes leave: each position in one slot, in an order that      *)
(* looks only at the symbol, the type and the suffix behind it. So two     *)
(* slots out of order would have two out of order behind them, up to LMS   *)
(* positions.                                                              *)
(***************************************************************************)

\* Why one position comes before another.
ByLMS(t, n, order, K, sa, p, q) ==
  \/ t[p] < t[q]
  \/ t[p] = t[q] /\ ~ SType(t, p) /\ SType(t, q)
  \/ t[p] = t[q] /\ ~ SType(t, p) /\ ~ SType(t, q) /\ InOrder(n, sa, p, q)
  \/ t[p] = t[q] /\ IsLMS(t, p) /\ IsLMS(t, q) /\ Earlier(order, K, p, q)
ByNext(t, n, order, K, sa, p, q) ==
  \/ t[p] < t[q]
  \/ t[p] = t[q] /\ ~ SType(t, p) /\ SType(t, q)
  \/ t[p] = t[q] /\ SType(t, p) /\ SType(t, q) /\ InOrder(n, sa, p + 1, q + 1)
  \/ t[p] = t[q] /\ ~ SType(t, p) /\ ~ SType(t, q) /\ ByLMS(t, n, order, K, sa, p + 1, q + 1)

\* An array with each position in one slot.
Permutes(n, sa) ==
  /\ sa \in [1 .. n -> 1 .. n]
  /\ \A s, u \in 1 .. n : sa[s] = sa[u] => s = u
  /\ \A p \in 1 .. n : \E s \in 1 .. n : sa[s] = p

Induced(t, n, order, K, sa) ==
  /\ Permutes(n, sa)
  /\ \A s, u \in 1 .. n : s < u => ByNext(t, n, order, K, sa, sa[s], sa[u])

\* An array with every position in some slot has each of them in one.
LEMMA Onto ==
  ASSUME NEW n \in Nat, NEW sa \in [1 .. n -> 0 .. n], \A p \in 1 .. n : \E s \in 1 .. n : sa[s] = p
  PROVE  Permutes(n, sa)
<1> DEFINE g == [p \in 1 .. n |-> CHOOSE s \in 1 .. n : sa[s] = p]
<1>1. \A p \in 1 .. n : g[p] \in 1 .. n /\ sa[g[p]] = p
  OBVIOUS
<1>2. g \in Injection(1 .. n, 1 .. n)
  <2>1. g \in [1 .. n -> 1 .. n]
    BY <1>1
  <2>2. \A p, q \in 1 .. n : g[p] = g[q] => p = q
    <3> HIDE DEF g
    <3> QED BY <1>1
  <2> HIDE DEF g
  <2> QED BY <2>1, <2>2 DEF Injection, IsInjective
<1> HIDE DEF g
<1>3. IsFiniteSet(1 .. n) /\ Cardinality(1 .. n) = n
  BY FS_Interval
<1>4. g \in Surjection(1 .. n, 1 .. n)
  <2>1. Cardinality(1 .. n) = Cardinality(1 .. n)
    OBVIOUS
  <2> QED BY <1>2, <1>3, <2>1, FS_Injection
<1>5. ASSUME NEW s \in 1 .. n PROVE \E p \in 1 .. n : g[p] = s /\ sa[s] = p
  <2>1. PICK p \in 1 .. n : g[p] = s
    BY <1>4 DEF Surjection
  <2> QED BY <1>1, <2>1
<1>6. sa \in [1 .. n -> 1 .. n]
  <2>1. \A s \in 1 .. n : sa[s] \in 1 .. n
    BY <1>5
  <2> QED BY <2>1
<1>7. ASSUME NEW s \in 1 .. n, NEW u \in 1 .. n, sa[s] = sa[u] PROVE s = u
  <2>1. PICK p \in 1 .. n : g[p] = s /\ sa[s] = p
    BY <1>5
  <2>2. PICK q \in 1 .. n : g[q] = u /\ sa[u] = q
    BY <1>5
  <2> QED BY <1>7, <2>1, <2>2
<1> QED BY <1>6, <1>7 DEF Permutes

\* The pass from the right reaches every other S-type position.
LEMMA RightEnd ==
  ASSUME NEW n, NEW t, TextOf(t, n), n > 1, NEW order, NEW K, NEW sa1, NEW acc,
         FromRight(t, n, order, K, sa1, acc, 1)
  PROVE  Induced(t, n, order, K, acc.sa)
<1> DEFINE sa == acc.sa
           P == SBehind(t, n, sa, 1)
<1>1. n \in Nat /\ \A p \in 1 .. n : t[p] \in Nat /\ t[p] \in Range(t) /\ t[n] <= t[p] /\ (t[p] = t[n] => p = n)
  BY SymbolsAre DEF TextOf
<1>2. Lefted(t, n, order, K, sa1) /\ Down(t, n, acc, P) /\ DownSorted(t, acc, PairsBehind(n, sa, 1, n))
  BY DEF FromRight
<1>3. sa \in [1 .. n -> 0 .. n]
  BY <1>2 DEF Down, Passes
<1>4. \A s \in 1 .. n : sa[s] # 0 => sa[s] \in 1 .. n /\ InPart(t, s, sa[s]) /\ (~ SType(t, sa[s]) => sa[s] = sa1[s])
  BY RightSlots
<1>5. \A s \in 1 .. n : sa[s] = sa1[s] \/ (SType(t, sa[s]) /\ sa[s] \in 1 .. n - 1)
  <2> SUFFICES ASSUME NEW s \in 1 .. n, sa[s] # sa1[s] PROVE SType(t, sa[s]) /\ sa[s] \in 1 .. n - 1
    OBVIOUS
  <2>1. sa[s] \in P
    BY DEF FromRight
  <2>2. PICK u \in 1 .. n : sa[u] = sa[s] + 1
    BY <2>1 DEF SBehind
  <2>3. sa[s] \in 1 .. n /\ SType(t, sa[s])
    BY <2>1 DEF SBehind
  <2>4. sa[u] \in 0 .. n
    BY <1>3
  <2> HIDE DEF sa, P
  <2> QED BY <1>1, <2>2, <2>3, <2>4
<1>6. \A s \in 1 .. n : sa1[s] # 0 => sa1[s] \in 1 .. n /\ InPart(t, s, sa1[s])
  BY <1>2 DEF Lefted
<1>7. ASSUME NEW p \in 1 .. n, ~ SType(t, p) \/ p = n PROVE \E s \in 1 .. n : sa[s] = p /\ sa1[s] = p
  <2>1. ~ SType(t, p) \/ IsLMS(t, p)
    <3> SUFFICES ASSUME p = n PROVE IsLMS(t, p)
      BY <1>7
    <3>1. n - 1 \in 1 .. n - 1 /\ (n - 1) + 1 = n /\ n - 1 \in 1 .. n /\ n - 1 # n /\ n \in 1 .. n
      BY <1>1
    <3>2. t[n] < t[n - 1]
      <4>1. t[n] <= t[n - 1] /\ t[n - 1] # t[n] /\ t[n] \in Nat /\ t[n - 1] \in Nat
        BY <1>1, <3>1
      <4> QED BY <4>1
    <3>3. ~ SType(t, n - 1)
      BY <3>1, <3>2, TypeStep
    <3> QED BY <3>3, TypeLast DEF IsLMS
  <2>2. PICK s \in 1 .. n : sa1[s] = p
    BY <1>2, <2>1 DEF Lefted
  <2>3. p # 0 /\ s \in Int
    BY <1>1
  <2>4. sa[s] = sa1[s]
    <3> SUFFICES ASSUME sa[s] # sa1[s] PROVE FALSE
      OBVIOUS
    <3>1. SType(t, sa[s]) /\ sa[s] \in 1 .. n - 1
      BY <1>5
    <3>2. sa[s] \in 1 .. n /\ sa[s] # 0 /\ sa[s] # n
      <4> HIDE DEF sa
      <4> QED BY <1>1, <3>1
    <3>3. InPart(t, s, sa[s]) /\ InPart(t, s, p)
      BY <1>4, <1>6, <2>2, <2>3, <3>2
    <3>4. t[sa[s]] = t[p] /\ (SType(t, sa[s]) <=> SType(t, p))
      <4> HIDE DEF sa
      <4> QED BY <2>3, <3>2, <3>3, PartApart
    <3> QED BY <1>1, <1>7, <3>1, <3>2, <3>4
  <2> QED BY <2>2, <2>4
<1>8. ASSUME NEW p \in P
      PROVE  \E s \in 1 .. n : sa[s] = p /\ s \in acc.at[t[p]] + 1 .. BucketEnd(t, t[p])
  <2>1. PICK s \in acc.at[t[p]] + 1 .. BucketEnd(t, t[p]) : sa[s] = p
    BY <1>2 DEF Down
  <2>2. p \in 1 .. n
    BY DEF SBehind
  <2>3. t[p] \in Range(t) /\ t[p] \in Nat
    BY <1>1, <2>2
  <2>4. DownAt(t, acc.sa, acc.at[t[p]], t[p], P)
    BY <1>2, <2>3 DEF Down
  <2>5. BucketMiddle(t, t[p]) - 1 <= acc.at[t[p]] /\ acc.at[t[p]] \in Int
    BY <1>2, <2>3, <2>4 DEF DownAt, Down, Passes
  <2>6. /\ BucketStart(t, t[p]) \in Nat /\ BucketMiddle(t, t[p]) \in Nat /\ BucketEnd(t, t[p]) \in Nat
        /\ 1 <= BucketStart(t, t[p]) /\ BucketStart(t, t[p]) <= BucketMiddle(t, t[p])
        /\ BucketEnd(t, t[p]) <= n
    BY <2>3, BucketIs
  <2>7. s \in 1 .. n
    BY <1>1, <2>5, <2>6
  <2> QED BY <2>1, <2>7
<1>9. ASSUME NEW p \in 1 .. n, SType(t, p), p # n PROVE p \in P
  <2> DEFINE Out == {q \in 1 .. n - 1 : SType(t, q) /\ q \notin P}
             Back == {n - q : q \in Out}
  <2> SUFFICES ASSUME p \notin P PROVE FALSE
    OBVIOUS
  <2>1. n - p \in Back
    <3>1. p \in 1 .. n - 1
      BY <1>1, <1>9
    <3> QED BY <1>9, <3>1
  <2>2. Back \subseteq Nat
    BY <1>1
  <2>3. PICK m \in Back : \A z \in Back : m <= z
    <3> HIDE DEF Back
    <3> QED BY <2>1, <2>2, Least
  <2>4. PICK q \in Out : m = n - q
    OBVIOUS
  <2>5. q \in 1 .. n - 1 /\ q \in 1 .. n /\ SType(t, q) /\ q \notin P
    BY <1>1, <2>4
  <2>7. q + 1 \in 1 .. n /\ ~ (m <= n - (q + 1))
    BY <1>1, <2>4, <2>5
  <2>8. q + 1 \notin Out
    <3> SUFFICES ASSUME q + 1 \in Out PROVE FALSE
      OBVIOUS
    <3>1. n - (q + 1) \in Back
      OBVIOUS
    <3> HIDE DEF Back
    <3> QED BY <2>3, <2>7, <3>1
  <2>9. ~ SType(t, q + 1) \/ q + 1 = n \/ q + 1 \in P
    <3>1. q + 1 = n \/ q + 1 \in 1 .. n - 1
      BY <1>1, <2>7
    <3> QED BY <2>8, <3>1
  <2>10. \E s \in 1 .. n : sa[s] = q + 1
    <3> HIDE DEF sa, P
    <3> QED BY <1>7, <1>8, <2>7, <2>9
  <2> QED BY <2>5, <2>10 DEF SBehind
<1>10. Permutes(n, sa)
  <2>1. \A p \in 1 .. n : \E s \in 1 .. n : sa[s] = p
    BY <1>7, <1>8, <1>9
  <2> HIDE DEF sa
  <2> QED BY <1>1, <1>3, <2>1, Onto
<1>11. \A s \in 1 .. n : sa[s] \in 1 .. n /\ sa[s] # 0 /\ InPart(t, s, sa[s])
  <2>1. \A s \in 1 .. n : sa[s] \in 1 .. n /\ sa[s] # 0
    <3> HIDE DEF sa
    <3>1. sa \in [1 .. n -> 1 .. n]
      BY <1>10 DEF Permutes
    <3> QED BY <3>1
  <2> QED BY <1>4, <2>1
<1>12. \A s, u \in 1 .. n : sa[s] = sa[u] => s = u
  BY <1>10 DEF Permutes
<1>13. ASSUME NEW s \in 1 .. n, NEW u \in 1 .. n, s < u,
              t[sa[s]] = t[sa[u]], SType(t, sa[s]), SType(t, sa[u])
       PROVE  InOrder(n, sa, sa[s] + 1, sa[u] + 1)
  <2>1. sa[s] # n /\ sa[u] # n
    <3>1. s # u
      BY <1>1, <1>13
    <3> QED BY <1>1, <1>11, <1>12, <1>13, <3>1
  <2>2. sa[s] \in P /\ sa[u] \in P
    BY <1>9, <1>11, <1>13, <2>1
  <2> DEFINE c == t[sa[s]]
             R == PairsBehind(n, sa, 1, n)
  <2>3. s \in acc.at[c] + 1 .. BucketEnd(t, c)
    <3>1. PICK w \in 1 .. n : sa[w] = sa[s] /\ w \in acc.at[c] + 1 .. BucketEnd(t, c)
      BY <1>8, <2>2
    <3>2. w = s
      BY <1>12, <3>1
    <3> QED BY <3>1, <3>2
  <2>4. u \in acc.at[c] + 1 .. BucketEnd(t, c)
    <3>1. PICK w \in 1 .. n : sa[w] = sa[u] /\ w \in acc.at[t[sa[u]]] + 1 .. BucketEnd(t, t[sa[u]])
      BY <1>8, <2>2
    <3>2. w = u
      BY <1>12, <3>1
    <3> QED BY <1>13, <3>1, <3>2
  <2>5. c \in Range(t)
    BY <1>1, <1>11
  <2>6. <<sa[s], sa[u]>> \in R
    <3>1. DownSorted(t, acc, R)
      BY <1>2
    <3> HIDE DEF R, c
    <3> QED BY <1>13, <2>3, <2>4, <2>5, <3>1 DEF DownSorted, Ranked
  <2>7. PICK v, w \in 1 .. n : v < w /\ sa[v] = <<sa[s], sa[u]>>[1] + 1 /\ sa[w] = <<sa[s], sa[u]>>[2] + 1
    BY <2>6 DEF PairsBehind
  <2> HIDE DEF sa
  <2>8. sa[v] = sa[s] + 1 /\ sa[w] = sa[u] + 1
    BY <2>7
  <2> QED BY <2>7, <2>8 DEF InOrder
<1>14. ASSUME NEW s \in 1 .. n, NEW u \in 1 .. n, s < u,
              t[sa[s]] = t[sa[u]], ~ SType(t, sa[s]), ~ SType(t, sa[u])
       PROVE  ByLMS(t, n, order, K, sa, sa[s] + 1, sa[u] + 1)
  <2>1. sa[s] = sa1[s] /\ sa[u] = sa1[u]
    BY <1>5, <1>14
  <2>2. sa1[s] # 0 /\ sa1[u] # 0
    BY <1>11, <2>1
  <2>3. InOrder(n, sa1, sa[s] + 1, sa[u] + 1)
    BY <1>2, <1>14, <2>1, <2>2 DEF Lefted
  <2> DEFINE p == sa[s] + 1
             q == sa[u] + 1
  <2>4. PICK v, w \in 1 .. n : v < w /\ sa1[v] = p /\ sa1[w] = q
    BY <2>3 DEF InOrder
  <2>5. p # 0 /\ q # 0
    <3>1. sa[s] \in 1 .. n /\ sa[u] \in 1 .. n
      BY <1>11
    <3> QED BY <1>1, <3>1
  <2>6. /\ p \in 1 .. n /\ InPart(t, v, p) /\ (SType(t, p) => IsLMS(t, p))
        /\ q \in 1 .. n /\ InPart(t, w, q) /\ (SType(t, q) => IsLMS(t, q))
    BY <1>2, <2>4, <2>5 DEF Lefted
  <2>7. v \in Int /\ w \in Int /\ v <= w
    BY <1>1, <2>4
  <2> HIDE DEF p, q, sa
  <2>8. t[p] < t[q] \/ (t[p] = t[q] /\ (SType(t, p) => SType(t, q)))
    BY <2>6, <2>7, PartOrder
  <2>9. CASE t[p] < t[q]
    BY <2>9 DEF ByLMS, p, q
  <2>10. CASE t[p] = t[q] /\ ~ SType(t, p) /\ SType(t, q)
    BY <2>10 DEF ByLMS, p, q
  <2>11. CASE t[p] = t[q] /\ ~ SType(t, p) /\ ~ SType(t, q)
    <3>1. PICK x \in 1 .. n : sa[x] = p /\ sa1[x] = p
      BY <1>7, <2>6, <2>11
    <3>2. PICK y \in 1 .. n : sa[y] = q /\ sa1[y] = q
      BY <1>7, <2>6, <2>11
    <3>3. x = v /\ y = w
      BY <1>2, <2>4, <2>5, <3>1, <3>2 DEF Lefted
    <3>4. InOrder(n, sa, p, q)
      BY <2>4, <3>1, <3>2, <3>3 DEF InOrder
    <3> QED BY <2>11, <3>4 DEF ByLMS, p, q
  <2>12. CASE t[p] = t[q] /\ SType(t, p) /\ SType(t, q)
    <3>1. Earlier(order, K, sa1[v], sa1[w])
      BY <1>2, <2>4, <2>5, <2>12 DEF Lefted
    <3> QED BY <2>4, <2>6, <2>12, <3>1 DEF ByLMS, p, q
  <2> QED BY <2>8, <2>9, <2>10, <2>11, <2>12
<1>15. ASSUME NEW s \in 1 .. n, NEW u \in 1 .. n, s < u
       PROVE  ByNext(t, n, order, K, sa, sa[s], sa[u])
  <2>1. s \in Int /\ u \in Int /\ s <= u
    BY <1>1, <1>15
  <2>2. sa[s] \in 1 .. n /\ InPart(t, s, sa[s]) /\ sa[u] \in 1 .. n /\ InPart(t, u, sa[u])
    BY <1>11
  <2> HIDE DEF sa
  <2>3. t[sa[s]] < t[sa[u]] \/ (t[sa[s]] = t[sa[u]] /\ (SType(t, sa[s]) => SType(t, sa[u])))
    BY <2>1, <2>2, PartOrder
  <2> QED BY <1>13, <1>14, <1>15, <2>3 DEF ByNext
<1>16. Induced(t, n, order, K, sa)
  <2> HIDE DEF sa
  <2> QED BY <1>10, <1>15 DEF Induced
<1> QED BY <1>16 DEF sa

\* Induced sorting does so from any list of the LMS positions.
LEMMA InducedSortIs ==
  ASSUME NEW t, TextOf(t, Len(t)), Len(t) > 1, NEW order, ListsLMS(t, Len(t), order, Len(order))
  PROVE  Induced(t, Len(t), order, Len(order), InducedSort(t, order))
<1> DEFINE n == Len(t)
           K == Len(order)
           S == Passes(t, n)
           Tails(sa) == [sa |-> sa, at |-> [c \in Range(t) |-> BucketEnd(t, c)]]
           Heads(sa) == [sa |-> sa, at |-> [c \in Range(t) |-> BucketStart(t, c)]]
           EqP(f) == f = [c \in 0 .. K |->
                       IF c = 0 THEN Tails([s \in 1 .. n |-> 0])
                       ELSE Put(t, f[c - 1], order[K + 1 - c], -1)]
           placed == CHOOSE f : EqP(f)
           EqL(f) == f = [c \in 0 .. n |->
                       IF c = 0 THEN Heads(placed[K].sa) ELSE InduceL(t, f[c - 1], c)]
           fromLeft == CHOOSE f : EqL(f)
           EqR(f) == f = [c \in 0 .. n |->
                       IF c = 0 THEN Tails(fromLeft[n].sa) ELSE InduceS(t, f[c - 1], n + 1 - c)]
           fromRight == CHOOSE f : EqR(f)
<1>1. n \in Nat /\ K \in Nat
  BY DEF TextOf, ListsLMS
<1>2. InducedSort(t, order) = fromRight[n].sa
  BY Zenon DEF InducedSort
<1>0. TextOf(t, n) /\ n > 1 /\ ListsLMS(t, n, order, K)
  OBVIOUS
<1> HIDE DEF n
<1>3. ASSUME NEW acc \in S, NEW p \in 1 .. n, NEW step \in Int PROVE Put(t, acc, p, step) \in S
  BY <1>0, PutIs
<1>4. ASSUME NEW sa \in [1 .. n -> 0 .. n] PROVE Tails(sa) \in S /\ Heads(sa) \in S
  <2>1. Down(t, n, Tails(sa), {})
    BY <1>0, DownStart
  <2>2. Up(t, n, Heads(sa), {})
    BY <1>0, UpStart
  <2> QED BY <2>1, <2>2 DEF Down, Up
<1>5. \A b \in 1 .. K : order[b] \in 1 .. n
  BY <1>0 DEF ListsLMS
<1> HIDE DEF K, S
<1>6. EqP(placed)
  <2> DEFINE G == [y \in (1 .. K) \X S |-> Put(t, y[2], order[K + 1 - y[1]], -1)]
             c0 == Tails([s \in 1 .. n |-> 0])
  <2>1. G \in [(1 .. K) \X S -> S]
    <3>1. \A c \in 1 .. K : order[K + 1 - c] \in 1 .. n
      <4>1. \A c \in 1 .. K : K + 1 - c \in 1 .. K
        BY <1>1
      <4> QED BY <1>5, <4>1
    <3>2. -1 \in Int
      OBVIOUS
    <3> QED BY <1>3, <3>1, <3>2
  <2>2. \A c \in 1 .. K, q \in S : G[<<c, q>>] = Put(t, q, order[K + 1 - c], -1)
    OBVIOUS
  <2>0. c0 \in S
    <3>1. [s \in 1 .. n |-> 0] \in [1 .. n -> 0 .. n]
      BY <1>1
    <3> QED BY <1>4, <3>1
  <2> HIDE DEF G, c0
  <2>3. PICK f \in [0 .. K -> S] : Evolves(f, K, c0, G)
    BY <1>1, <2>0, <2>1, Evolution, Zenon
  <2>4. ASSUME NEW c \in 0 .. K
        PROVE  f[c] = IF c = 0 THEN c0 ELSE Put(t, f[c - 1], order[K + 1 - c], -1)
    <3>1. CASE c # 0
      <4>1. c \in 1 .. K /\ c - 1 \in 0 .. K
        BY <1>1, <3>1
      <4>2. f[c - 1] \in S
        BY <2>3, <4>1
      <4>3. f[c] = G[<<c, f[c - 1]>>]
        BY <2>3, <4>1 DEF Evolves
      <4> QED BY <2>2, <3>1, <4>1, <4>2, <4>3, Zenon
    <3> QED BY <2>3, <3>1 DEF Evolves
  <2>5. EqP(f)
    <3>1. f = [c \in 0 .. K |-> IF c = 0 THEN c0 ELSE Put(t, f[c - 1], order[K + 1 - c], -1)]
      BY <2>3, <2>4
    <3> QED BY <3>1, Zenon DEF c0
  <2> QED BY <2>5, Zenon
<1>7. Placing(t, n, order, K, placed[K], K)
  <2> DEFINE T == {c \in 0 .. K : Placing(t, n, order, K, placed[c], c)}
  <2>0. ListsLMS(t, n, order, K)
    BY <1>0
  <2>1. 0 \in T
    <3>0. 0 \in 0 .. K
      BY <1>1
    <3>1. placed[0] = Tails([s \in 1 .. n |-> 0])
      BY <1>6, <3>0, Zenon
    <3>2. Placing(t, n, order, K, placed[0], 0)
      BY <2>0, <3>1, <1>0, PlacingStart
    <3> QED BY <1>1, <3>2
  <2>2. ASSUME NEW c \in 1 .. K, c - 1 \in T PROVE c \in T
    <3>1. c \in 0 .. K /\ c # 0
      BY <1>1
    <3>2. placed[c] = Put(t, placed[c - 1], order[K + 1 - c], -1)
      BY <1>6, <3>1, Zenon
    <3>3. Placing(t, n, order, K, placed[c - 1], c - 1)
      BY <2>2
    <3> HIDE DEF placed
    <3>4. Placing(t, n, order, K, placed[c], c)
      BY <2>0, <3>2, <3>3, <1>0, PlacingStep
    <3> QED BY <3>1, <3>4
  <2>3. K \in T
    <3> HIDE DEF T
    <3>1. \A c \in 0 .. K : c \in T
      BY <1>1, <2>1, <2>2, Climb
    <3> QED BY <1>1, <3>1
  <2> QED BY <2>3
<1>8. Seeded(t, n, order, K, placed[K].sa)
  <2>0. ListsLMS(t, n, order, K)
    BY <1>0
  <2> HIDE DEF placed
  <2> QED BY <1>7, <2>0, <1>0, PlacingEnd
<1> HIDE DEF placed
<1>9. placed[K].sa \in [1 .. n -> 0 .. n]
  BY <1>8 DEF Seeded
<1>10. ASSUME NEW acc \in S, NEW b \in 1 .. n PROVE InduceL(t, acc, b) \in S /\ InduceS(t, acc, b) \in S
  <2>1. acc.sa[b] \in 0 .. n
    BY DEF S, Passes
  <2> DEFINE p == acc.sa[b] - 1
  <2>2. p >= 1 => p \in 1 .. n
    BY <1>1, <2>1
  <2>3. 1 \in Int /\ -1 \in Int
    OBVIOUS
  <2>4. p >= 1 => Put(t, acc, p, 1) \in S /\ Put(t, acc, p, -1) \in S
    <3> HIDE DEF p
    <3> QED BY <1>3, <2>2, <2>3
  <2>5. InduceL(t, acc, b) \in S
    BY <2>4 DEF InduceL
  <2>6. InduceS(t, acc, b) \in S
    BY <2>4 DEF InduceS
  <2> QED BY <2>5, <2>6
<1>11. EqL(fromLeft)
  <2> DEFINE G == [y \in (1 .. n) \X S |-> InduceL(t, y[2], y[1])]
             c0 == Heads(placed[K].sa)
  <2>1. G \in [(1 .. n) \X S -> S]
    BY <1>10
  <2>2. \A c \in 1 .. n, q \in S : G[<<c, q>>] = InduceL(t, q, c)
    OBVIOUS
  <2>0. c0 \in S
    BY <1>4, <1>9
  <2> HIDE DEF G, c0
  <2>3. PICK f \in [0 .. n -> S] : Evolves(f, n, c0, G)
    BY <1>1, <2>0, <2>1, Evolution, Zenon
  <2>4. ASSUME NEW c \in 0 .. n
        PROVE  f[c] = IF c = 0 THEN c0 ELSE InduceL(t, f[c - 1], c)
    <3>1. CASE c # 0
      <4>1. c \in 1 .. n /\ c - 1 \in 0 .. n
        BY <1>1, <3>1
      <4>2. f[c - 1] \in S
        BY <2>3, <4>1
      <4>3. f[c] = G[<<c, f[c - 1]>>]
        BY <2>3, <4>1 DEF Evolves
      <4> QED BY <2>2, <3>1, <4>1, <4>2, <4>3, Zenon
    <3> QED BY <2>3, <3>1 DEF Evolves
  <2>5. EqL(f)
    <3>1. f = [c \in 0 .. n |-> IF c = 0 THEN c0 ELSE InduceL(t, f[c - 1], c)]
      BY <2>3, <2>4
    <3> QED BY <3>1, Zenon DEF c0
  <2> QED BY <2>5, Zenon
<1>12. FromLeft(t, n, order, K, placed[K].sa, fromLeft[n], n)
  <2> DEFINE sa0 == placed[K].sa
             T == {c \in 0 .. n : FromLeft(t, n, order, K, sa0, fromLeft[c], c)}
  <2>1. 0 \in T
    <3>0. 0 \in 0 .. n
      BY <1>1
    <3>1. fromLeft[0] = Heads(sa0)
      BY <1>11, <3>0, Zenon
    <3>2. FromLeft(t, n, order, K, sa0, fromLeft[0], 0)
      <4> HIDE DEF fromLeft
      <4> QED BY <1>8, <3>1, <1>0, LeftStart
    <3> QED BY <1>1, <3>2
  <2>2. ASSUME NEW c \in 1 .. n, c - 1 \in T PROVE c \in T
    <3>1. c \in 0 .. n /\ c # 0
      BY <1>1
    <3>2. fromLeft[c] = InduceL(t, fromLeft[c - 1], c)
      BY <1>11, <3>1, Zenon
    <3>3. FromLeft(t, n, order, K, sa0, fromLeft[c - 1], c - 1)
      BY <2>2
    <3> HIDE DEF fromLeft, sa0
    <3>4. FromLeft(t, n, order, K, sa0, fromLeft[c], c)
      BY <3>2, <3>3, <1>0, LeftStep
    <3> QED BY <3>1, <3>4
  <2>3. n \in T
    <3> HIDE DEF T
    <3>1. \A c \in 0 .. n : c \in T
      BY <1>1, <2>1, <2>2, Climb
    <3> QED BY <1>1, <3>1
  <2> QED BY <2>3
<1>13. Lefted(t, n, order, K, fromLeft[n].sa)
  <2> HIDE DEF fromLeft
  <2> QED BY <1>12, <1>0, LeftEnd
<1> HIDE DEF fromLeft
<1>14. fromLeft[n].sa \in [1 .. n -> 0 .. n]
  BY <1>13 DEF Lefted
<1>15. EqR(fromRight)
  <2> DEFINE G == [y \in (1 .. n) \X S |-> InduceS(t, y[2], n + 1 - y[1])]
             c0 == Tails(fromLeft[n].sa)
  <2>1. G \in [(1 .. n) \X S -> S]
    <3>1. \A c \in 1 .. n : n + 1 - c \in 1 .. n
      BY <1>1
    <3> QED BY <1>10, <3>1
  <2>2. \A c \in 1 .. n, q \in S : G[<<c, q>>] = InduceS(t, q, n + 1 - c)
    OBVIOUS
  <2>0. c0 \in S
    BY <1>4, <1>14
  <2> HIDE DEF G, c0
  <2>3. PICK f \in [0 .. n -> S] : Evolves(f, n, c0, G)
    BY <1>1, <2>0, <2>1, Evolution, Zenon
  <2>4. ASSUME NEW c \in 0 .. n
        PROVE  f[c] = IF c = 0 THEN c0 ELSE InduceS(t, f[c - 1], n + 1 - c)
    <3>1. CASE c # 0
      <4>1. c \in 1 .. n /\ c - 1 \in 0 .. n
        BY <1>1, <3>1
      <4>2. f[c - 1] \in S
        BY <2>3, <4>1
      <4>3. f[c] = G[<<c, f[c - 1]>>]
        BY <2>3, <4>1 DEF Evolves
      <4> QED BY <2>2, <3>1, <4>1, <4>2, <4>3, Zenon
    <3> QED BY <2>3, <3>1 DEF Evolves
  <2>5. EqR(f)
    <3>1. f = [c \in 0 .. n |-> IF c = 0 THEN c0 ELSE InduceS(t, f[c - 1], n + 1 - c)]
      BY <2>3, <2>4
    <3> QED BY <3>1, Zenon DEF c0
  <2> QED BY <2>5, Zenon
<1>16. FromRight(t, n, order, K, fromLeft[n].sa, fromRight[n], 1)
  <2> DEFINE sa1 == fromLeft[n].sa
             T == {c \in 0 .. n : FromRight(t, n, order, K, sa1, fromRight[c], n + 1 - c)}
  <2>1. 0 \in T
    <3>0. 0 \in 0 .. n /\ n + 1 - 0 = n + 1
      BY <1>1
    <3>1. fromRight[0] = Tails(sa1)
      BY <1>15, <3>0, Zenon
    <3>2. FromRight(t, n, order, K, sa1, fromRight[0], n + 1)
      <4> HIDE DEF fromRight
      <4> QED BY <1>13, <3>1, <1>0, RightStart
    <3> QED BY <3>0, <3>2
  <2>2. ASSUME NEW c \in 1 .. n, c - 1 \in T PROVE c \in T
    <3>1. c \in 0 .. n /\ c # 0
      BY <1>1
    <3>2. fromRight[c] = InduceS(t, fromRight[c - 1], n + 1 - c)
      BY <1>15, <3>1, Zenon
    <3>3. FromRight(t, n, order, K, sa1, fromRight[c - 1], n + 1 - (c - 1))
      BY <2>2
    <3>4. PICK b \in 1 .. n : b = n + 1 - c /\ b + 1 = n + 1 - (c - 1)
      BY <1>1
    <3> HIDE DEF fromRight, sa1
    <3>5. FromRight(t, n, order, K, sa1, fromRight[c], b)
      BY <3>2, <3>3, <3>4, <1>0, RightStep
    <3> QED BY <3>1, <3>4, <3>5
  <2>3. n \in T
    <3> HIDE DEF T
    <3>1. \A c \in 0 .. n : c \in T
      BY <1>1, <2>1, <2>2, Climb
    <3> QED BY <1>1, <3>1
  <2>4. n + 1 - n = 1
    BY <1>1
  <2> QED BY <2>3, <2>4
<1>17. Induced(t, n, order, K, fromRight[n].sa)
  <2> HIDE DEF fromRight
  <2> QED BY <1>16, <1>0, RightEnd
<1> QED BY <1>2, <1>17 DEF n, K

\* A list in the order of the suffixes.
ListSorted(t, order, K) == \A b, e \in 1 .. K : b < e => Before(t, order[b], order[e])

\* The typed symbols d on are the first that differ, and q should have come first; with
\* inner, they are in the LMS substring.
Wrong(t, n, p, q, d, inner) == Differ(Typed(t), n, q, p, d) /\ (inner => Inner(t, q, d))

\* A difference one further on is one of the suffixes behind.
LEMMA WrongNext ==
  ASSUME NEW n, NEW t, TextOf(t, n), NEW p \in 1 .. n, NEW q \in 1 .. n, NEW d \in Nat,
         NEW inner, Wrong(t, n, p, q, d, inner), Typed(t)[p] = Typed(t)[q]
  PROVE  /\ d # 0 /\ d - 1 \in Nat /\ p + 1 \in 1 .. n /\ q + 1 \in 1 .. n
         /\ Wrong(t, n, p + 1, q + 1, d - 1, inner)
         /\ inner /\ d > 1 => ~ IsLMS(t, q + 1)
<1>1. n \in Nat /\ Typed(t)[p] \in Int /\ Typed(t)[q] \in Int
  <2>1. Typed(t) \in [1 .. n -> Int]
    BY TypedIs
  <2> QED BY <2>1 DEF TextOf
<1>2. /\ q + d <= n /\ p + d <= n /\ Typed(t)[q + d] < Typed(t)[p + d]
      /\ \A j \in 0 .. d - 1 : Typed(t)[q + j] = Typed(t)[p + j]
  BY DEF Wrong, Differ
<1>3. d # 0
  BY <1>1, <1>2
<1>4. d - 1 \in Nat /\ p + 1 \in 1 .. n /\ q + 1 \in 1 .. n
  BY <1>1, <1>2, <1>3
<1>5. (q + 1) + (d - 1) = q + d /\ (p + 1) + (d - 1) = p + d
  BY <1>1
<1>6. ASSUME NEW j \in 0 .. (d - 1) - 1 PROVE Typed(t)[(q + 1) + j] = Typed(t)[(p + 1) + j]
  <2>1. j + 1 \in 0 .. d - 1 /\ (q + 1) + j = q + (j + 1) /\ (p + 1) + j = p + (j + 1)
    BY <1>1
  <2> QED BY <1>2, <2>1
<1>7. Differ(Typed(t), n, q + 1, p + 1, d - 1)
  BY <1>2, <1>5, <1>6 DEF Differ
<1>8. inner => Inner(t, q + 1, d - 1)
  <2> SUFFICES ASSUME inner, NEW j \in 1 .. (d - 1) - 1 PROVE ~ IsLMS(t, (q + 1) + j)
    BY DEF Inner
  <2>1. j + 1 \in 1 .. d - 1 /\ (q + 1) + j = q + (j + 1)
    BY <1>1
  <2>2. Inner(t, q, d)
    BY DEF Wrong
  <2> QED BY <2>1, <2>2 DEF Inner
<1>9. inner /\ d > 1 => ~ IsLMS(t, q + 1)
  <2>1. d > 1 => 1 \in 1 .. d - 1
    OBVIOUS
  <2> QED BY <2>1 DEF Wrong, Inner
<1> QED BY <1>3, <1>4, <1>7, <1>8, <1>9 DEF Wrong

\* Typed symbols that are in order are not the ones that are wrong.
LEMMA WrongFirst ==
  ASSUME NEW n, NEW t, TextOf(t, n), NEW p \in 1 .. n, NEW q \in 1 .. n, NEW d \in Nat,
         NEW inner, Wrong(t, n, p, q, d, inner)
  PROVE  ~ (t[p] < t[q]) /\ ~ (t[p] = t[q] /\ ~ SType(t, p) /\ SType(t, q))
<1>1. n \in Nat /\ Typed(t)[p] \in Int /\ Typed(t)[q] \in Int
  <2>1. Typed(t) \in [1 .. n -> Int]
    BY TypedIs
  <2> QED BY <2>1 DEF TextOf
<1>2. /\ Typed(t)[q + d] < Typed(t)[p + d]
      /\ \A j \in 0 .. d - 1 : Typed(t)[q + j] = Typed(t)[p + j]
  BY DEF Wrong, Differ
<1>3. Typed(t)[q] <= Typed(t)[p]
  <2>1. CASE d = 0
    <3>1. q + d = q /\ p + d = p
      BY <1>1, <2>1
    <3> QED BY <1>1, <1>2, <3>1
  <2>2. CASE d # 0
    <3>1. 0 \in 0 .. d - 1 /\ q + 0 = q /\ p + 0 = p
      BY <1>1, <2>2
    <3>2. Typed(t)[q + 0] = Typed(t)[p + 0]
      BY <1>2, <3>1
    <3> QED BY <1>1, <3>1, <3>2
  <2> QED BY <2>1, <2>2
<1>4. ~ (Typed(t)[p] < Typed(t)[q])
  BY <1>1, <1>3
<1> QED BY <1>4, TypedIs

\* No two slots are out of order: a first difference is passed on from suffix to suffix
\* until it reaches symbols that are in order, or LMS positions that were.
LEMMA NeverWrong ==
  ASSUME NEW n, NEW t, TextOf(t, n), NEW order, NEW K, NEW sa, Induced(t, n, order, K, sa),
         ListsLMS(t, n, order, K),
         NEW inner, inner \/ ListSorted(t, order, K),
         NEW x \in 1 .. n, NEW y \in 1 .. n, x < y, NEW e \in Nat
  PROVE  ~ Wrong(t, n, sa[x], sa[y], e, inner)
<1>1. n \in Nat /\ Len(t) = n /\ t \in [1 .. n -> Int] /\ Len(Typed(t)) = n
  BY TypedIs DEF TextOf
<1>2. \A s \in 1 .. n : sa[s] \in 1 .. n
  BY DEF Induced, Permutes
<1> DEFINE Bad(d) == \E s, u \in 1 .. n : s < u /\ Wrong(t, n, sa[s], sa[u], d, inner)
           D == {d \in Nat : Bad(d)}
<1> SUFFICES ASSUME Wrong(t, n, sa[x], sa[y], e, inner) PROVE FALSE
  OBVIOUS
<1>3. e \in D
  OBVIOUS
<1>4. PICK d \in D : \A j \in D : d <= j
  <2>1. D \subseteq Nat
    OBVIOUS
  <2> HIDE DEF D
  <2> QED BY <1>3, <2>1, Least
<1>5. d \in Nat
  OBVIOUS
<1>6. PICK s \in 1 .. n, u \in 1 .. n : s < u /\ Wrong(t, n, sa[s], sa[u], d, inner)
  OBVIOUS
<1>7. ASSUME d - 1 \in Nat, NEW v \in 1 .. n, NEW w \in 1 .. n, v < w,
             Wrong(t, n, sa[v], sa[w], d - 1, inner)
      PROVE  FALSE
  <2>1. d - 1 \in D
    BY <1>7
  <2>2. d <= d - 1
    <3> HIDE DEF D
    <3> QED BY <1>4, <2>1
  <2> QED BY <1>5, <2>2
<1> HIDE DEF D
<1> DEFINE p == sa[s]
           q == sa[u]
<1>8. p \in 1 .. n /\ q \in 1 .. n /\ Wrong(t, n, p, q, d, inner)
  BY <1>2, <1>6
<1>9. ByNext(t, n, order, K, sa, p, q)
  BY <1>6 DEF Induced
<1> HIDE DEF p, q
<1>10. ~ (t[p] < t[q]) /\ ~ (t[p] = t[q] /\ ~ SType(t, p) /\ SType(t, q))
  BY <1>5, <1>8, WrongFirst
<1>11. t[p] = t[q] /\ (SType(t, p) <=> SType(t, q)) /\ Typed(t)[p] = Typed(t)[q]
  <2>1. t[p] = t[q] /\ (SType(t, p) <=> SType(t, q))
    BY <1>9, <1>10 DEF ByNext
  <2> QED BY <1>8, <2>1, TypedIs
<1>12. /\ d # 0 /\ d - 1 \in Nat /\ p + 1 \in 1 .. n /\ q + 1 \in 1 .. n
       /\ Wrong(t, n, p + 1, q + 1, d - 1, inner)
       /\ inner /\ d > 1 => ~ IsLMS(t, q + 1)
  BY <1>5, <1>8, <1>11, WrongNext
<1>13. ~ InOrder(n, sa, p + 1, q + 1)
  <2> SUFFICES ASSUME InOrder(n, sa, p + 1, q + 1) PROVE FALSE
    OBVIOUS
  <2>1. PICK v \in 1 .. n, w \in 1 .. n : v < w /\ sa[v] = p + 1 /\ sa[w] = q + 1
    BY DEF InOrder
  <2> QED BY <1>7, <1>12, <2>1
<1>14. ~ SType(t, p) /\ ~ SType(t, q) /\ ByLMS(t, n, order, K, sa, p + 1, q + 1)
  BY <1>9, <1>10, <1>11, <1>13 DEF ByNext
<1>15. /\ ~ (t[p + 1] < t[q + 1])
       /\ ~ (t[p + 1] = t[q + 1] /\ ~ SType(t, p + 1) /\ SType(t, q + 1))
  BY <1>12, WrongFirst
<1>16. t[p + 1] = t[q + 1] /\ IsLMS(t, p + 1) /\ IsLMS(t, q + 1) /\ Earlier(order, K, p + 1, q + 1)
  BY <1>13, <1>14, <1>15 DEF ByLMS
<1>17. CASE inner
  <2>1. d = 1
    BY <1>5, <1>12, <1>16, <1>17
  <2>2. Typed(t)[p + 1] = Typed(t)[q + 1]
    BY <1>12, <1>16, TypedIs DEF IsLMS
  <2>3. Wrong(t, n, p + 1, q + 1, 0, inner)
    BY <1>12, <2>1
  <2>4. 0 # 0
    BY <1>12, <2>2, <2>3, WrongNext
  <2> QED BY <2>4
<1>18. CASE ListSorted(t, order, K)
  <2>1. Before(t, p + 1, q + 1)
    BY <1>16, <1>18 DEF Earlier, ListSorted
  <2>2. ~ Before(t, q + 1, p + 1)
    BY <1>1, <1>12, <2>1, BeforeNotBoth
  <2>3. Before(Typed(t), q + 1, p + 1)
    BY <1>1, <1>12, BeforeIs DEF Wrong
  <2>4. Before(t, q + 1, p + 1)
    BY <1>12, <2>3, TypedOrder
  <2> QED BY <2>2, <2>4
<1> QED BY <1>17, <1>18

\* Any order of the LMS positions sorts the LMS substrings, ...
LEMMA SubstringsSorted ==
  ASSUME NEW n, NEW t, TextOf(t, n), NEW order, NEW K, NEW sa, Induced(t, n, order, K, sa),
         ListsLMS(t, n, order, K), NEW s \in 1 .. n, NEW u \in 1 .. n, s < u
  PROVE  ~ SubLess(t, n, sa[u], sa[s])
<1> SUFFICES ASSUME NEW d \in Nat, Differ(Typed(t), n, sa[u], sa[s], d), Inner(t, sa[u], d) PROVE FALSE
  BY DEF SubLess
<1>1. Wrong(t, n, sa[s], sa[u], d, TRUE)
  BY DEF Wrong
<1> QED BY <1>1, NeverWrong

\* ... the right one sorts the suffixes.
LEMMA SuffixesSorted ==
  ASSUME NEW n, NEW t, TextOf(t, n), NEW order, NEW K, NEW sa, Induced(t, n, order, K, sa),
         ListsLMS(t, n, order, K), ListSorted(t, order, K), NEW s \in 1 .. n, NEW u \in 1 .. n, s < u
  PROVE  Before(t, sa[s], sa[u])
<1>1. n \in Nat /\ Len(Typed(t)) = n
  BY TypedIs DEF TextOf
<1>2. sa[s] \in 1 .. n /\ sa[u] \in 1 .. n /\ sa[s] # sa[u]
  <2>1. s # u
    BY <1>1
  <2> QED BY <2>1 DEF Induced, Permutes
<1>3. PICK d \in Nat : /\ sa[s] + d <= n /\ sa[u] + d <= n /\ Agree(t, sa[s], sa[u], d)
                       /\ \/ Typed(t)[sa[s] + d] < Typed(t)[sa[u] + d]
                          \/ Typed(t)[sa[u] + d] < Typed(t)[sa[s] + d]
  BY <1>2, Parts
<1>4. ~ (Typed(t)[sa[u] + d] < Typed(t)[sa[s] + d])
  <2> SUFFICES ASSUME Typed(t)[sa[u] + d] < Typed(t)[sa[s] + d] PROVE FALSE
    OBVIOUS
  <2>1. Differ(Typed(t), n, sa[u], sa[s], d)
    BY <1>3 DEF Differ, Agree
  <2>2. Wrong(t, n, sa[s], sa[u], d, FALSE)
    BY <2>1 DEF Wrong
  <2> QED BY <2>2, NeverWrong
<1>5. Differ(Typed(t), n, sa[s], sa[u], d)
  BY <1>3, <1>4 DEF Differ, Agree
<1>6. Before(Typed(t), sa[s], sa[u])
  BY <1>1, <1>2, <1>5, BeforeIs
<1> QED BY <1>2, <1>6, TypedOrder

-----------------------------------------------------------------------------
(***************************************************************************)
(* The recursion: the LMS positions get names in the order of their        *)
(* substrings, the shorter text of the names is sorted first, and its      *)
(* order is that of the LMS suffixes. How far it has to go is bounded by   *)
(* the length of the text.                                                 *)
(***************************************************************************)

\* A function on 1 .. n is a sequence of that length.
LEMMA FunctionIsSeq ==
  ASSUME NEW n \in Nat, NEW T, NEW f \in [1 .. n -> T]
  PROVE  f \in Seq(T) /\ Len(f) = n /\ DOMAIN f = 1 .. n
<1>1. f \in Seq(T)
  BY SeqDef
<1>2. DOMAIN f = 1 .. Len(f) /\ Len(f) \in Nat
  BY <1>1, LenProperties
<1>3. DOMAIN f = 1 .. n
  OBVIOUS
<1>4. Len(f) = n
  BY <1>2, <1>3
<1> QED BY <1>1, <1>3, <1>4

\* The members of a list that are LMS, with the places they were in.
Picks(t, list, n, s, idx) ==
  /\ idx \in [1 .. Len(s) -> 1 .. n]
  /\ \A a \in 1 .. Len(s) : s[a] = list[idx[a]] /\ IsLMS(t, s[a])
  /\ \A a, b \in 1 .. Len(s) : a < b => idx[a] < idx[b]
  /\ \A c \in 1 .. n : IsLMS(t, list[c]) => \E a \in 1 .. Len(s) : idx[a] = c

\* One more LMS position is picked.
LEMMA PicksMore ==
  ASSUME NEW t, NEW T, NEW list, NEW n \in Nat, n > 0, list[n] \in T, NEW s \in Seq(T), NEW idx,
         Picks(t, list, n - 1, s, idx), IsLMS(t, list[n])
  PROVE  \E j : Picks(t, list, n, Append(s, list[n]), j)
<1> DEFINE K == Len(s)
           s2 == Append(s, list[n])
           j == [a \in 1 .. K + 1 |-> IF a = K + 1 THEN n ELSE idx[a]]
<1>1. K \in Nat /\ Len(s2) = K + 1 /\ s2[K + 1] = list[n] /\ \A a \in 1 .. K : s2[a] = s[a]
  OBVIOUS
<1> HIDE DEF K, s2
<1>2. /\ idx \in [1 .. K -> 1 .. n - 1]
      /\ \A a \in 1 .. K : s[a] = list[idx[a]] /\ IsLMS(t, s[a])
      /\ \A a, b \in 1 .. K : a < b => idx[a] < idx[b]
      /\ \A c \in 1 .. n - 1 : IsLMS(t, list[c]) => \E a \in 1 .. K : idx[a] = c
  BY DEF Picks, K
<1>3. \A a \in 1 .. K + 1 : a = K + 1 \/ a \in 1 .. K
  BY <1>1
<1>4. K + 1 \in 1 .. K + 1 /\ K + 1 \notin 1 .. K /\ \A a \in 1 .. K : a \in 1 .. K + 1 /\ a # K + 1
  BY <1>1
<1>5. j \in [1 .. K + 1 -> 1 .. n] /\ j[K + 1] = n /\ \A a \in 1 .. K : j[a] = idx[a]
  <2>1. \A a \in 1 .. K : idx[a] \in 1 .. n
    BY <1>2
  <2>2. n \in 1 .. n
    OBVIOUS
  <2> QED BY <1>3, <1>4, <2>1, <2>2
<1> HIDE DEF j
<1>6. \A a \in 1 .. K + 1 : s2[a] = list[j[a]] /\ IsLMS(t, s2[a])
  BY <1>1, <1>2, <1>3, <1>5
<1>7. ASSUME NEW a \in 1 .. K + 1, NEW b \in 1 .. K + 1, a < b PROVE j[a] < j[b]
  <2>1. a \in 1 .. K
    BY <1>1, <1>7
  <2>2. CASE b = K + 1
    BY <1>2, <1>5, <2>1, <2>2
  <2>3. CASE b # K + 1
    BY <1>2, <1>3, <1>5, <1>7, <2>1, <2>3
  <2> QED BY <2>2, <2>3
<1>8. ASSUME NEW c \in 1 .. n, IsLMS(t, list[c]) PROVE \E a \in 1 .. K + 1 : j[a] = c
  <2>1. CASE c = n
    BY <1>4, <1>5, <2>1
  <2>2. CASE c # n
    <3>1. c \in 1 .. n - 1
      BY <2>2
    <3>2. PICK a \in 1 .. K : idx[a] = c
      BY <1>2, <1>8, <3>1
    <3> QED BY <1>4, <1>5, <3>2
  <2> QED BY <2>1, <2>2
<1>9. Picks(t, list, n, s2, j)
  BY <1>1, <1>5, <1>6, <1>7, <1>8 DEF Picks
<1> QED BY <1>9 DEF s2

\* One that is not LMS is passed over.
LEMMA PicksSkip ==
  ASSUME NEW t, NEW list, NEW n \in Nat, n > 0, NEW s, NEW idx,
         Picks(t, list, n - 1, s, idx), ~ IsLMS(t, list[n])
  PROVE  Picks(t, list, n, s, idx)
<1>1. 1 .. n - 1 \subseteq 1 .. n /\ \A c \in 1 .. n : c = n \/ c \in 1 .. n - 1
  OBVIOUS
<1>2. idx \in [1 .. Len(s) -> 1 .. n]
  BY <1>1 DEF Picks
<1> QED BY <1>1, <1>2 DEF Picks

\* What is picked of a list is its LMS positions, in their order.
LEMMA LMSAmongIs ==
  ASSUME NEW t, NEW T, NEW list \in Seq(T)
  PROVE  /\ LMSAmong(t, list) \in Seq(T)
         /\ \E idx : Picks(t, list, Len(list), LMSAmong(t, list), idx)
<1> DEFINE n == Len(list)
           Eq(f) == f = [c \in 0 .. n |->
             IF c = 0 THEN <<>> ELSE IF IsLMS(t, list[c]) THEN Append(f[c - 1], list[c]) ELSE f[c - 1]]
           found == CHOOSE f : Eq(f)
<1>1. LMSAmong(t, list) = found[n]
  BY Zenon DEF LMSAmong
<1>2. n \in Nat /\ \A c \in 1 .. n : list[c] \in T
  OBVIOUS
<1> HIDE DEF n
<1>3. Eq(found)
  <2> DEFINE G == [y \in (1 .. n) \X Seq(T) |->
                    IF IsLMS(t, list[y[1]]) THEN Append(y[2], list[y[1]]) ELSE y[2]]
  <2>1. G \in [(1 .. n) \X Seq(T) -> Seq(T)]
    <3>1. \A c \in 1 .. n, q \in Seq(T) : Append(q, list[c]) \in Seq(T)
      BY <1>2
    <3> QED BY <3>1
  <2>2. \A c \in 1 .. n, q \in Seq(T) : G[<<c, q>>] = IF IsLMS(t, list[c]) THEN Append(q, list[c]) ELSE q
    OBVIOUS
  <2> HIDE DEF G
  <2>3. PICK f \in [0 .. n -> Seq(T)] : Evolves(f, n, <<>>, G)
    <3>1. <<>> \in Seq(T)
      OBVIOUS
    <3> QED BY <1>2, <2>1, <3>1, Evolution, Zenon
  <2>4. ASSUME NEW c \in 0 .. n
        PROVE  f[c] = IF c = 0 THEN <<>>
                      ELSE IF IsLMS(t, list[c]) THEN Append(f[c - 1], list[c]) ELSE f[c - 1]
    <3>1. CASE c # 0
      <4>1. c \in 1 .. n /\ c - 1 \in 0 .. n
        BY <1>2, <3>1
      <4>2. f[c - 1] \in Seq(T)
        BY <2>3, <4>1
      <4>3. f[c] = G[<<c, f[c - 1]>>]
        BY <2>3, <4>1 DEF Evolves
      <4> QED BY <2>2, <3>1, <4>1, <4>2, <4>3, Zenon
    <3> QED BY <2>3, <3>1 DEF Evolves
  <2>5. Eq(f)
    BY <2>3, <2>4
  <2> QED BY <2>5, Zenon
<1> HIDE DEF found
<1> DEFINE S == {c \in 0 .. n : found[c] \in Seq(T) /\ \E idx : Picks(t, list, c, found[c], idx)}
<1>4. 0 \in S
  <2>1. 0 \in 0 .. n
    BY <1>2
  <2>2. found[0] = <<>>
    BY <1>3, <2>1, Zenon
  <2>3. <<>> \in Seq(T) /\ Len(<<>>) = 0
    OBVIOUS
  <2>4. Picks(t, list, 0, <<>>, [a \in 1 .. 0 |-> 0])
    BY <2>3 DEF Picks
  <2> QED BY <2>1, <2>2, <2>3, <2>4
<1>5. ASSUME NEW c \in 1 .. n, c - 1 \in S PROVE c \in S
  <2>1. c \in 0 .. n /\ c # 0 /\ c \in Nat /\ c > 0
    BY <1>2
  <2>2. found[c] = IF IsLMS(t, list[c]) THEN Append(found[c - 1], list[c]) ELSE found[c - 1]
    BY <1>3, <2>1, Zenon
  <2>3. found[c - 1] \in Seq(T)
    BY <1>5
  <2>4. PICK idx : Picks(t, list, c - 1, found[c - 1], idx)
    BY <1>5
  <2>5. CASE IsLMS(t, list[c])
    <3>1. found[c] = Append(found[c - 1], list[c]) /\ list[c] \in T
      BY <1>2, <2>2, <2>5
    <3>2. found[c] \in Seq(T)
      BY <2>3, <3>1
    <3>3. \E j : Picks(t, list, c, found[c], j)
      BY <2>1, <2>3, <2>4, <2>5, <3>1, PicksMore
    <3> QED BY <2>1, <3>2, <3>3
  <2>6. CASE ~ IsLMS(t, list[c])
    <3>1. found[c] = found[c - 1]
      BY <2>2, <2>6
    <3>2. Picks(t, list, c, found[c], idx)
      BY <2>1, <2>4, <2>6, <3>1, PicksSkip
    <3> QED BY <2>1, <2>3, <3>1, <3>2
  <2> QED BY <2>5, <2>6
<1>6. n \in S
  <2> HIDE DEF S
  <2>1. \A c \in 0 .. n : c \in S
    BY <1>2, <1>4, <1>5, Climb
  <2> QED BY <1>2, <2>1
<1> QED BY <1>1, <1>6 DEF n

\* The LMS positions of a list of all positions.
LEMMA PicksList ==
  ASSUME NEW n \in Nat, NEW t, NEW list, Permutes(n, list), NEW s \in Seq(1 .. n), NEW idx, Picks(t, list, n, s, idx)
  PROVE  ListsLMS(t, n, s, Len(s))
<1> DEFINE K == Len(s)
<1>1. K \in Nat /\ \A a \in 1 .. K : s[a] \in 1 .. n
  OBVIOUS
<1>2. /\ idx \in [1 .. K -> 1 .. n]
      /\ \A a \in 1 .. K : s[a] = list[idx[a]] /\ IsLMS(t, s[a])
      /\ \A a, b \in 1 .. K : a < b => idx[a] < idx[b]
      /\ \A c \in 1 .. n : IsLMS(t, list[c]) => \E a \in 1 .. K : idx[a] = c
  BY DEF Picks
<1> HIDE DEF K
<1>3. ASSUME NEW a \in 1 .. K, NEW b \in 1 .. K, s[a] = s[b] PROVE a = b
  <2>1. idx[a] \in 1 .. n /\ idx[b] \in 1 .. n
    BY <1>2
  <2>2. idx[a] = idx[b]
    BY <1>2, <1>3, <2>1 DEF Permutes
  <2>3. ~ (a < b) /\ ~ (b < a)
    BY <1>2, <2>1, <2>2
  <2> QED BY <1>1, <2>3
<1>4. ASSUME NEW p \in 1 .. n, IsLMS(t, p) PROVE \E b \in 1 .. K : s[b] = p
  <2>1. PICK c \in 1 .. n : list[c] = p
    BY DEF Permutes
  <2>2. PICK a \in 1 .. K : idx[a] = c
    BY <1>2, <1>4, <2>1
  <2> QED BY <1>2, <2>1, <2>2
<1>5. ListsLMS(t, n, s, K)
  BY <1>1, <1>2, <1>3, <1>4 DEF ListsLMS
<1> QED BY <1>5 DEF K

\* All lists of them are as long.
LEMMA ListsSameLength ==
  ASSUME NEW n \in Nat, NEW t, NEW order, NEW K, ListsLMS(t, n, order, K)
  PROVE  Cardinality({p \in 1 .. n : IsLMS(t, p)}) = K
<1> DEFINE all == {p \in 1 .. n : IsLMS(t, p)}
           f == [a \in 1 .. K |-> order[a]]
<1>1. f \in [1 .. K -> all]
  BY DEF ListsLMS
<1>2. \A a, b \in 1 .. K : f[a] = f[b] => a = b
  BY DEF ListsLMS
<1>3. \A p \in all : \E a \in 1 .. K : f[a] = p
  BY DEF ListsLMS
<1>4. K \in Nat
  BY DEF ListsLMS
<1> HIDE DEF f, all
<1>5. ExistsBijection(1 .. K, all)
  BY <1>1, <1>2, <1>3 DEF ExistsBijection, Bijection, Injection, IsInjective, Surjection
<1>6. Cardinality(all) = K
  BY <1>4, <1>5, FS_CountingElements
<1> QED BY <1>6 DEF all

\* Names: they grow along the sorted list.
NewNames(t, sorted, e) == {f \in 2 .. e : ~ SameLMSSubstring(t, sorted[f - 1], sorted[f])}

\* A name is how often the LMS substring has changed before it.
LEMMA NewNamesFinite ==
  ASSUME NEW t, NEW sorted, NEW e \in Nat
  PROVE  /\ IsFiniteSet(NewNames(t, sorted, e)) /\ NameAt(t, sorted, e) = Cardinality(NewNames(t, sorted, e))
         /\ NameAt(t, sorted, e) \in Nat
<1>1. IsFiniteSet(2 .. e)
  BY FS_Interval
<1>2. NewNames(t, sorted, e) \subseteq 2 .. e
  BY DEF NewNames
<1>3. IsFiniteSet(NewNames(t, sorted, e))
  BY <1>1, <1>2, FS_Subset
<1>4. NameAt(t, sorted, e) = Cardinality(NewNames(t, sorted, e))
  BY DEF NameAt, NewNames
<1>5. Cardinality(NewNames(t, sorted, e)) \in Nat
  BY <1>3, FS_CardinalityType
<1> QED BY <1>3, <1>4, <1>5

\* Names never decrease, and stay while the LMS substrings are the same.
LEMMA NamesGrow ==
  ASSUME NEW t, NEW sorted, NEW a \in Nat, NEW b \in Nat, a >= 1, a <= b
  PROVE  /\ NameAt(t, sorted, a) <= NameAt(t, sorted, b)
         /\ NameAt(t, sorted, a) = NameAt(t, sorted, b) <=>
              \A f \in a + 1 .. b : SameLMSSubstring(t, sorted[f - 1], sorted[f])
<1> DEFINE A == NewNames(t, sorted, a)
           B == NewNames(t, sorted, b)
<1>1. IsFiniteSet(B) /\ NameAt(t, sorted, b) = Cardinality(B) /\ NameAt(t, sorted, b) \in Nat
  BY NewNamesFinite
<1>2. NameAt(t, sorted, a) = Cardinality(A) /\ NameAt(t, sorted, a) \in Nat
  BY NewNamesFinite
<1>3. A \subseteq B
  BY DEF NewNames
<1>4. A = B <=> \A f \in a + 1 .. b : SameLMSSubstring(t, sorted[f - 1], sorted[f])
  <2>1. ASSUME A = B, NEW f \in a + 1 .. b PROVE SameLMSSubstring(t, sorted[f - 1], sorted[f])
    <3>1. f \in 2 .. b /\ f \notin 2 .. a
      OBVIOUS
    <3> QED BY <2>1, <3>1 DEF NewNames
  <2>2. ASSUME \A f \in a + 1 .. b : SameLMSSubstring(t, sorted[f - 1], sorted[f]), NEW f \in B PROVE f \in A
    <3>1. f \in 2 .. b /\ ~ SameLMSSubstring(t, sorted[f - 1], sorted[f])
      BY DEF NewNames
    <3>2. f \notin a + 1 .. b
      BY <2>2, <3>1
    <3>3. f \in 2 .. a
      BY <3>1, <3>2
    <3> QED BY <3>1, <3>3 DEF NewNames
  <2> QED BY <1>3, <2>1, <2>2
<1> HIDE DEF A, B
<1>5. Cardinality(A) <= Cardinality(B) /\ (Cardinality(A) = Cardinality(B) => A = B)
  BY <1>1, <1>3, FS_Subset
<1> QED BY <1>1, <1>2, <1>4, <1>5

\* A list of LMS positions in the order of their substrings.
SubSorted(t, n, s, K) == \A a, b \in 1 .. K : a < b => ~ SubLess(t, n, s[b], s[a])

\* Equal names are of the same LMS substring.
LEMMA NamesSame ==
  ASSUME NEW n, NEW t, TextOf(t, n), NEW s, NEW K \in Nat, ListsLMS(t, n, s, K),
         NEW a \in 1 .. K, NEW b \in 1 .. K, a < b, NameAt(t, s, a) = NameAt(t, s, b)
  PROVE  SameLMSSubstring(t, s[a], s[b])
<1>1. a \in Nat /\ b \in Nat /\ a >= 1 /\ a <= b /\ b <= K
  OBVIOUS
<1>2. \A f \in a + 1 .. b : SameLMSSubstring(t, s[f - 1], s[f])
  BY <1>1, NamesGrow
<1> DEFINE T == {l \in 0 .. (b - a) - 1 : SameLMSSubstring(t, s[a], s[a + 1 + l])}
<1>3. 0 \in T
  <2>1. a + 1 \in a + 1 .. b /\ (a + 1) - 1 = a /\ a + 1 + 0 = a + 1 /\ 0 \in 0 .. (b - a) - 1
    BY <1>1
  <2>2. SameLMSSubstring(t, s[(a + 1) - 1], s[a + 1])
    BY <1>2, <2>1
  <2> QED BY <2>1, <2>2
<1>4. ASSUME NEW l \in 1 .. (b - a) - 1, l - 1 \in T PROVE l \in T
  <2>1. /\ l \in 0 .. (b - a) - 1 /\ a + 1 + l \in a + 1 .. b /\ a + 1 + (l - 1) = (a + 1 + l) - 1
        /\ (a + 1 + l) - 1 \in 1 .. K /\ a + 1 + l \in 1 .. K
    BY <1>1
  <2>2. SameLMSSubstring(t, s[a], s[(a + 1 + l) - 1])
    BY <1>4, <2>1
  <2>3. SameLMSSubstring(t, s[(a + 1 + l) - 1], s[a + 1 + l])
    BY <1>2, <2>1
  <2>4. s[a] \in 1 .. n /\ s[(a + 1 + l) - 1] \in 1 .. n /\ s[a + 1 + l] \in 1 .. n
    BY <2>1 DEF ListsLMS
  <2>5. SameLMSSubstring(t, s[a], s[a + 1 + l])
    BY <2>2, <2>3, <2>4, SameTrans
  <2> QED BY <2>1, <2>5
<1>5. (b - a) - 1 \in T
  <2> HIDE DEF T
  <2>1. (b - a) - 1 \in Nat /\ (b - a) - 1 \in 0 .. (b - a) - 1
    BY <1>1
  <2>2. \A l \in 0 .. (b - a) - 1 : l \in T
    BY <1>3, <1>4, <2>1, Climb
  <2> QED BY <2>1, <2>2
<1>6. a + 1 + ((b - a) - 1) = b
  BY <1>1
<1> QED BY <1>5, <1>6

\* Different names are in the order of the LMS substrings.
LEMMA NamesLess ==
  ASSUME NEW n, NEW t, TextOf(t, n), NEW s, NEW K \in Nat, ListsLMS(t, n, s, K), SubSorted(t, n, s, K),
         NEW a \in 1 .. K, NEW b \in 1 .. K, a < b, NameAt(t, s, a) # NameAt(t, s, b)
  PROVE  SubLess(t, n, s[a], s[b])
<1>1. a \in Nat /\ b \in Nat /\ a >= 1 /\ a <= b /\ b <= K
  OBVIOUS
<1>2. PICK f \in a + 1 .. b : ~ SameLMSSubstring(t, s[f - 1], s[f])
  BY <1>1, NamesGrow
<1>3. f \in 1 .. K /\ f - 1 \in 1 .. K /\ f - 1 < f /\ f - 1 # f /\ a <= f - 1 /\ f <= b
  BY <1>1
<1>4. /\ s[a] \in 1 .. n /\ s[b] \in 1 .. n /\ s[f] \in 1 .. n /\ s[f - 1] \in 1 .. n
      /\ s[f - 1] # s[f]
  BY <1>3 DEF ListsLMS
<1>5. SubLess(t, n, s[f - 1], s[f])
  <2>1. SubLess(t, n, s[f - 1], s[f]) \/ SubLess(t, n, s[f], s[f - 1])
    BY <1>2, <1>4, SubLessElse
  <2>2. ~ SubLess(t, n, s[f], s[f - 1])
    BY <1>3 DEF SubSorted
  <2> QED BY <2>1, <2>2
<1>6. SubLess(t, n, s[a], s[f])
  <2>1. CASE a = f - 1
    BY <1>5, <2>1
  <2>2. CASE a # f - 1
    <3>1. a < f - 1
      BY <1>1, <1>3, <2>2
    <3>2. ~ SubLess(t, n, s[f - 1], s[a])
      BY <1>3, <3>1 DEF SubSorted
    <3> QED BY <1>4, <1>5, <3>2, SubLessSplit
  <2> QED BY <2>1, <2>2
<1>7. CASE f = b
  BY <1>6, <1>7
<1>8. CASE f # b
  <2>1. f < b
    BY <1>1, <1>3, <1>8
  <2>2. ~ SubLess(t, n, s[b], s[f])
    BY <1>3, <2>1 DEF SubSorted
  <2> QED BY <1>4, <1>6, <2>2, SubLessSplit
<1> QED BY <1>7, <1>8

\* Where all names differ the list is in the order of the suffixes.
LEMMA NamesAll ==
  ASSUME NEW n, NEW t, TextOf(t, n), NEW s, NEW K \in Nat, K >= 1, ListsLMS(t, n, s, K), SubSorted(t, n, s, K),
         NameAt(t, s, K) + 1 = K
  PROVE  ListSorted(t, s, K)
<1> SUFFICES ASSUME NEW a \in 1 .. K, NEW b \in 1 .. K, a < b PROVE Before(t, s[a], s[b])
  BY DEF ListSorted
<1>1. NewNames(t, s, K) = 2 .. K
  <2>1. IsFiniteSet(2 .. K) /\ Cardinality(2 .. K) = K - 1
    <3>1. IsFiniteSet(2 .. K) /\ Cardinality(2 .. K) = (IF 2 > K THEN 0 ELSE K - 2 + 1)
      BY FS_Interval
    <3> QED BY <3>1
  <2>2. NewNames(t, s, K) \subseteq 2 .. K
    BY DEF NewNames
  <2>3. Cardinality(NewNames(t, s, K)) = K - 1
    <3>1. NameAt(t, s, K) \in Nat /\ NameAt(t, s, K) = Cardinality(NewNames(t, s, K))
      BY NewNamesFinite
    <3> QED BY <3>1
  <2> QED BY <2>1, <2>2, <2>3, FS_Subset
<1>2. b \in 2 .. K /\ b \in a + 1 .. b /\ a \in Nat /\ b \in Nat /\ a >= 1 /\ a <= b
  OBVIOUS
<1>3. ~ SameLMSSubstring(t, s[b - 1], s[b])
  BY <1>1, <1>2 DEF NewNames
<1>4. NameAt(t, s, a) # NameAt(t, s, b)
  BY <1>2, <1>3, NamesGrow
<1>5. SubLess(t, n, s[a], s[b])
  BY <1>4, NamesLess
<1>6. s[a] \in 1 .. n /\ s[b] \in 1 .. n
  BY DEF ListsLMS
<1> QED BY <1>5, <1>6, SubLessBefore

\* Names in place of LMS positions: equal for equal substrings, and in their order.
NamesOf(t, n, app, K, red) ==
  /\ red \in [1 .. K -> Nat]
  /\ \A a, b \in 1 .. K :
       /\ red[a] < red[b] => SubLess(t, n, app[a], app[b])
       /\ red[a] = red[b] /\ a # b => SameLMSSubstring(t, app[a], app[b])

\* The reduced text has a name for each LMS position, in the order of LMS substrings.
LEMMA ReducedIs ==
  ASSUME NEW n, NEW t, TextOf(t, n), NEW K \in Nat,
         DOMAIN Appearance(t) = 1 .. K, ListsLMS(t, n, Appearance(t), K),
         NEW sub, DOMAIN sub = 1 .. K, ListsLMS(t, n, sub, K), SubSorted(t, n, sub, K)
  PROVE  NamesOf(t, n, Appearance(t), K, Reduced(t, sub))
<1> DEFINE app == Appearance(t)
           at(a) == CHOOSE e \in 1 .. K : sub[e] = app[a]
           red == [a \in 1 .. K |-> NameAt(t, sub, at(a))]
<1>1. Reduced(t, sub) = red
  BY DEF Reduced
<1>2. ASSUME NEW a \in 1 .. K PROVE at(a) \in 1 .. K /\ sub[at(a)] = app[a] /\ app[a] \in 1 .. n
  <2>1. app[a] \in 1 .. n /\ IsLMS(t, app[a])
    BY DEF ListsLMS
  <2>2. \E e \in 1 .. K : sub[e] = app[a]
    <3> HIDE DEF app
    <3> QED BY <2>1 DEF ListsLMS
  <2> HIDE DEF app
  <2> QED BY <2>1, <2>2
<1> HIDE DEF at, app
<1>3. ASSUME NEW a \in 1 .. K PROVE red[a] = NameAt(t, sub, at(a)) /\ red[a] \in Nat
  <2>1. at(a) \in Nat
    BY <1>2
  <2>2. NameAt(t, sub, at(a)) \in Nat
    BY <2>1, NewNamesFinite
  <2> QED BY <2>2
<1>4. red \in [1 .. K -> Nat]
  BY <1>3
<1> HIDE DEF red
<1>5. ASSUME NEW a \in 1 .. K, NEW b \in 1 .. K, red[a] < red[b] PROVE SubLess(t, n, app[a], app[b])
  <2>1. PICK x \in 1 .. K : x = at(a) /\ sub[x] = app[a] /\ red[a] = NameAt(t, sub, x)
    BY <1>2, <1>3
  <2>2. PICK y \in 1 .. K : y = at(b) /\ sub[y] = app[b] /\ red[b] = NameAt(t, sub, y)
    BY <1>2, <1>3
  <2>3. red[a] \in Nat /\ red[b] \in Nat /\ x \in Nat /\ y \in Nat /\ x >= 1 /\ y >= 1
    BY <1>3
  <2>4. ~ (y <= x)
    <3> SUFFICES ASSUME y <= x PROVE FALSE
      OBVIOUS
    <3>1. NameAt(t, sub, y) <= NameAt(t, sub, x)
      BY <2>3, NamesGrow
    <3> QED BY <1>5, <2>1, <2>2, <2>3, <3>1
  <2>5. x < y /\ NameAt(t, sub, x) # NameAt(t, sub, y)
    BY <1>5, <2>1, <2>2, <2>3, <2>4
  <2>6. SubLess(t, n, sub[x], sub[y])
    BY <2>5, NamesLess
  <2> QED BY <2>1, <2>2, <2>6
<1>6. ASSUME NEW a \in 1 .. K, NEW b \in 1 .. K, red[a] = red[b], a # b PROVE SameLMSSubstring(t, app[a], app[b])
  <2>1. PICK x \in 1 .. K : x = at(a) /\ sub[x] = app[a] /\ red[a] = NameAt(t, sub, x)
    BY <1>2, <1>3
  <2>2. PICK y \in 1 .. K : y = at(b) /\ sub[y] = app[b] /\ red[b] = NameAt(t, sub, y)
    BY <1>2, <1>3
  <2>3. app[a] # app[b]
    BY <1>6 DEF ListsLMS, app
  <2>4. x # y /\ NameAt(t, sub, x) = NameAt(t, sub, y)
    BY <1>6, <2>1, <2>2, <2>3
  <2>5. CASE x < y
    <3>1. SameLMSSubstring(t, sub[x], sub[y])
      BY <2>4, <2>5, NamesSame
    <3> QED BY <2>1, <2>2, <3>1
  <2>6. CASE y < x
    <3>1. SameLMSSubstring(t, sub[y], sub[x])
      BY <2>4, <2>6, NamesSame
    <3>2. SameLMSSubstring(t, sub[x], sub[y])
      <4>1. PICK len : Same(t, sub[y], sub[x], len)
        BY <3>1, SameIs
      <4>2. n \in Nat /\ Len(t) = n /\ sub[x] \in 1 .. n /\ sub[y] \in 1 .. n
        BY DEF TextOf, ListsLMS
      <4>3. Same(t, sub[x], sub[y], len)
        BY <4>1, <4>2 DEF Same
      <4> QED BY <4>3, SameIs
    <3> QED BY <2>1, <2>2, <3>2
  <2>7. x < y \/ y < x
    BY <2>3, <2>4
  <2> QED BY <2>5, <2>6, <2>7
<1>7. NamesOf(t, n, app, K, red)
  BY <1>4, <1>5, <1>6 DEF NamesOf
<1> QED BY <1>1, <1>7 DEF app

\* The LMS positions from left to right.
Increases(app, K) == \A a, b \in 1 .. K : a < b => app[a] < app[b]

\* The last one is the last of the text, the next one ends the LMS substring.
LEMMA LastLMS ==
  ASSUME NEW n, NEW t, TextOf(t, n), n > 1, NEW app, NEW K, ListsLMS(t, n, app, K), Increases(app, K)
  PROVE  IsLMS(t, n) /\ K >= 1 /\ K < n /\ app[K] = n
<1>1. n \in Nat /\ K \in Nat
  BY DEF TextOf, ListsLMS
<1>2. n - 1 \in 1 .. n - 1 /\ n - 1 \in 1 .. n /\ n \in 1 .. n /\ (n - 1) + 1 = n /\ n - 1 # n
  BY <1>1
<1>3. t[n] < t[n - 1]
  <2>1. t[n] \in Nat /\ t[n - 1] \in Nat /\ t[n] <= t[n - 1] /\ t[n - 1] # t[n]
    BY <1>2 DEF TextOf
  <2> QED BY <2>1
<1>4. IsLMS(t, n)
  <2>1. ~ SType(t, n - 1)
    BY <1>2, <1>3, TypeStep
  <2> QED BY <2>1, TypeLast DEF IsLMS
<1>5. PICK b \in 1 .. K : app[b] = n
  BY <1>2, <1>4 DEF ListsLMS
<1>6. K \in 1 .. K /\ K >= 1
  BY <1>1, <1>5
<1>7. app[K] \in 1 .. n
  BY <1>6 DEF ListsLMS
<1>8. b = K
  <2>1. b < K => app[b] < app[K]
    BY <1>6 DEF Increases
  <2> QED BY <1>1, <1>5, <1>7, <2>1
<1>9. K < n
  <2> DEFINE all == {p \in 1 .. n : IsLMS(t, p)}
  <2>1. Cardinality(all) = K
    BY <1>1, ListsSameLength
  <2>2. all \subseteq 2 .. n
    BY <1>1 DEF IsLMS
  <2> HIDE DEF all
  <2>3. IsFiniteSet(2 .. n) /\ Cardinality(2 .. n) = n - 1
    <3>1. IsFiniteSet(2 .. n) /\ Cardinality(2 .. n) = (IF 2 > n THEN 0 ELSE n - 2 + 1)
      BY <1>1, FS_Interval
    <3> QED BY <1>1, <3>1
  <2>4. Cardinality(all) <= Cardinality(2 .. n)
    BY <2>2, <2>3, FS_Subset
  <2> QED BY <1>1, <2>1, <2>3, <2>4
<1> QED BY <1>4, <1>5, <1>6, <1>8, <1>9

\* The LMS substring ends where the next position of the list is.
LEMMA NextLMS ==
  ASSUME NEW n, NEW t, TextOf(t, n), NEW app, NEW K, ListsLMS(t, n, app, K), Increases(app, K),
         NEW a \in 1 .. K, NEW len \in Nat, len >= 1, app[a] + len <= n, IsLMS(t, app[a] + len),
         \A d \in 1 .. len - 1 : ~ IsLMS(t, app[a] + d)
  PROVE  a + 1 \in 1 .. K /\ app[a + 1] = app[a] + len
<1>1. n \in Nat /\ K \in Nat /\ app[a] \in 1 .. n
  BY DEF TextOf, ListsLMS
<1>2. app[a] + len \in 1 .. n
  BY <1>1
<1>3. PICK c \in 1 .. K : app[c] = app[a] + len
  BY <1>2 DEF ListsLMS
<1>4. a < c
  <2>1. c < a => app[c] < app[a]
    BY DEF Increases
  <2>2. c # a
    BY <1>1, <1>3
  <2> QED BY <1>1, <1>3, <2>1, <2>2
<1>5. a + 1 \in 1 .. K
  BY <1>1, <1>4
<1>6. c = a + 1
  <2> SUFFICES ASSUME c # a + 1 PROVE FALSE
    OBVIOUS
  <2>1. a + 1 < c /\ a < a + 1
    BY <1>4
  <2>2. app[a] < app[a + 1] /\ app[a + 1] < app[c]
    BY <1>5, <2>1 DEF Increases
  <2>3. app[a + 1] \in 1 .. n /\ IsLMS(t, app[a + 1])
    BY <1>5 DEF ListsLMS
  <2>4. app[a + 1] - app[a] \in 1 .. len - 1 /\ app[a] + (app[a + 1] - app[a]) = app[a + 1]
    BY <1>1, <1>3, <2>2, <2>3
  <2>5. ~ IsLMS(t, app[a] + (app[a + 1] - app[a]))
    BY <2>4
  <2> QED BY <2>3, <2>4, <2>5
<1> QED BY <1>3, <1>5, <1>6

\* The order of the suffixes of the names is that of the suffixes they stand for.
LEMMA ReducedOrder ==
  ASSUME NEW n, NEW t, TextOf(t, n), NEW app, NEW K, ListsLMS(t, n, app, K), Increases(app, K),
         NEW red, NamesOf(t, n, app, K, red),
         NEW a \in 1 .. K, NEW b \in 1 .. K, NEW d \in Nat, Differ(red, K, a, b, d)
  PROVE  Before(t, app[a], app[b])
<1>1. n \in Nat /\ K \in Nat /\ Len(t) = n /\ t \in [1 .. n -> Int]
  BY DEF TextOf, ListsLMS
<1> DEFINE T == {e \in 0 .. d : \A x, y \in 1 .. K : Differ(red, K, x, y, e) => Before(t, app[x], app[y])}
<1>2. 0 \in T
  <2> SUFFICES ASSUME NEW x \in 1 .. K, NEW y \in 1 .. K, Differ(red, K, x, y, 0) PROVE Before(t, app[x], app[y])
    OBVIOUS
  <2>1. x + 0 = x /\ y + 0 = y
    BY <1>1
  <2>2. red[x] < red[y]
    BY <2>1 DEF Differ
  <2>3. SubLess(t, n, app[x], app[y])
    BY <2>2 DEF NamesOf
  <2>4. app[x] \in 1 .. n /\ app[y] \in 1 .. n
    BY DEF ListsLMS
  <2> QED BY <2>3, <2>4, SubLessBefore
<1>3. ASSUME NEW e \in 1 .. d, e - 1 \in T PROVE e \in T
  <2> SUFFICES ASSUME NEW x \in 1 .. K, NEW y \in 1 .. K, Differ(red, K, x, y, e) PROVE Before(t, app[x], app[y])
    OBVIOUS
  <2>0. e \in Nat /\ e >= 1 /\ e - 1 \in Nat
    OBVIOUS
  <2>1. /\ x + e <= K /\ y + e <= K /\ red[x + e] < red[y + e]
        /\ \A j \in 0 .. e - 1 : red[x + j] = red[y + j]
    BY DEF Differ
  <2>2. red[x] = red[y]
    <3>1. 0 \in 0 .. e - 1 /\ x + 0 = x /\ y + 0 = y
      BY <1>1, <2>0
    <3>2. red[x + 0] = red[y + 0]
      BY <2>1, <3>1
    <3> QED BY <3>1, <3>2
  <2>3. x # y
    <3> SUFFICES ASSUME x = y PROVE FALSE
      OBVIOUS
    <3>1. x + e \in 1 .. K
      BY <1>1, <2>0, <2>1
    <3>2. red[x + e] \in Nat
      BY <3>1 DEF NamesOf
    <3> QED BY <2>1, <3>2
  <2>4. app[x] \in 1 .. n /\ app[y] \in 1 .. n
    BY DEF ListsLMS
  <2>5. SameLMSSubstring(t, app[x], app[y])
    BY <2>2, <2>3 DEF NamesOf
  <2>6. PICK len : Same(t, app[x], app[y], len)
    BY <2>5, SameIs
  <2>7. /\ len \in Nat /\ len >= 1 /\ app[x] + len <= n /\ app[y] + len <= n
        /\ IsLMS(t, app[x] + len) /\ IsLMS(t, app[y] + len)
    BY <1>1, <2>4, <2>6 DEF Same
  <2>8. /\ \A j \in 0 .. len - 1 : t[app[x] + j] = t[app[y] + j]
        /\ \A j \in 1 .. len - 1 : ~ IsLMS(t, app[x] + j)
        /\ \A j \in 1 .. len - 1 : ~ IsLMS(t, app[y] + j)
    BY <2>6 DEF Same
  <2>9. x + 1 \in 1 .. K /\ app[x + 1] = app[x] + len
    BY <2>7, <2>8, NextLMS
  <2>10. y + 1 \in 1 .. K /\ app[y + 1] = app[y] + len
    BY <2>7, <2>8, NextLMS
  <2>11. Differ(red, K, x + 1, y + 1, e - 1)
    <3>1. (x + 1) + (e - 1) = x + e /\ (y + 1) + (e - 1) = y + e
      BY <1>1, <2>0
    <3>2. ASSUME NEW j \in 0 .. (e - 1) - 1 PROVE red[(x + 1) + j] = red[(y + 1) + j]
      <4>1. j + 1 \in 0 .. e - 1 /\ (x + 1) + j = x + (j + 1) /\ (y + 1) + j = y + (j + 1)
        BY <1>1, <2>0
      <4> QED BY <2>1, <4>1
    <3> QED BY <2>1, <3>1, <3>2 DEF Differ
  <2>12. Before(t, app[x + 1], app[y + 1])
    BY <1>3, <2>9, <2>10, <2>11
  <2>13. Before(t, app[x] + len, app[y] + len)
    BY <2>9, <2>10, <2>12
  <2> QED BY <1>1, <2>4, <2>7, <2>8, <2>13, BeforePrefix
<1>4. d \in T
  <2> HIDE DEF T
  <2>1. \A e \in 0 .. d : e \in T
    BY <1>2, <1>3, Climb
  <2> QED BY <2>1
<1> QED BY <1>4

\* The string of names is a text again.
LEMMA ReducedText ==
  ASSUME NEW n, NEW t, TextOf(t, n), n > 1, NEW app, NEW K, ListsLMS(t, n, app, K), Increases(app, K),
         NEW red, NamesOf(t, n, app, K, red)
  PROVE  IsText(red) /\ Len(red) = K /\ red \in Seq(Nat)
<1>1. n \in Nat /\ K \in Nat /\ Len(t) = n
  BY DEF TextOf, ListsLMS
<1>2. red \in Seq(Nat) /\ Len(red) = K
  <2>1. red \in [1 .. K -> Nat]
    BY DEF NamesOf
  <2> QED BY <1>1, <2>1, FunctionIsSeq
<1>3. K >= 1 /\ K \in 1 .. K /\ app[K] = n
  BY <1>1, LastLMS
<1>4. ASSUME NEW a \in 1 .. K - 1 PROVE red[K] < red[a]
  <2>1. a \in 1 .. K /\ a # K
    BY <1>1
  <2>2. red[a] \in Nat /\ red[K] \in Nat
    BY <1>3, <2>1 DEF NamesOf
  <2>3. app[a] \in 1 .. n /\ n \in 1 .. n
    BY <1>1, <1>3, <2>1 DEF ListsLMS
  <2>4. red[a] # red[K]
    <3> SUFFICES ASSUME red[a] = red[K] PROVE FALSE
      OBVIOUS
    <3>1. SameLMSSubstring(t, app[a], n)
      BY <1>3, <2>1 DEF NamesOf
    <3>2. PICK len : Same(t, app[a], n, len)
      BY <3>1, SameIs
    <3> QED BY <1>1, <2>3, <3>2 DEF Same
  <2>5. ~ (red[a] < red[K])
    <3> SUFFICES ASSUME red[a] < red[K] PROVE FALSE
      OBVIOUS
    <3>1. SubLess(t, n, app[a], n)
      BY <1>3, <2>1 DEF NamesOf
    <3>2. Before(t, app[a], n)
      BY <2>3, <3>1, SubLessBefore
    <3>3. PICK d \in Nat : Differ(t, n, app[a], n, d)
      BY <1>1, <2>3, <3>2, BeforeIs
    <3>4. d = 0 /\ app[a] + 0 = app[a] /\ n + 0 = n
      BY <1>1, <2>3, <3>3 DEF Differ
    <3>5. t[app[a]] < t[n]
      BY <3>3, <3>4 DEF Differ
    <3>6. t[n] <= t[app[a]] /\ t[n] \in Nat /\ t[app[a]] \in Nat
      BY <2>3 DEF TextOf
    <3> QED BY <3>5, <3>6
  <2> QED BY <2>2, <2>4, <2>5
<1> QED BY <1>2, <1>3, <1>4 DEF IsText

\* All suffixes, in their order.
SuffixesIn(t, n, sa) == Permutes(n, sa) /\ \A s, u \in 1 .. n : s < u => Before(t, sa[s], sa[u])

\* The list of the LMS positions from left to right.
LEMMA AppearanceIs ==
  ASSUME NEW n, NEW t, TextOf(t, n)
  PROVE  /\ Appearance(t) \in Seq(1 .. n)
         /\ ListsLMS(t, n, Appearance(t), Len(Appearance(t)))
         /\ Increases(Appearance(t), Len(Appearance(t)))
<1> DEFINE list == [p \in 1 .. n |-> p]
           app == LMSAmong(t, list)
<1>1. n \in Nat /\ DOMAIN t = 1 .. n
  BY DEF TextOf
<1>2. Appearance(t) = app
  BY <1>1 DEF Appearance
<1>3. list \in [1 .. n -> 1 .. n] /\ \A p \in 1 .. n : list[p] = p
  OBVIOUS
<1>4. Permutes(n, list)
  BY <1>3 DEF Permutes
<1> HIDE DEF list
<1>5. list \in Seq(1 .. n) /\ Len(list) = n
  BY <1>1, <1>3, FunctionIsSeq
<1>6. app \in Seq(1 .. n) /\ \E idx : Picks(t, list, Len(list), app, idx)
  BY <1>5, LMSAmongIs
<1>7. PICK idx : Picks(t, list, n, app, idx)
  BY <1>5, <1>6
<1> HIDE DEF app
<1>8. ListsLMS(t, n, app, Len(app))
  BY <1>1, <1>4, <1>6, <1>7, PicksList
<1>9. Increases(app, Len(app))
  <2> SUFFICES ASSUME NEW a \in 1 .. Len(app), NEW b \in 1 .. Len(app), a < b PROVE app[a] < app[b]
    BY DEF Increases
  <2>1. idx[a] \in 1 .. n /\ idx[b] \in 1 .. n /\ app[a] = list[idx[a]] /\ app[b] = list[idx[b]] /\ idx[a] < idx[b]
    BY <1>7 DEF Picks
  <2> QED BY <1>3, <2>1
<1> QED BY <1>2, <1>6, <1>8, <1>9

\* The list of the LMS positions by their substrings.
LEMMA BySubstringIs ==
  ASSUME NEW n, NEW t, TextOf(t, n), n > 1
  PROVE  /\ BySubstring(t) \in Seq(1 .. n) /\ Len(BySubstring(t)) = Len(Appearance(t))
         /\ ListsLMS(t, n, BySubstring(t), Len(BySubstring(t)))
         /\ SubSorted(t, n, BySubstring(t), Len(BySubstring(t)))
<1> DEFINE app == Appearance(t)
           K == Len(app)
           sa == InducedSort(t, app)
           sub == LMSAmong(t, sa)
<1>1. n \in Nat /\ Len(t) = n
  BY DEF TextOf
<1>2. BySubstring(t) = sub
  BY DEF BySubstring
<1>3. ListsLMS(t, n, app, K)
  BY AppearanceIs
<1> HIDE DEF app
<1>4. Induced(t, n, app, K, sa)
  BY <1>1, <1>3, InducedSortIs
<1> HIDE DEF sa, K
<1>5. Permutes(n, sa) /\ sa \in [1 .. n -> 1 .. n]
  BY <1>4 DEF Induced, Permutes
<1>6. sa \in Seq(1 .. n) /\ Len(sa) = n
  BY <1>1, <1>5, FunctionIsSeq
<1>7. sub \in Seq(1 .. n) /\ \E idx : Picks(t, sa, Len(sa), sub, idx)
  BY <1>6, LMSAmongIs
<1>8. PICK idx : Picks(t, sa, n, sub, idx)
  BY <1>6, <1>7
<1> HIDE DEF sub
<1>9. ListsLMS(t, n, sub, Len(sub))
  BY <1>1, <1>5, <1>7, <1>8, PicksList
<1>10. Len(sub) = K
  <2>1. Cardinality({p \in 1 .. n : IsLMS(t, p)}) = Len(sub)
    BY <1>1, <1>9, ListsSameLength
  <2>2. Cardinality({p \in 1 .. n : IsLMS(t, p)}) = K
    BY <1>1, <1>3, ListsSameLength
  <2> QED BY <2>1, <2>2
<1>11. SubSorted(t, n, sub, Len(sub))
  <2> SUFFICES ASSUME NEW a \in 1 .. Len(sub), NEW b \in 1 .. Len(sub), a < b PROVE ~ SubLess(t, n, sub[b], sub[a])
    BY DEF SubSorted
  <2>1. idx[a] \in 1 .. n /\ idx[b] \in 1 .. n /\ sub[a] = sa[idx[a]] /\ sub[b] = sa[idx[b]] /\ idx[a] < idx[b]
    BY <1>8 DEF Picks
  <2>2. ~ SubLess(t, n, sa[idx[b]], sa[idx[a]])
    BY <1>3, <1>4, <2>1, SubstringsSorted
  <2> QED BY <2>1, <2>2
<1> QED BY <1>2, <1>7, <1>9, <1>10, <1>11 DEF app, K

\* The order of the suffixes of the names, in terms of the suffixes they stand for.
LEMMA OrderByNames ==
  ASSUME NEW n, NEW t, TextOf(t, n), NEW app, NEW K, ListsLMS(t, n, app, K), Increases(app, K),
         NEW red, NamesOf(t, n, app, K, red), Len(red) = K, NEW rsa, SuffixesIn(red, K, rsa),
         NEW order, order = [a \in 1 .. K |-> app[rsa[a]]]
  PROVE  ListsLMS(t, n, order, K) /\ ListSorted(t, order, K)
<1>1. K \in Nat
  BY DEF ListsLMS
<1>2. \A a \in 1 .. K : order[a] = app[rsa[a]] /\ rsa[a] \in 1 .. K
  BY DEF SuffixesIn, Permutes
<1>3. ASSUME NEW a \in 1 .. K, NEW b \in 1 .. K, order[a] = order[b] PROVE a = b
  <2>1. rsa[a] = rsa[b]
    BY <1>2, <1>3 DEF ListsLMS
  <2> QED BY <2>1 DEF SuffixesIn, Permutes
<1>4. ASSUME NEW p \in 1 .. n, IsLMS(t, p) PROVE \E b \in 1 .. K : order[b] = p
  <2>1. PICK c \in 1 .. K : app[c] = p
    BY <1>4 DEF ListsLMS
  <2>2. PICK b \in 1 .. K : rsa[b] = c
    BY DEF SuffixesIn, Permutes
  <2> QED BY <1>2, <2>1, <2>2
<1>5. \A b \in 1 .. K : order[b] \in 1 .. n /\ IsLMS(t, order[b])
  BY <1>2 DEF ListsLMS
<1>6. ListsLMS(t, n, order, K)
  BY <1>1, <1>3, <1>4, <1>5 DEF ListsLMS
<1>7. ListSorted(t, order, K)
  <2> SUFFICES ASSUME NEW b \in 1 .. K, NEW e \in 1 .. K, b < e PROVE Before(t, order[b], order[e])
    BY DEF ListSorted
  <2>1. Before(red, rsa[b], rsa[e])
    BY DEF SuffixesIn
  <2>2. rsa[b] \in 1 .. K /\ rsa[e] \in 1 .. K
    BY <1>2
  <2>3. PICK d \in Nat : Differ(red, K, rsa[b], rsa[e], d)
    BY <1>1, <2>1, <2>2, BeforeIs
  <2>4. Before(t, app[rsa[b]], app[rsa[e]])
    BY <2>2, <2>3, ReducedOrder
  <2> QED BY <1>2, <2>4
<1> QED BY <1>6, <1>7

\* One level of the recursion, given the levels below it.
SaisLevel(depth, t, below) ==
  IF depth = 0 \/ Len(t) <= 1 THEN [p \in DOMAIN t |-> p]
  ELSE LET sorted == BySubstring(t)
           reduced == below[Reduced(t, sorted)]
       IN  InducedSort(t, IF NameAt(t, sorted, Len(sorted)) + 1 = Len(Appearance(t))
                          THEN sorted
                          ELSE [a \in DOMAIN Appearance(t) |-> Appearance(t)[reduced[a]]])

\* A level sorts where the one below sorts every shorter text.
LEMMA SaisLevelSorts ==
  ASSUME NEW n, NEW t, TextOf(t, n), NEW depth \in Nat, NEW below,
         depth # 0,
         \A s \in Seq(Nat) : IsText(s) /\ Len(s) < n => SuffixesIn(s, Len(s), below[s])
  PROVE  SuffixesIn(t, n, SaisLevel(depth, t, below))
<1>1. n \in Nat /\ n >= 1 /\ Len(t) = n /\ DOMAIN t = 1 .. n
  BY DEF TextOf
<1>2. CASE n <= 1
  <2> DEFINE sa == [p \in 1 .. n |-> p]
  <2>1. SaisLevel(depth, t, below) = sa
    BY <1>1, <1>2 DEF SaisLevel
  <2>2. sa \in [1 .. n -> 1 .. n] /\ \A p \in 1 .. n : sa[p] = p
    OBVIOUS
  <2>3. Permutes(n, sa)
    BY <2>2 DEF Permutes
  <2>4. \A s, u \in 1 .. n : ~ (s < u)
    BY <1>1, <1>2
  <2> QED BY <2>1, <2>3, <2>4 DEF SuffixesIn
<1>3. CASE n > 1
  <2> DEFINE app == Appearance(t)
             K == Len(app)
             sub == BySubstring(t)
             red == Reduced(t, sub)
             rsa == below[red]
             names == [a \in 1 .. K |-> app[rsa[a]]]
             order == IF NameAt(t, sub, K) + 1 = K THEN sub ELSE names
  <2>1. app \in Seq(1 .. n) /\ ListsLMS(t, n, app, K) /\ Increases(app, K)
    BY AppearanceIs
  <2>2. sub \in Seq(1 .. n) /\ Len(sub) = K /\ ListsLMS(t, n, sub, K) /\ SubSorted(t, n, sub, K)
    BY <1>3, BySubstringIs
  <2>3. DOMAIN app = 1 .. K /\ DOMAIN sub = 1 .. K /\ K \in Nat
    BY <2>1, <2>2
  <2>4. SaisLevel(depth, t, below) = InducedSort(t, order)
    <3>1. ~ (depth = 0 \/ Len(t) <= 1)
      BY <1>1, <1>3
    <3>2. Len(sub) = K /\ DOMAIN app = 1 .. K
      BY <2>2, <2>3
    <3> QED BY <3>1, <3>2 DEF SaisLevel
  <2> HIDE DEF K, sub
  <2>5. K >= 1 /\ K < n
    BY <1>3, <2>1, LastLMS
  <2>6. NamesOf(t, n, app, K, red)
    BY <2>1, <2>2, <2>3, ReducedIs
  <2> HIDE DEF app, red
  <2>7. IsText(red) /\ Len(red) = K /\ red \in Seq(Nat)
    BY <1>3, <2>1, <2>6, ReducedText
  <2>8. SuffixesIn(red, K, rsa)
    BY <2>5, <2>7
  <2> HIDE DEF rsa
  <2>9. ListsLMS(t, n, names, K) /\ ListSorted(t, names, K)
    BY <2>1, <2>6, <2>7, <2>8, OrderByNames
  <2>10. NameAt(t, sub, K) + 1 = K => ListSorted(t, sub, K)
    BY <2>2, <2>3, <2>5, NamesAll
  <2>11. names \in [1 .. K -> 1 .. n] /\ Len(names) = K
    <3>1. names \in [1 .. K -> 1 .. n]
      <4>1. \A a \in 1 .. K : names[a] \in 1 .. n
        <5> HIDE DEF names
        <5> QED BY <2>9 DEF ListsLMS
      <4> QED BY <4>1
    <3> HIDE DEF names
    <3> QED BY <2>3, <3>1, FunctionIsSeq
  <2> HIDE DEF names
  <2>12. ListsLMS(t, n, order, K) /\ ListSorted(t, order, K) /\ Len(order) = K
    BY <2>2, <2>9, <2>10, <2>11
  <2> HIDE DEF order
  <2>13. Induced(t, n, order, K, InducedSort(t, order))
    BY <1>1, <1>3, <2>12, InducedSortIs
  <2>14. Permutes(n, InducedSort(t, order))
    BY <2>13 DEF Induced
  <2>15. \A s, u \in 1 .. n : s < u => Before(t, InducedSort(t, order)[s], InducedSort(t, order)[u])
    BY <2>12, <2>13, SuffixesSorted
  <2> QED BY <2>4, <2>14, <2>15 DEF SuffixesIn
<1> QED BY <1>1, <1>2, <1>3

\* SA-IS sorts the suffixes of every text.
THEOREM SaisSorts ==
  ASSUME NEW text, IsText(text)
  PROVE  SuffixesIn(text, Len(text), SAIS(text))
<1> DEFINE n == Len(text)
           Eq(f) == f = [depth \in 0 .. n |-> [t \in Seq(Nat) |-> SaisLevel(depth, t, f[depth - 1])]]
           sais == CHOOSE f : Eq(f)
<1>1. SAIS(text) = sais[n][text]
  BY Zenon DEF SAIS, SaisLevel
<1>2. n \in Nat
  BY DEF IsText
<1> HIDE DEF n
<1>3. \A t, a, b : SaisLevel(0, t, a) = SaisLevel(0, t, b)
  BY DEF SaisLevel
<1>4. \E f : Eq(f)
  <2> DEFINE Level(m, below) == [t \in Seq(Nat) |-> SaisLevel(m, t, below)]
             Upto(m, f) == f = [depth \in 0 .. m |-> Level(depth, f[depth - 1])]
             T == {m \in 0 .. n : \E f : Upto(m, f)}
  <2>0. \A a, b : Level(0, a) = Level(0, b)
    BY <1>3
  <2> HIDE DEF Level
  <2>1. 0 \in T
    <3> DEFINE f == [depth \in 0 .. 0 |-> Level(0, 0)]
    <3>1. f = [depth \in 0 .. 0 |-> Level(depth, f[depth - 1])]
      <4>1. \A depth \in 0 .. 0 : Level(depth, f[depth - 1]) = Level(0, 0)
        <5>1. \A depth \in 0 .. 0 : depth = 0
          OBVIOUS
        <5> HIDE DEF f
        <5> QED BY <2>0, <5>1
      <4> QED BY <4>1
    <3>2. Upto(0, f)
      BY <3>1
    <3> HIDE DEF Upto
    <3> QED BY <1>2, <3>2
  <2>2. ASSUME NEW m \in 1 .. n, m - 1 \in T PROVE m \in T
    <3>1. PICK f : f = [depth \in 0 .. m - 1 |-> Level(depth, f[depth - 1])]
      BY <2>2
    <3> DEFINE top == Level(m, f[m - 1])
               g == [depth \in 0 .. m |-> IF depth = m THEN top ELSE f[depth]]
    <3>2. m \in Nat /\ m >= 1 /\ m \in 0 .. n
      OBVIOUS
    <3>3. ASSUME NEW depth \in 0 .. m PROVE g[depth] = Level(depth, g[depth - 1])
      <4>1. CASE depth = m
        <5>1. m - 1 \in 0 .. m /\ m - 1 # m /\ m \in 0 .. m
          BY <3>2
        <5>2. g[m - 1] = f[m - 1] /\ g[m] = top
          BY <5>1
        <5> QED BY <4>1, <5>2
      <4>2. CASE depth # m /\ depth # 0
        <5>1. depth \in 0 .. m - 1 /\ depth - 1 \in 0 .. m /\ depth - 1 # m
          BY <3>2, <4>2
        <5>2. g[depth] = f[depth] /\ g[depth - 1] = f[depth - 1]
          BY <4>2, <5>1
        <5>3. f[depth] = Level(depth, f[depth - 1])
          <6> HIDE DEF g
          <6> QED BY <3>1, <5>1, Zenon
        <5> QED BY <5>2, <5>3
      <4>3. CASE depth # m /\ depth = 0
        <5>1. 0 \in 0 .. m - 1
          BY <3>2
        <5>2. g[0] = f[0]
          BY <4>3
        <5>3. f[0] = Level(0, f[0 - 1])
          <6> HIDE DEF g
          <6> QED BY <3>1, <5>1, Zenon
        <5> HIDE DEF g
        <5> QED BY <2>0, <4>3, <5>2, <5>3
      <4> QED BY <4>1, <4>2, <4>3
    <3>4. g = [depth \in 0 .. m |-> Level(depth, g[depth - 1])]
      <4> DEFINE h == [depth \in 0 .. m |-> Level(depth, g[depth - 1])]
      <4>1. \A depth \in 0 .. m : h[depth] = g[depth]
        <5> HIDE DEF g
        <5> QED BY <3>3
      <4>2. g \in [0 .. m -> {g[depth] : depth \in 0 .. m}] /\ DOMAIN g = 0 .. m
        OBVIOUS
      <4>3. DOMAIN h = 0 .. m /\ h = [depth \in 0 .. m |-> h[depth]] /\ g = [depth \in 0 .. m |-> g[depth]]
        OBVIOUS
      <4> HIDE DEF g, h
      <4>4. h = g
        BY <4>1, <4>3
      <4> QED BY <4>4 DEF h
    <3>5. Upto(m, g)
      <4> HIDE DEF g
      <4> QED BY <3>4
    <3> HIDE DEF g, Upto
    <3> QED BY <3>2, <3>5
  <2>3. n \in T
    <3> HIDE DEF T
    <3>1. \A l \in 0 .. n : l \in T
      BY <1>2, <2>1, <2>2, Climb
    <3> QED BY <1>2, <3>1
  <2> QED BY <2>3 DEF Level
<1>5. Eq(sais)
  <2> HIDE DEF Eq
  <2> QED BY <1>4, Zenon
<1> HIDE DEF sais
<1>6. ASSUME NEW depth \in 0 .. n, NEW t \in Seq(Nat) PROVE sais[depth][t] = SaisLevel(depth, t, sais[depth - 1])
  <2>1. sais = [d \in 0 .. n |-> [x \in Seq(Nat) |-> SaisLevel(d, x, sais[d - 1])]]
    BY <1>5
  <2>2. sais[depth] = [x \in Seq(Nat) |-> SaisLevel(depth, x, sais[depth - 1])]
    BY <2>1, Zenon
  <2> QED BY <2>2
<1> DEFINE S == {m \in 0 .. n : \A t \in Seq(Nat) : IsText(t) /\ Len(t) <= m => SuffixesIn(t, Len(t), sais[m][t])}
<1>7. 0 \in S
  <2>1. \A t : IsText(t) => ~ (Len(t) <= 0)
    BY DEF IsText
  <2> QED BY <1>2, <2>1
<1>8. ASSUME NEW m \in 1 .. n, m - 1 \in S PROVE m \in S
  <2> SUFFICES ASSUME NEW t \in Seq(Nat), IsText(t), Len(t) <= m PROVE SuffixesIn(t, Len(t), sais[m][t])
    BY <1>2
  <2>1. m \in Nat /\ m # 0 /\ m \in 0 .. n
    BY <1>2
  <2>2. ASSUME NEW s \in Seq(Nat), IsText(s), Len(s) < Len(t) PROVE SuffixesIn(s, Len(s), sais[m - 1][s])
    <3>1. Len(s) \in Nat /\ Len(t) \in Nat
      OBVIOUS
    <3>2. Len(s) <= m - 1
      BY <2>1, <2>2, <3>1
    <3> QED BY <1>8, <2>2, <3>2
  <2>3. SuffixesIn(t, Len(t), SaisLevel(m, t, sais[m - 1]))
    <3>1. TextOf(t, Len(t))
      BY TextIs
    <3> HIDE DEF S
    <3> QED BY <2>1, <2>2, <3>1, SaisLevelSorts
  <2> QED BY <1>6, <2>1, <2>3
<1>9. n \in S
  <2> HIDE DEF S
  <2>1. \A m \in 0 .. n : m \in S
    BY <1>2, <1>7, <1>8, Climb
  <2> QED BY <1>2, <2>1
<1>10. text \in Seq(Nat) /\ n <= n /\ Len(text) = n
  BY <1>2 DEF IsText, n
<1> QED BY <1>1, <1>9, <1>10

-----------------------------------------------------------------------------
(***************************************************************************)
(* Prefix doubling: the ranks after z symbols, from those after half as    *)
(* many, and the same array in the end.                                    *)
(***************************************************************************)

\* The suffixes differ in their first z symbols, and the one at p is smaller.
Within(t, n, p, q, z) == \E d \in Nat : d < z /\ Differ(t, n, p, q, d)

\* Ranks that tell suffixes apart by their first z symbols.
RanksBy(t, n, rank, z) ==
  /\ z \in Nat /\ z >= 1 /\ rank \in [1 .. n -> Nat]
  /\ \A p, q \in 1 .. n : rank[p] < rank[q] <=> Within(t, n, p, q, z)

\* The symbols are ranks by one symbol.
LEMMA FirstRanks ==
  ASSUME NEW n, NEW t, TextOf(t, n)
  PROVE  RanksBy(t, n, t, 1)
<1>1. ASSUME NEW p \in 1 .. n, NEW q \in 1 .. n PROVE t[p] < t[q] <=> Within(t, n, p, q, 1)
  <2>0. n \in Nat /\ p + 0 = p /\ q + 0 = q /\ p <= n /\ q <= n
    BY DEF TextOf
  <2>1. Differ(t, n, p, q, 0) <=> t[p] < t[q]
    BY <2>0 DEF Differ
  <2>2. \A d \in Nat : d < 1 <=> d = 0
    OBVIOUS
  <2> QED BY <2>1, <2>2 DEF Within
<1>2. 1 \in Nat /\ 1 >= 1 /\ t \in [1 .. n -> Nat]
  BY DEF TextOf
<1> QED BY <1>1, <1>2 DEF RanksBy

\* Pairs of ranks compare as twice as many symbols.
LEMMA KeysCompare ==
  ASSUME NEW n, NEW t, TextOf(t, n), NEW rank, NEW z, RanksBy(t, n, rank, z), Len(rank) = n,
         NEW p \in 1 .. n, NEW q \in 1 .. n
  PROVE  KeyLess(KeyOf(rank, z, p), KeyOf(rank, z, q)) <=> Within(t, n, p, q, 2 * z)
<1>1. n \in Nat /\ z \in Nat /\ z >= 1 /\ Len(t) = n /\ t \in [1 .. n -> Int]
  BY DEF TextOf, RanksBy
<1>2. rank[p] \in Nat /\ rank[q] \in Nat
  BY DEF RanksBy
<1>3. KeyLess(KeyOf(rank, z, p), KeyOf(rank, z, q)) <=>
        \/ rank[p] < rank[q]
        \/ rank[p] = rank[q] /\ (IF p + z <= n THEN rank[p + z] ELSE -1) < (IF q + z <= n THEN rank[q + z] ELSE -1)
  BY DEF KeyLess, KeyOf
<1>4. rank[p] < rank[q] => Within(t, n, p, q, 2 * z)
  <2> SUFFICES ASSUME rank[p] < rank[q] PROVE Within(t, n, p, q, 2 * z)
    OBVIOUS
  <2>1. PICK d \in Nat : d < z /\ Differ(t, n, p, q, d)
    BY DEF RanksBy, Within
  <2>2. d < 2 * z
    BY <1>1, <2>1
  <2> QED BY <2>1, <2>2 DEF Within
<1>5. rank[q] < rank[p] => ~ Within(t, n, p, q, 2 * z)
  <2> SUFFICES ASSUME rank[q] < rank[p], Within(t, n, p, q, 2 * z) PROVE FALSE
    OBVIOUS
  <2>1. PICK d \in Nat : Differ(t, n, q, p, d)
    BY DEF RanksBy, Within
  <2>2. PICK e \in Nat : Differ(t, n, p, q, e)
    BY DEF Within
  <2>3. Before(t, q, p) /\ Before(t, p, q)
    BY <1>1, <2>1, <2>2, BeforeIs
  <2> QED BY <1>1, <2>3, BeforeNotBoth
<1>6. CASE rank[p] = rank[q] /\ p = q
  <2>1. ~ Within(t, n, p, q, 2 * z)
    <3> SUFFICES ASSUME Within(t, n, p, p, 2 * z) PROVE FALSE
      BY <1>6
    <3>1. PICK d \in Nat : Differ(t, n, p, p, d)
      BY DEF Within
    <3>2. p + d \in 1 .. n
      BY <1>1, <3>1 DEF Differ
    <3>3. t[p + d] \in Int /\ t[p + d] < t[p + d]
      BY <1>1, <3>1, <3>2 DEF Differ
    <3> QED BY <3>3
  <2>2. ~ ((IF p + z <= n THEN rank[p + z] ELSE -1) < (IF p + z <= n THEN rank[p + z] ELSE -1))
    <3>1. p + z <= n => rank[p + z] \in Nat
      <4>1. p + z <= n => p + z \in 1 .. n
        BY <1>1
      <4> QED BY <4>1 DEF RanksBy
    <3> QED BY <3>1
  <2> QED BY <1>2, <1>3, <1>6, <2>1, <2>2
<1>7. CASE rank[p] = rank[q] /\ p # q
  <2>1. \A d \in Nat : d < z => ~ Differ(t, n, p, q, d) /\ ~ Differ(t, n, q, p, d)
    BY <1>2, <1>7 DEF RanksBy, Within
  <2>2. PICK e \in Nat : p + e <= n /\ q + e <= n
                          /\ (Differ(t, n, p, q, e) \/ Differ(t, n, q, p, e))
    <3>1. Before(t, p, q) \/ Before(t, q, p)
      BY <1>7, TextTotal
    <3>2. \E d \in Nat : Differ(t, n, p, q, d) \/ Differ(t, n, q, p, d)
      BY <1>1, <3>1, BeforeIs
    <3> QED BY <3>2 DEF Differ
  <2>3. z <= e
    BY <1>1, <2>1, <2>2
  <2>4. \A j \in 0 .. z - 1 : t[p + j] = t[q + j]
    <3>1. \A j \in 0 .. e - 1 : t[p + j] = t[q + j]
      BY <2>2 DEF Differ
    <3>2. \A j \in 0 .. z - 1 : j \in 0 .. e - 1
      BY <1>1, <2>3
    <3> QED BY <3>1, <3>2
  <2>5. p + z \in 1 .. n /\ q + z \in 1 .. n
    BY <1>1, <2>2, <2>3
  <2>6. rank[p + z] < rank[q + z] <=> Within(t, n, p + z, q + z, z)
    BY <2>5 DEF RanksBy
  <2>7. Within(t, n, p + z, q + z, z) => Within(t, n, p, q, 2 * z)
    <3>0. SUFFICES ASSUME NEW d \in Nat, d < z, Differ(t, n, p + z, q + z, d) PROVE Within(t, n, p, q, 2 * z)
      BY DEF Within
    <3>1. z + d \in Nat /\ z + d < 2 * z /\ p + (z + d) = (p + z) + d /\ q + (z + d) = (q + z) + d
      BY <1>1, <3>0
    <3>2. ASSUME NEW j \in 0 .. (z + d) - 1 PROVE t[p + j] = t[q + j]
      <4>1. CASE j \in 0 .. z - 1
        BY <2>4, <4>1
      <4>2. CASE j \notin 0 .. z - 1
        <5>1. j - z \in 0 .. d - 1 /\ (p + z) + (j - z) = p + j /\ (q + z) + (j - z) = q + j
          BY <1>1, <4>2
        <5>2. \A u \in 0 .. d - 1 : t[(p + z) + u] = t[(q + z) + u]
          BY <3>0 DEF Differ
        <5>3. t[(p + z) + (j - z)] = t[(q + z) + (j - z)]
          BY <5>1, <5>2
        <5> QED BY <5>1, <5>3
      <4> QED BY <4>1, <4>2
    <3>3. Differ(t, n, p, q, z + d)
      BY <3>0, <3>1, <3>2 DEF Differ
    <3> QED BY <3>1, <3>3 DEF Within
  <2>8. Within(t, n, p, q, 2 * z) => Within(t, n, p + z, q + z, z)
    <3>0. SUFFICES ASSUME NEW d \in Nat, d < 2 * z, Differ(t, n, p, q, d) PROVE Within(t, n, p + z, q + z, z)
      BY DEF Within
    <3>1. z <= d
      BY <1>1, <2>1, <3>0
    <3>2. d - z \in Nat /\ d - z < z /\ (p + z) + (d - z) = p + d /\ (q + z) + (d - z) = q + d
      BY <1>1, <3>0, <3>1
    <3>3. ASSUME NEW j \in 0 .. (d - z) - 1 PROVE t[(p + z) + j] = t[(q + z) + j]
      <4>1. z + j \in 0 .. d - 1 /\ (p + z) + j = p + (z + j) /\ (q + z) + j = q + (z + j)
        BY <1>1
      <4> QED BY <3>0, <4>1 DEF Differ
    <3>4. Differ(t, n, p + z, q + z, d - z)
      BY <3>0, <3>2, <3>3 DEF Differ
    <3> QED BY <3>2, <3>4 DEF Within
  <2> QED BY <1>2, <1>3, <1>7, <2>5, <2>6, <2>7, <2>8
<1> QED BY <1>2, <1>3, <1>4, <1>5, <1>6, <1>7

\* So do the ranks of the next round.
LEMMA DoubledIs ==
  ASSUME NEW n, NEW t, TextOf(t, n), NEW rank, NEW z, RanksBy(t, n, rank, z)
  PROVE  Doubled(rank, z) \in [1 .. n -> Nat] /\ RanksBy(t, n, Doubled(rank, z), 2 * z)
<1> DEFINE key == [p \in 1 .. n |-> KeyOf(rank, z, p)]
           Keys == {KeyOf(rank, z, p) : p \in 1 .. n}
           Below(p) == {x \in Keys : KeyLess(x, KeyOf(rank, z, p))}
           next == [p \in 1 .. n |-> Cardinality(Below(p))]
<1>1. n \in Nat /\ z \in Nat /\ z >= 1 /\ rank \in [1 .. n -> Nat]
  BY DEF TextOf, RanksBy
<1>2. Len(rank) = n
  BY <1>1, FunctionIsSeq
<1>3. IsFiniteSet(Keys)
  <2>1. key \in Surjection(1 .. n, Keys)
    BY DEF Surjection
  <2>2. IsFiniteSet(1 .. n)
    BY <1>1, FS_Interval
  <2> HIDE DEF key, Keys
  <2> QED BY <2>1, <2>2, FS_Surjection
<1>4. ASSUME NEW p \in 1 .. n PROVE IsFiniteSet(Below(p)) /\ Cardinality(Below(p)) \in Nat
  <2>1. Below(p) \subseteq Keys
    OBVIOUS
  <2>2. IsFiniteSet(Below(p))
    <3> HIDE DEF Below, Keys
    <3> QED BY <1>3, <2>1, FS_Subset
  <2> QED BY <2>2, FS_CardinalityType
<1>5. ASSUME NEW p \in 1 .. n PROVE rank[p] \in Nat /\ KeyOf(rank, z, p)[1] \in Int /\ KeyOf(rank, z, p)[2] \in Int
  <2>1. p + z <= n => rank[p + z] \in Nat
    <3>1. p + z <= n => p + z \in 1 .. n
      BY <1>1
    <3> QED BY <1>1, <3>1
  <2> QED BY <1>1, <1>2, <2>1 DEF KeyOf
<1>6. \A x \in Keys : x[1] \in Int /\ x[2] \in Int
  BY <1>5
<1>7. ASSUME NEW p \in 1 .. n, NEW q \in 1 .. n, KeyLess(KeyOf(rank, z, p), KeyOf(rank, z, q))
      PROVE  Cardinality(Below(p)) < Cardinality(Below(q))
  <2>1. KeyOf(rank, z, p) \in Below(q) /\ KeyOf(rank, z, p) \notin Below(p)
    BY <1>5, <1>7 DEF KeyLess
  <2>2. Below(p) \subseteq Below(q)
    BY <1>5, <1>6, <1>7 DEF KeyLess
  <2> HIDE DEF Below, Keys
  <2>3. Below(p) \in SUBSET Below(q) /\ Below(p) # Below(q)
    BY <2>1, <2>2
  <2>4. Cardinality(Below(p)) <= Cardinality(Below(q)) /\ Cardinality(Below(p)) # Cardinality(Below(q))
    BY <1>4, <2>3, FS_Subset
  <2> QED BY <1>4, <2>4
<1>8. ASSUME NEW p \in 1 .. n, NEW q \in 1 .. n, ~ KeyLess(KeyOf(rank, z, p), KeyOf(rank, z, q))
      PROVE  ~ (Cardinality(Below(p)) < Cardinality(Below(q)))
  <2>1. Below(q) \subseteq Below(p)
    <3>1. ASSUME NEW x \in Keys, KeyLess(x, KeyOf(rank, z, q)) PROVE KeyLess(x, KeyOf(rank, z, p))
      BY <1>5, <1>6, <1>8, <3>1 DEF KeyLess
    <3> QED BY <3>1
  <2> HIDE DEF Below, Keys
  <2>2. Cardinality(Below(q)) <= Cardinality(Below(p))
    BY <1>4, <2>1, FS_Subset
  <2> QED BY <1>4, <2>2
<1>9. \A p, q \in 1 .. n : Cardinality(Below(p)) < Cardinality(Below(q)) <=> Within(t, n, p, q, 2 * z)
  <2>1. ASSUME NEW p \in 1 .. n, NEW q \in 1 .. n
        PROVE  KeyLess(KeyOf(rank, z, p), KeyOf(rank, z, q)) <=> Within(t, n, p, q, 2 * z)
    BY <1>2, KeysCompare
  <2> HIDE DEF Below, Keys
  <2> QED BY <1>7, <1>8, <2>1
<1>10. Doubled(rank, z) = <<>> \o next
  BY <1>2 DEF Doubled
<1>11. next \in [1 .. n -> Nat]
  <2> HIDE DEF Below, Keys
  <2> QED BY <1>4
<1>12. <<>> \o next = next
  <2> HIDE DEF next
  <2>1. next \in Seq(Nat)
    BY <1>1, <1>11, FunctionIsSeq
  <2> QED BY <2>1
<1>13. RanksBy(t, n, next, 2 * z)
  <2>1. 2 * z \in Nat /\ 2 * z >= 1
    BY <1>1
  <2>2. \A p \in 1 .. n : next[p] = Cardinality(Below(p))
    OBVIOUS
  <2> HIDE DEF next, Below
  <2>3. \A p, q \in 1 .. n : next[p] < next[q] <=> Within(t, n, p, q, 2 * z)
    BY <1>9, <2>2
  <2> QED BY <1>11, <2>1, <2>3 DEF RanksBy
<1> QED BY <1>10, <1>11, <1>12, <1>13

\* Ranks by enough symbols, or ranks that all differ, order the suffixes.
LEMMA RanksEnough ==
  ASSUME NEW n, NEW t, TextOf(t, n), NEW rank, NEW z, RanksBy(t, n, rank, z),
         z >= n \/ IsInjective(rank), NEW p \in 1 .. n, NEW q \in 1 .. n
  PROVE  rank[p] < rank[q] <=> Before(t, p, q)
<1>1. n \in Nat /\ z \in Nat /\ Len(t) = n /\ t \in [1 .. n -> Int] /\ rank[p] \in Nat /\ rank[q] \in Nat /\ DOMAIN rank = 1 .. n
  BY DEF TextOf, RanksBy
<1>2. rank[p] < rank[q] => Before(t, p, q)
  BY <1>1, BeforeIs DEF RanksBy, Within
<1>3. rank[q] < rank[p] => Before(t, q, p)
  BY <1>1, BeforeIs DEF RanksBy, Within
<1>4. ASSUME Before(t, p, q) PROVE rank[p] < rank[q]
  <2>1. CASE z >= n
    <3>1. PICK d \in Nat : Differ(t, n, p, q, d)
      BY <1>1, <1>4, BeforeIs
    <3>2. d < z
      BY <1>1, <2>1, <3>1 DEF Differ
    <3> QED BY <3>1, <3>2 DEF RanksBy, Within
  <2>2. CASE IsInjective(rank)
    <3>1. ~ Before(t, q, p)
      BY <1>1, <1>4, BeforeNotBoth
    <3>2. p # q
      BY <1>4, <3>1
    <3>3. rank[p] # rank[q]
      BY <1>1, <2>2, <3>2 DEF IsInjective
    <3> QED BY <1>1, <1>3, <3>1, <3>3
  <2> QED BY <2>1, <2>2
<1> QED BY <1>2, <1>4

Slots(n, rank) ==
  [s \in 1 .. n |-> CHOOSE p \in 1 .. n : Cardinality({q \in 1 .. n : rank[q] < rank[p]}) = s - 1]

\* A slot of the suffix array holds the suffix that as many are before.
LEMMA SlotByRank ==
  ASSUME NEW n, NEW t, TextOf(t, n), NEW sa, SuffixesIn(t, n, sa), NEW rank,
         \A p, q \in 1 .. n : rank[p] < rank[q] <=> Before(t, p, q)
  PROVE  Slots(n, rank) = sa
<1> DEFINE Lower(p) == {q \in 1 .. n : rank[q] < rank[p]}
<1>1. n \in Nat /\ Len(t) = n /\ t \in [1 .. n -> Int]
  BY DEF TextOf
<1>2. /\ sa \in [1 .. n -> 1 .. n] /\ \A s, u \in 1 .. n : sa[s] = sa[u] => s = u
      /\ \A p \in 1 .. n : \E s \in 1 .. n : sa[s] = p
      /\ \A s, u \in 1 .. n : s < u => Before(t, sa[s], sa[u])
  BY DEF SuffixesIn, Permutes
<1>3. ASSUME NEW s \in 1 .. n PROVE Cardinality(Lower(sa[s])) = s - 1
  <2> DEFINE g == [u \in 1 .. s - 1 |-> sa[u]]
             L == Lower(sa[s])
  <2>1. ASSUME NEW u \in 1 .. n PROVE sa[u] \in L <=> u < s
    <3>1. u < s => Before(t, sa[u], sa[s])
      BY <1>2
    <3>2. s < u => ~ Before(t, sa[u], sa[s])
      <4>1. s < u => Before(t, sa[s], sa[u])
        BY <1>2
      <4> QED BY <1>1, <1>2, <4>1, BeforeNotBoth
    <3>3. s = u => ~ Before(t, sa[u], sa[s])
      BY <1>1, <1>2, BeforeNotBoth
    <3>4. sa[u] \in 1 .. n /\ sa[s] \in 1 .. n
      BY <1>2
    <3>5. rank[sa[u]] < rank[sa[s]] <=> Before(t, sa[u], sa[s])
      BY <3>4
    <3>6. sa[u] \in L <=> Before(t, sa[u], sa[s])
      BY <3>4, <3>5
    <3> HIDE DEF L
    <3> QED BY <1>1, <3>1, <3>2, <3>3, <3>6
  <2>2. \A u \in 1 .. s - 1 : u \in 1 .. n /\ u < s
    BY <1>1
  <2>3. g \in [1 .. s - 1 -> L]
    <3> HIDE DEF L
    <3> QED BY <2>1, <2>2
  <2>4. ASSUME NEW q \in L PROVE \E u \in 1 .. s - 1 : g[u] = q
    <3>1. q \in 1 .. n
      OBVIOUS
    <3>2. PICK u \in 1 .. n : sa[u] = q
      BY <1>2, <3>1
    <3> HIDE DEF L
    <3>3. u < s
      BY <2>1, <2>4, <3>2
    <3>4. u \in 1 .. s - 1
      BY <1>1, <3>3
    <3> QED BY <3>2, <3>4
  <2>5. \A u, v \in 1 .. s - 1 : g[u] = g[v] => u = v
    BY <1>2, <2>2
  <2> HIDE DEF g, L
  <2>6. ExistsBijection(1 .. s - 1, L)
    BY <2>3, <2>4, <2>5 DEF ExistsBijection, Bijection, Injection, IsInjective, Surjection
  <2>7. s - 1 \in Nat
    OBVIOUS
  <2>8. Cardinality(L) = s - 1
    BY <2>6, <2>7, FS_CountingElements
  <2> QED BY <2>8 DEF L
<1> HIDE DEF Lower
<1>4. ASSUME NEW s \in 1 .. n PROVE (CHOOSE p \in 1 .. n : Cardinality(Lower(p)) = s - 1) = sa[s]
  <2>1. ASSUME NEW p \in 1 .. n, Cardinality(Lower(p)) = s - 1 PROVE p = sa[s]
    <3>1. PICK u \in 1 .. n : sa[u] = p
      BY <1>2
    <3>2. u - 1 = s - 1
      BY <1>3, <2>1, <3>1
    <3>3. u = s
      BY <1>1, <3>2
    <3> QED BY <3>1, <3>3
  <2>2. sa[s] \in 1 .. n /\ Cardinality(Lower(sa[s])) = s - 1
    BY <1>2, <1>3
  <2> QED BY <2>1, <2>2
<1>5. [s \in 1 .. n |-> CHOOSE p \in 1 .. n : Cardinality(Lower(p)) = s - 1] = sa
  BY <1>2, <1>4
<1> QED BY <1>5 DEF Lower, Slots

\* Prefix doubling finds the suffix array.
LEMMA BuildSuffixArrayIs ==
  ASSUME NEW t, IsText(t), NEW sa, SuffixesIn(t, Len(t), sa)
  PROVE  BuildSuffixArray(t) = sa
<1> DEFINE n == Len(t)
           Sorted(r) == r.k >= n \/ (r.k > 1 /\ IsInjective(r.rank))
           Double(r) == IF Sorted(r) THEN r ELSE [k |-> 2 * r.k, rank |-> Doubled(r.rank, r.k)]
           Eq(f) == f = [c \in 0 .. n |-> IF c = 0 THEN [k |-> 1, rank |-> t] ELSE Double(f[c - 1])]
           round == CHOOSE f : Eq(f)
           rank == round[n].rank
<1>1. BuildSuffixArray(t) = Slots(n, rank)
  BY Zenon DEF BuildSuffixArray, Slots
<1>2. TextOf(t, n)
  BY TextIs
<1> HIDE DEF n
<1>3. n \in Nat /\ n >= 1
  BY <1>2 DEF TextOf
<1> DEFINE S == {r \in [k : Nat, rank : [1 .. n -> Nat]] : RanksBy(t, n, r.rank, r.k)}
           c0 == [k |-> 1, rank |-> t]
<1>4. c0 \in S
  <2>1. RanksBy(t, n, t, 1)
    BY <1>2, FirstRanks
  <2> QED BY <2>1 DEF RanksBy
<1>5. ASSUME NEW r \in S PROVE Double(r) \in S
  <2>1. PICK z, g : r = [k |-> z, rank |-> g] /\ z \in Nat /\ g \in [1 .. n -> Nat]
    OBVIOUS
  <2>2. RanksBy(t, n, g, z)
    BY <2>1
  <2>3. Doubled(g, z) \in [1 .. n -> Nat] /\ RanksBy(t, n, Doubled(g, z), 2 * z)
    BY <1>2, <2>2, DoubledIs
  <2>4. 2 * z \in Nat
    BY <2>1
  <2>5. [k |-> 2 * z, rank |-> Doubled(g, z)] \in S
    BY <2>3, <2>4
  <2> QED BY <2>1, <2>5
<1> HIDE DEF Double
<1>6. Eq(round)
  <2> DEFINE G == [y \in (1 .. n) \X S |-> Double(y[2])]
  <2> HIDE DEF S, c0
  <2>1. G \in [(1 .. n) \X S -> S]
    BY <1>5
  <2>2. \A c \in 1 .. n, q \in S : G[<<c, q>>] = Double(q)
    OBVIOUS
  <2> HIDE DEF G
  <2>3. PICK f \in [0 .. n -> S] : Evolves(f, n, c0, G)
    BY <1>3, <1>4, <2>1, Evolution, Zenon
  <2>4. ASSUME NEW c \in 0 .. n
        PROVE  f[c] = IF c = 0 THEN c0 ELSE Double(f[c - 1])
    <3>1. CASE c # 0
      <4>1. c \in 1 .. n /\ c - 1 \in 0 .. n
        BY <1>3, <3>1
      <4>2. f[c - 1] \in S
        BY <2>3, <4>1
      <4>3. f[c] = G[<<c, f[c - 1]>>]
        BY <2>3, <4>1 DEF Evolves
      <4> QED BY <2>2, <3>1, <4>1, <4>2, <4>3, Zenon
    <3> QED BY <2>3, <3>1 DEF Evolves
  <2>5. Eq(f)
    BY <2>3, <2>4 DEF c0
  <2> QED BY <2>5, Zenon
<1> HIDE DEF round
<1> DEFINE T == {c \in 0 .. n : round[c] \in S /\ (Sorted(round[c]) \/ round[c].k > c)}
<1>7. 0 \in T
  <2>1. 0 \in 0 .. n
    BY <1>3
  <2>2. round[0] = c0
    BY <1>6, <2>1, Zenon
  <2>3. c0.k > 0
    OBVIOUS
  <2> HIDE DEF c0, S
  <2> QED BY <1>4, <2>1, <2>2, <2>3
<1>8. ASSUME NEW c \in 1 .. n, c - 1 \in T PROVE c \in T
  <2>1. c \in 0 .. n /\ c # 0 /\ c \in Nat
    BY <1>3
  <2>2. round[c] = Double(round[c - 1])
    BY <1>6, <2>1, Zenon
  <2>3. round[c - 1] \in S /\ (Sorted(round[c - 1]) \/ round[c - 1].k > c - 1)
    BY <1>8
  <2>4. round[c] \in S
    <3> HIDE DEF S
    <3> QED BY <1>5, <2>2, <2>3
  <2>5. CASE Sorted(round[c - 1])
    <3>1. round[c] = round[c - 1]
      BY <2>2, <2>5 DEF Double
    <3> HIDE DEF S, Sorted
    <3> QED BY <2>1, <2>4, <2>5, <3>1
  <2>6. CASE ~ Sorted(round[c - 1])
    <3>1. round[c - 1].k \in Nat /\ round[c - 1].k > c - 1
      BY <2>3, <2>6
    <3>2. round[c].k = 2 * round[c - 1].k
      BY <2>2, <2>6 DEF Double
    <3>3. round[c].k > c
      BY <2>1, <3>1, <3>2
    <3> HIDE DEF S, Sorted
    <3> QED BY <2>1, <2>4, <3>3
  <2> QED BY <2>5, <2>6
<1>9. round[n] \in S /\ Sorted(round[n])
  <2>0. n \in T
    <3> HIDE DEF T
    <3>1. \A c \in 0 .. n : c \in T
      BY <1>3, <1>7, <1>8, Climb
    <3> QED BY <1>3, <3>1
  <2>1. round[n] \in S /\ (Sorted(round[n]) \/ round[n].k > n)
    BY <2>0
  <2>2. round[n].k > n => round[n].k >= n
    <3>1. round[n].k \in Nat
      BY <2>1
    <3> QED BY <1>3, <3>1
  <2> QED BY <2>1, <2>2
<1>10. RanksBy(t, n, rank, round[n].k) /\ (round[n].k >= n \/ IsInjective(rank))
  BY <1>9
<1> HIDE DEF rank
<1>11. \A p, q \in 1 .. n : rank[p] < rank[q] <=> Before(t, p, q)
  BY <1>2, <1>10, RanksEnough
<1>12. SuffixesIn(t, n, sa)
  BY DEF n
<1>13. Slots(n, rank) = sa
  BY <1>2, <1>11, <1>12, SlotByRank
<1> QED BY <1>1, <1>13

\* Both constructions of the suffix array find the same one.
THEOREM SortsAgree ==
  ASSUME NEW t, IsText(t)
  PROVE  BuildSuffixArray(t) = SAIS(t)
BY SaisSorts, BuildSuffixArrayIs

-----------------------------------------------------------------------------
(***************************************************************************)
(* The block transform. The rows are the suffixes in order, and the column *)
(* is the symbols before them: equal symbols are in the order of the       *)
(* suffixes behind them, so that each row tells which row it precedes.     *)
(***************************************************************************)

\* A block and its sentinel are a text.
LEMMA BlockText ==
  ASSUME NEW block \in Seq(Nat)
  PROVE  /\ IsText(Text(block)) /\ Len(Text(block)) = Len(block) + 1
         /\ \A p \in 1 .. Len(block) : Text(block)[p] = block[p] + 1
         /\ Text(block)[Len(block) + 1] = 0
<1> DEFINE m == Len(block)
           up == [p \in DOMAIN block |-> block[p] + 1]
<1>1. m \in Nat /\ DOMAIN block = 1 .. m /\ \A p \in 1 .. m : block[p] \in Nat
  OBVIOUS
<1> HIDE DEF m
<1>2. up \in [1 .. m -> Nat]
  BY <1>1
<1>3. \A p \in 1 .. m : up[p] = block[p] + 1
  BY <1>1
<1>4. Text(block) = Append(up, 0)
  BY DEF Text, Sentinel
<1> HIDE DEF up
<1>5. up \in Seq(Nat) /\ Len(up) = m
  BY <1>1, <1>2, FunctionIsSeq
<1> DEFINE t == Append(up, 0)
<1>6. t \in Seq(Nat) /\ Len(t) = m + 1 /\ t[m + 1] = 0 /\ \A p \in 1 .. m : t[p] = up[p]
  BY <1>5
<1> HIDE DEF t
<1>7. \A p \in 1 .. m : t[m + 1] < t[p]
  BY <1>1, <1>3, <1>6
<1>8. IsText(t)
  <2>1. (m + 1) - 1 = m /\ m + 1 >= 1
    BY <1>1
  <2> QED BY <1>6, <1>7, <2>1 DEF IsText
<1> QED BY <1>3, <1>4, <1>6, <1>8 DEF t, m

\* The suffix one further to the left, from the whole text to the sentinel alone.
Prev(n, p) == IF p = 1 THEN n ELSE p - 1

\* The column of the symbols before the suffixes.
ColumnOf(t, n, sa, column) ==
  /\ column \in [1 .. n -> Nat] /\ Len(column) = n
  /\ \A r \in 1 .. n : column[r] = t[Prev(n, sa[r])]

\* Every position is before one other, the last before the first.
LEMMA PrevIs ==
  ASSUME NEW n \in Nat, n >= 1
  PROVE  /\ \A p \in 1 .. n : Prev(n, p) \in 1 .. n
         /\ \A p, q \in 1 .. n : Prev(n, p) = Prev(n, q) => p = q
         /\ \A p \in 1 .. n : Prev(n, p) # n => p # 1 /\ Prev(n, p) + 1 = p
         /\ \A p \in 1 .. n : Prev(n, p) = n <=> p = 1
BY DEF Prev

\* Rows are in the order of their symbols and, among equals, in the order of the rows.
LEMMA RowsInOrder ==
  ASSUME NEW n, NEW t, TextOf(t, n), NEW sa, SuffixesIn(t, n, sa), NEW column, ColumnOf(t, n, sa, column),
         NEW q \in 1 .. n, NEW r \in 1 .. n,
         column[q] < column[r] \/ (column[q] = column[r] /\ q < r)
  PROVE  Before(t, Prev(n, sa[q]), Prev(n, sa[r]))
<1>1. n \in Nat /\ n >= 1 /\ Len(t) = n /\ t \in [1 .. n -> Int] /\ \A p \in 1 .. n : t[p] = t[n] => p = n
  BY DEF TextOf
<1>2. PICK a \in 1 .. n : a = sa[q]
  BY DEF SuffixesIn, Permutes
<1>3. PICK b \in 1 .. n : b = sa[r]
  BY DEF SuffixesIn, Permutes
<1>4. PICK x \in 1 .. n : x = Prev(n, a) /\ t[x] = column[q]
  BY <1>1, <1>2, PrevIs DEF ColumnOf
<1>5. PICK y \in 1 .. n : y = Prev(n, b) /\ t[y] = column[r]
  BY <1>1, <1>3, PrevIs DEF ColumnOf
<1>6. CASE t[x] < t[y]
  <2>1. x + 0 = x /\ y + 0 = y /\ x <= n /\ y <= n
    BY <1>1
  <2>2. Differ(t, n, x, y, 0)
    BY <1>6, <2>1 DEF Differ
  <2>3. Before(t, x, y)
    BY <1>1, <2>2, BeforeIs
  <2> QED BY <1>2, <1>3, <1>4, <1>5, <2>3
<1>7. CASE t[x] = t[y] /\ q < r
  <2>1. Before(t, a, b) /\ a # b
    <3>1. Before(t, a, b)
      BY <1>2, <1>3, <1>7 DEF SuffixesIn
    <3> QED BY <1>1, <3>1, BeforeNotBoth
  <2>2. x # n /\ y # n
    <3>1. x = n <=> y = n
      BY <1>1, <1>7
    <3>2. ~ (x = n /\ y = n)
      BY <1>1, <1>4, <1>5, <2>1, PrevIs
    <3> QED BY <3>1, <3>2
  <2>3. x + 1 = a /\ y + 1 = b
    BY <1>1, <1>4, <1>5, <2>2, PrevIs
  <2>4. x + 1 <= n /\ y + 1 <= n /\ 1 \in Nat /\ \A j \in 0 .. 1 - 1 : t[x + j] = t[y + j]
    <3>1. \A j \in 0 .. 1 - 1 : j = 0
      OBVIOUS
    <3>2. x + 0 = x /\ y + 0 = y /\ x + 1 <= n /\ y + 1 <= n
      BY <1>1, <2>3
    <3> QED BY <1>7, <3>1, <3>2
  <2>5. Before(t, x + 1, y + 1)
    BY <2>1, <2>3
  <2>6. Before(t, x, y)
    BY <1>1, <2>4, <2>5, BeforePrefix
  <2> QED BY <1>2, <1>3, <1>4, <1>5, <2>6
<1> QED BY <1>4, <1>5, <1>6, <1>7

\* The row that a row follows is the one of the suffix one symbol longer.
LEMMA RowAfterIs ==
  ASSUME NEW n, NEW t, TextOf(t, n), NEW sa, SuffixesIn(t, n, sa), NEW column, ColumnOf(t, n, sa, column),
         NEW r \in 1 .. n
  PROVE  RowAfter(column, r) \in 1 .. n /\ sa[RowAfter(column, r)] = Prev(n, sa[r])
<1>1. n \in Nat /\ n >= 1 /\ Len(t) = n /\ t \in [1 .. n -> Int]
  BY DEF TextOf
<1>2. /\ sa \in [1 .. n -> 1 .. n] /\ \A s, u \in 1 .. n : sa[s] = sa[u] => s = u
      /\ \A p \in 1 .. n : \E s \in 1 .. n : sa[s] = p
      /\ \A s, u \in 1 .. n : s < u => Before(t, sa[s], sa[u])
  BY DEF SuffixesIn, Permutes
<1> DEFINE row == [q \in 1 .. n |-> CHOOSE s \in 1 .. n : sa[s] = Prev(n, sa[q])]
<1>3. ASSUME NEW q \in 1 .. n PROVE row[q] \in 1 .. n /\ sa[row[q]] = Prev(n, sa[q])
  <2>1. \E s \in 1 .. n : sa[s] = Prev(n, sa[q])
    BY <1>1, <1>2, PrevIs
  <2> QED BY <2>1
<1>4. DOMAIN row = 1 .. n
  OBVIOUS
<1> HIDE DEF row
<1>5. ASSUME NEW s \in 1 .. n PROVE \E q \in 1 .. n : row[q] = s
  <2>1. PICK p \in 1 .. n : Prev(n, p) = sa[s]
    <3>1. PICK a \in 1 .. n : a = sa[s]
      BY <1>2
    <3>2. CASE a = n
      <4>1. 1 \in 1 .. n /\ Prev(n, 1) = n
        BY <1>1 DEF Prev
      <4> QED BY <3>1, <3>2, <4>1
    <3>3. CASE a # n
      <4>1. a + 1 \in 1 .. n /\ Prev(n, a + 1) = a
        BY <1>1, <3>3 DEF Prev
      <4> QED BY <3>1, <4>1
    <3> QED BY <3>2, <3>3
  <2>2. PICK q \in 1 .. n : sa[q] = p
    BY <1>2
  <2> QED BY <1>2, <1>3, <2>1, <2>2
<1>6. ASSUME NEW q \in 1 .. n, NEW u \in 1 .. n, row[q] = row[u] PROVE q = u
  <2>1. Prev(n, sa[q]) = Prev(n, sa[u]) /\ sa[q] \in 1 .. n /\ sa[u] \in 1 .. n
    BY <1>2, <1>3, <1>6
  <2>2. sa[q] = sa[u]
    BY <1>1, <2>1, PrevIs
  <2> QED BY <1>2, <2>2
<1>7. ASSUME NEW q \in 1 .. n PROVE row[q] <= row[r] <=> column[q] < column[r] \/ (column[q] = column[r] /\ q <= r)
  <2>1. row[q] \in 1 .. n /\ row[r] \in 1 .. n /\ sa[row[q]] = Prev(n, sa[q]) /\ sa[row[r]] = Prev(n, sa[r])
    BY <1>3
  <2>2. column[q] \in Nat /\ column[r] \in Nat
    BY DEF ColumnOf
  <2>3. column[q] < column[r] \/ (column[q] = column[r] /\ q < r) => row[q] < row[r]
    <3> SUFFICES ASSUME column[q] < column[r] \/ (column[q] = column[r] /\ q < r) PROVE row[q] < row[r]
      OBVIOUS
    <3>1. Before(t, Prev(n, sa[q]), Prev(n, sa[r]))
      BY RowsInOrder
    <3>2. Before(t, sa[row[q]], sa[row[r]])
      BY <2>1, <3>1
    <3>3. ~ Before(t, sa[row[r]], sa[row[q]])
      BY <1>1, <1>2, <2>1, <3>2, BeforeNotBoth
    <3>4. row[q] # row[r]
      BY <3>2, <3>3
    <3>5. ~ (row[r] < row[q])
      BY <1>2, <2>1, <3>3
    <3> QED BY <2>1, <3>4, <3>5
  <2>4. column[r] < column[q] \/ (column[r] = column[q] /\ r < q) => row[r] < row[q]
    <3> SUFFICES ASSUME column[r] < column[q] \/ (column[r] = column[q] /\ r < q) PROVE row[r] < row[q]
      OBVIOUS
    <3>1. Before(t, Prev(n, sa[r]), Prev(n, sa[q]))
      BY RowsInOrder
    <3>2. Before(t, sa[row[r]], sa[row[q]])
      BY <2>1, <3>1
    <3>3. ~ Before(t, sa[row[q]], sa[row[r]])
      BY <1>1, <1>2, <2>1, <3>2, BeforeNotBoth
    <3>4. row[q] # row[r]
      BY <3>2, <3>3
    <3>5. ~ (row[q] < row[r])
      BY <1>2, <2>1, <3>3
    <3> QED BY <2>1, <3>4, <3>5
  <2> QED BY <1>1, <2>1, <2>2, <2>3, <2>4
<1> DEFINE less == {q \in 1 .. n : column[q] < column[r]}
           same == {q \in 1 .. r : column[q] = column[r]}
           upto == less \cup same
           g == [q \in upto |-> row[q]]
<1>8. upto = {q \in 1 .. n : row[q] <= row[r]}
  <2>1. \A q \in 1 .. r : q \in 1 .. n /\ q <= r
    BY <1>1
  <2>2. \A q \in 1 .. n : q <= r => q \in 1 .. r
    BY <1>1
  <2> QED BY <1>7, <2>1, <2>2
<1>9. less \cap same = {}
  <2>1. \A q \in same : q \in 1 .. n
    BY <1>1
  <2>2. \A q \in 1 .. n : column[q] \in Nat
    BY DEF ColumnOf
  <2> QED BY <2>1, <2>2
<1>10. row[r] \in 1 .. n /\ row[r] \in Nat
  BY <1>3
<1>11. g \in [upto -> 1 .. row[r]] /\ \A q \in upto : g[q] = row[q]
  <2>1. \A q \in upto : row[q] \in 1 .. row[r]
    BY <1>3, <1>8, <1>10
  <2> QED BY <2>1
<1>12. \A s \in 1 .. row[r] : \E q \in upto : g[q] = s
  <2>1. ASSUME NEW s \in 1 .. row[r] PROVE \E q \in upto : g[q] = s
    <3>1. s \in 1 .. n /\ s <= row[r]
      BY <1>1, <1>10
    <3>2. PICK q \in 1 .. n : row[q] = s
      BY <1>5, <3>1
    <3>3. q \in upto
      BY <1>8, <3>1, <3>2
    <3> HIDE DEF upto, g
    <3> QED BY <1>11, <3>2, <3>3
  <2> QED BY <2>1
<1>13. \A q, u \in upto : g[q] = g[u] => q = u
  <2>1. \A q \in upto : q \in 1 .. n
    BY <1>8
  <2> HIDE DEF upto, g
  <2> QED BY <1>6, <1>11, <2>1
<1>14. IsFiniteSet(less) /\ IsFiniteSet(same)
  <2>1. IsFiniteSet(1 .. n)
    BY <1>1, FS_Interval
  <2>2. less \subseteq 1 .. n /\ same \subseteq 1 .. n
    BY <1>1
  <2> HIDE DEF less, same
  <2>3. IsFiniteSet(less)
    BY <2>1, <2>2, FS_Subset
  <2>4. IsFiniteSet(same)
    BY <2>1, <2>2, FS_Subset
  <2> QED BY <2>3, <2>4
<1> HIDE DEF less, same, g
<1>15. Cardinality(upto) = row[r]
  <2> HIDE DEF upto
  <2>1. g \in Bijection(upto, 1 .. row[r])
    BY <1>11, <1>12, <1>13 DEF Bijection, Injection, IsInjective, Surjection
  <2>2. IsFiniteSet(1 .. row[r]) /\ Cardinality(1 .. row[r]) = row[r]
    <3>1. PICK top \in Nat : top = row[r] /\ top >= 1
      BY <1>10
    <3>2. /\ IsFiniteSet(1 .. top)
          /\ Cardinality(1 .. top) = IF 1 > top THEN 0 ELSE top - 1 + 1
      BY FS_Interval
    <3> QED BY <3>1, <3>2
  <2>3. ExistsBijection(upto, 1 .. row[r])
    BY <2>1 DEF ExistsBijection
  <2>4. IsFiniteSet(upto)
    BY <1>14, FS_Union DEF upto
  <2>5. Cardinality(1 .. row[r]) = Cardinality(upto)
    BY <2>3, <2>4, FS_Bijection
  <2> QED BY <2>2, <2>5
<1>16. Cardinality(less \cup same) = Cardinality(less) + Cardinality(same)
  <2>1. Cardinality(less \cup same) = Cardinality(less) + Cardinality(same) - Cardinality(less \cap same)
    BY <1>14, FS_Union
  <2>2. Cardinality(less \cap same) = 0
    BY <1>9, FS_EmptySet
  <2>3. Cardinality(less) \in Nat
    BY <1>14, FS_CardinalityType
  <2>4. Cardinality(same) \in Nat
    BY <1>14, FS_CardinalityType
  <2> QED BY <2>1, <2>2, <2>3, <2>4
<1>17. RowAfter(column, r) = Cardinality(less) + Cardinality(same)
  <2>1. Len(column) = n
    BY DEF ColumnOf
  <2> QED BY <2>1 DEF RowAfter, less, same
<1>18. RowAfter(column, r) = row[r]
  BY <1>15, <1>16, <1>17 DEF upto
<1> QED BY <1>3, <1>18

\* What is decoded from m symbols.
DecodeSymbols(symbols, m) ==
  LET next == [s \in 1 .. m |-> CHOOSE r \in 1 .. m : RowAfter(symbols, r) = s]
      row[c \in 0 .. m - 1] == IF c = 0 THEN CHOOSE r \in 1 .. m : symbols[r] = 0
                               ELSE next[row[c - 1]]
  IN  [p \in 1 .. m - 1 |-> symbols[row[p]] - 1]

\* Following the rows from the one of the sentinel spells the block.
THEOREM TransformUndone ==
  ASSUME NEW block \in Seq(Nat)
  PROVE  DecodeBlock(EncodeBlock(block)) = block
<1> DEFINE t == Text(block)
           n == Len(t)
           sa == SAIS(t)
           column == EncodeBlock(block)
<1>1. /\ IsText(t) /\ n = Len(block) + 1 /\ t[n] = 0
      /\ \A p \in 1 .. Len(block) : t[p] = block[p] + 1
  BY BlockText
<1>2. TextOf(t, n)
  BY <1>1, TextIs
<1>3. n \in Nat /\ n >= 1 /\ DOMAIN t = 1 .. n /\ t \in [1 .. n -> Nat] /\ \A p \in 1 .. n : t[p] = t[n] => p = n
  BY <1>2 DEF TextOf
<1>4. SuffixesIn(t, n, sa)
  BY <1>1, SaisSorts
<1>5. column = [r \in 1 .. n |-> IF sa[r] = 1 THEN t[n] ELSE t[sa[r] - 1]]
  BY <1>3 DEF EncodeBlock
<1> HIDE DEF t, n, sa, column
<1>6. /\ sa \in [1 .. n -> 1 .. n] /\ \A s, u \in 1 .. n : sa[s] = sa[u] => s = u
      /\ \A p \in 1 .. n : \E s \in 1 .. n : sa[s] = p
  BY <1>4 DEF SuffixesIn, Permutes
<1>7. ColumnOf(t, n, sa, column)
  <2>1. \A r \in 1 .. n : column[r] = t[Prev(n, sa[r])]
    BY <1>5 DEF Prev
  <2>2. \A r \in 1 .. n : Prev(n, sa[r]) \in 1 .. n
    BY <1>3, <1>6, PrevIs
  <2>3. column \in [1 .. n -> Nat]
    <3>1. \A r \in 1 .. n : column[r] \in Nat
      BY <1>3, <2>1, <2>2
    <3> QED BY <1>5, <3>1
  <2>4. Len(column) = n
    BY <1>3, <2>3, FunctionIsSeq
  <2> QED BY <2>1, <2>3, <2>4 DEF ColumnOf
<1>8. Len(column) = n /\ \A r \in 1 .. n : column[r] = t[Prev(n, sa[r])]
  BY <1>7 DEF ColumnOf
<1>9. \A r \in 1 .. n : RowAfter(column, r) \in 1 .. n /\ sa[RowAfter(column, r)] = Prev(n, sa[r])
  BY <1>2, <1>4, <1>7, RowAfterIs
<1> DEFINE next == [s \in 1 .. n |-> CHOOSE r \in 1 .. n : RowAfter(column, r) = s]
           first == CHOOSE r \in 1 .. n : column[r] = 0
           Eq(f) == f = [c \in 0 .. n - 1 |-> IF c = 0 THEN first ELSE next[f[c - 1]]]
           row == CHOOSE f : Eq(f)
<1>10. DecodeBlock(column) = [p \in 1 .. n - 1 |-> column[row[p]] - 1]
  <2> HIDE DEF next, first, Eq, row
  <2>1. DecodeBlock(column) = DecodeSymbols(column, Len(column))
    BY Zenon DEF DecodeBlock, Sentinel, DecodeSymbols
  <2>2. DecodeBlock(column) = DecodeSymbols(column, n)
    BY <1>8, <2>1
  <2>3. DecodeSymbols(column, n) = [p \in 1 .. n - 1 |-> column[row[p]] - 1]
    BY Zenon DEF DecodeSymbols, next, first, Eq, row
  <2> QED BY <2>2, <2>3
<1>11. first \in 1 .. n /\ sa[first] = 1
  <2>1. PICK r \in 1 .. n : sa[r] = 1
    <3>1. 1 \in 1 .. n
      BY <1>3
    <3> QED BY <1>6, <3>1
  <2>2. column[r] = 0
    BY <1>1, <1>8, <2>1 DEF Prev
  <2>3. first \in 1 .. n /\ column[first] = 0
    BY <2>2
  <2> HIDE DEF first
  <2>4. Prev(n, sa[first]) \in 1 .. n /\ sa[first] \in 1 .. n
    BY <1>3, <1>6, <2>3, PrevIs
  <2>5. Prev(n, sa[first]) = n
    BY <1>1, <1>3, <1>8, <2>3, <2>4
  <2> QED BY <1>3, <2>3, <2>4, <2>5, PrevIs
<1>12. ASSUME NEW s \in 1 .. n PROVE next[s] \in 1 .. n /\ Prev(n, sa[next[s]]) = sa[s]
  <2>1. PICK p \in 1 .. n : Prev(n, p) = sa[s]
    <3>1. PICK a \in 1 .. n : a = sa[s]
      BY <1>6
    <3>2. CASE a = n
      <4>1. 1 \in 1 .. n /\ Prev(n, 1) = n
        BY <1>3 DEF Prev
      <4> QED BY <3>1, <3>2, <4>1
    <3>3. CASE a # n
      <4>1. a + 1 \in 1 .. n /\ Prev(n, a + 1) = a
        BY <1>3, <3>3 DEF Prev
      <4> QED BY <3>1, <4>1
    <3> QED BY <3>2, <3>3
  <2>2. PICK r \in 1 .. n : sa[r] = p
    BY <1>6
  <2>3. RowAfter(column, r) = s
    BY <1>6, <1>9, <2>1, <2>2
  <2>4. next[s] = CHOOSE q \in 1 .. n : RowAfter(column, q) = s
    OBVIOUS
  <2> HIDE DEF next
  <2>5. next[s] \in 1 .. n /\ RowAfter(column, next[s]) = s
    BY <2>3, <2>4
  <2>6. sa[RowAfter(column, next[s])] = Prev(n, sa[next[s]])
    BY <1>9, <2>5
  <2> QED BY <2>5, <2>6
<1>13. next \in [1 .. n -> 1 .. n]
  <2>1. next = [s \in 1 .. n |-> next[s]]
    OBVIOUS
  <2> HIDE DEF next
  <2> QED BY <1>12, <2>1
<1> HIDE DEF next, first
<1>14. Eq(row)
  <2> DEFINE G == [y \in (1 .. n - 1) \X (1 .. n) |-> next[y[2]]]
  <2>1. G \in [(1 .. n - 1) \X (1 .. n) -> 1 .. n]
    BY <1>13
  <2>2. \A c \in 1 .. n - 1, q \in 1 .. n : G[<<c, q>>] = next[q]
    OBVIOUS
  <2>0. n - 1 \in Nat
    BY <1>3
  <2> HIDE DEF G
  <2>3. PICK f \in [0 .. n - 1 -> 1 .. n] : Evolves(f, n - 1, first, G)
    BY <1>11, <2>0, <2>1, Evolution, Zenon
  <2>4. ASSUME NEW c \in 0 .. n - 1
        PROVE  f[c] = IF c = 0 THEN first ELSE next[f[c - 1]]
    <3>1. CASE c # 0
      <4>1. c \in 1 .. n - 1 /\ c - 1 \in 0 .. n - 1
        BY <2>0, <3>1
      <4>2. f[c - 1] \in 1 .. n
        BY <2>3, <4>1
      <4>3. f[c] = G[<<c, f[c - 1]>>]
        BY <2>3, <4>1 DEF Evolves
      <4> QED BY <2>2, <3>1, <4>1, <4>2, <4>3, Zenon
    <3> QED BY <2>3, <3>1 DEF Evolves
  <2>5. Eq(f)
    BY <2>3, <2>4
  <2> QED BY <2>5, Zenon
<1> HIDE DEF row
<1> DEFINE T == {c \in 0 .. n - 1 : row[c] \in 1 .. n /\ sa[row[c]] = c + 1}
<1>15. 0 \in T
  <2>1. 0 \in 0 .. n - 1
    BY <1>3
  <2>2. row[0] = first
    BY <1>14, <2>1, Zenon
  <2> QED BY <1>11, <2>1, <2>2
<1>16. ASSUME NEW c \in 1 .. n - 1, c - 1 \in T PROVE c \in T
  <2>1. c \in 0 .. n - 1 /\ c # 0 /\ c \in Nat /\ c < n
    BY <1>3
  <2>2. row[c] = next[row[c - 1]]
    BY <1>14, <2>1, Zenon
  <2>3. row[c - 1] \in 1 .. n /\ sa[row[c - 1]] = c
    BY <1>16
  <2>4. row[c] \in 1 .. n /\ Prev(n, sa[row[c]]) = c
    BY <1>12, <2>2, <2>3
  <2>5. sa[row[c]] \in 1 .. n
    BY <1>6, <2>4
  <2>6. sa[row[c]] = c + 1
    <3>1. PICK a \in 1 .. n : a = sa[row[c]]
      BY <2>5
    <3>2. Prev(n, a) = c /\ c # n
      BY <1>3, <2>1, <2>4, <3>1
    <3>3. c + 1 = a
      BY <1>3, <3>2, PrevIs
    <3> QED BY <3>1, <3>3
  <2> QED BY <2>1, <2>4, <2>6
<1>17. ASSUME NEW c \in 0 .. n - 1 PROVE row[c] \in 1 .. n /\ sa[row[c]] = c + 1
  <2>1. n - 1 \in Nat
    BY <1>3
  <2> HIDE DEF T
  <2>2. \A d \in 0 .. n - 1 : d \in T
    BY <1>15, <1>16, <2>1, Climb
  <2>3. c \in T
    BY <2>2
  <2> QED BY <2>3 DEF T
<1>18. ASSUME NEW p \in 1 .. n - 1 PROVE column[row[p]] - 1 = block[p]
  <2>1. p \in 0 .. n - 1 /\ p \in 1 .. Len(block) /\ p + 1 # 1 /\ (p + 1) - 1 = p
    BY <1>1, <1>3
  <2>2. row[p] \in 1 .. n /\ sa[row[p]] = p + 1
    BY <1>17, <2>1
  <2>3. column[row[p]] = t[Prev(n, p + 1)]
    BY <1>8, <2>2
  <2>4. Prev(n, p + 1) = p
    BY <2>1 DEF Prev
  <2>5. t[p] = block[p] + 1 /\ block[p] \in Nat
    BY <1>1, <2>1
  <2> QED BY <2>3, <2>4, <2>5
<1>19. DecodeBlock(column) = [p \in 1 .. n - 1 |-> block[p]]
  BY <1>10, <1>18
<1>20. block = [p \in 1 .. n - 1 |-> block[p]]
  <2>1. DOMAIN block = 1 .. n - 1
    <3>1. n - 1 = Len(block)
      BY <1>1
    <3> QED BY <3>1
  <2> QED BY <2>1
<1> QED BY <1>19, <1>20 DEF column

-----------------------------------------------------------------------------
(***************************************************************************)
(* Moving to front. Both sides keep the same list, in which each symbol    *)
(* occurs.                                                                 *)
(***************************************************************************)

\* The symbols that a block's transform consists of.
LEMMA EncodeBlockIs ==
  ASSUME NEW block \in Seq(0 .. NumBytes - 1)
  PROVE  EncodeBlock(block) \in Seq(0 .. NumBytes) /\ Len(EncodeBlock(block)) = Len(block) + 1
<1> DEFINE t == Text(block)
           n == Len(t)
           sa == SAIS(t)
           column == EncodeBlock(block)
<1>0. NumBytes \in Nat \ {0}
  BY BwtAssumption
<1>1. block \in Seq(Nat) /\ \A p \in 1 .. Len(block) : block[p] \in 0 .. NumBytes - 1
  <2>1. \A p \in 1 .. Len(block) : block[p] \in 0 .. NumBytes - 1
    BY ElementOfSeq
  <2>2. block \in [1 .. Len(block) -> Nat] /\ Len(block) \in Nat
    <3>1. DOMAIN block = 1 .. Len(block) /\ block = [p \in 1 .. Len(block) |-> block[p]]
      OBVIOUS
    <3> QED BY <2>1, <3>1, <1>0
  <2> QED BY <2>1, <2>2, FunctionIsSeq
<1>2. /\ IsText(t) /\ n = Len(block) + 1 /\ t[n] = 0
      /\ \A p \in 1 .. Len(block) : t[p] = block[p] + 1
  BY <1>1, BlockText
<1>3. TextOf(t, n)
  BY <1>2, TextIs
<1>4. n \in Nat /\ n >= 1 /\ DOMAIN t = 1 .. n
  BY <1>3 DEF TextOf
<1>5. SuffixesIn(t, n, sa)
  BY <1>2, SaisSorts
<1>6. column = [r \in 1 .. n |-> IF sa[r] = 1 THEN t[n] ELSE t[sa[r] - 1]]
  BY <1>4 DEF EncodeBlock
<1> HIDE DEF t, n, sa, column
<1>7. \A p \in 1 .. n : t[p] \in 0 .. NumBytes
  <2>1. ASSUME NEW p \in 1 .. n PROVE t[p] \in 0 .. NumBytes
    <3>1. CASE p = n
      BY <1>0, <1>2, <3>1
    <3>2. CASE p # n
      <4>1. p \in 1 .. Len(block)
        BY <1>2, <1>4, <3>2
      <4> QED BY <1>0, <1>1, <1>2, <4>1
    <3> QED BY <3>1, <3>2
  <2> QED BY <2>1
<1>8. column \in [1 .. n -> 0 .. NumBytes]
  <2>1. ASSUME NEW r \in 1 .. n PROVE column[r] \in 0 .. NumBytes
    <3>1. sa[r] \in 1 .. n
      BY <1>5 DEF SuffixesIn, Permutes
    <3>2. sa[r] # 1 => sa[r] - 1 \in 1 .. n
      BY <1>4, <3>1
    <3>3. n \in 1 .. n
      BY <1>4
    <3> QED BY <1>6, <1>7, <3>2, <3>3
  <2> QED BY <1>6, <2>1
<1>9. column \in Seq(0 .. NumBytes) /\ Len(column) = n
  BY <1>4, <1>8, FunctionIsSeq
<1> QED BY <1>2, <1>9 DEF column

\* The list of the symbols, in any order.
Listing(l) ==
  /\ l \in [1 .. NumBytes + 1 -> 0 .. NumBytes]
  /\ \A x \in 0 .. NumBytes : \E p \in 1 .. NumBytes + 1 : l[p] = x

\* The first list has each symbol at its own place.
LEMMA FreshListing == Listing(FreshList)
<1>0. NumBytes \in Nat
  BY BwtAssumption
<1>1. \A p \in 1 .. NumBytes + 1 : p - 1 \in 0 .. NumBytes
  BY <1>0
<1>2. FreshList \in [1 .. NumBytes + 1 -> 0 .. NumBytes]
  BY <1>1 DEF FreshList
<1>3. \A x \in 0 .. NumBytes : x + 1 \in 1 .. NumBytes + 1 /\ FreshList[x + 1] = x
  BY <1>0 DEF FreshList
<1> QED BY <1>2, <1>3 DEF Listing

\* Every symbol is in the list, in its place.
LEMMA PlaceOfIs ==
  ASSUME NEW l, Listing(l), NEW x \in 0 .. NumBytes
  PROVE  PlaceOf(l, x) \in 1 .. NumBytes + 1 /\ l[PlaceOf(l, x)] = x
<1>1. DOMAIN l = 1 .. NumBytes + 1 /\ \E p \in DOMAIN l : l[p] = x
  BY DEF Listing
<1> QED BY <1>1 DEF PlaceOf

\* Moving to front keeps every symbol in the list.
LEMMA ToFrontListing ==
  ASSUME NEW l, Listing(l), NEW p \in 1 .. NumBytes + 1
  PROVE  Listing(ToFront(l, p))
<1> DEFINE m == NumBytes + 1
           g == [q \in 1 .. m |-> IF q = 1 THEN l[p] ELSE IF q <= p THEN l[q - 1] ELSE l[q]]
<1>0. NumBytes \in Nat /\ m \in Nat /\ m >= 1 /\ p \in 1 .. m
  BY BwtAssumption
<1>1. l \in [1 .. m -> 0 .. NumBytes] /\ \A x \in 0 .. NumBytes : \E q \in 1 .. m : l[q] = x
  BY DEF Listing
<1>2. ToFront(l, p) = g
  BY <1>1 DEF ToFront
<1> HIDE DEF m
<1>3. g \in [1 .. m -> 0 .. NumBytes]
  <2>1. \A q \in 1 .. m : q # 1 => q - 1 \in 1 .. m
    BY <1>0
  <2> QED BY <1>0, <1>1, <2>1
<1>4. ASSUME NEW x \in 0 .. NumBytes PROVE \E q \in 1 .. m : g[q] = x
  <2>1. PICK q \in 1 .. m : l[q] = x
    BY <1>1
  <2>2. CASE q = p
    <3>1. 1 \in 1 .. m
      BY <1>0
    <3> QED BY <2>1, <2>2, <3>1
  <2>3. CASE q < p
    <3>1. q + 1 \in 1 .. m /\ q + 1 # 1 /\ q + 1 <= p /\ (q + 1) - 1 = q
      BY <1>0, <2>3
    <3>2. g[q + 1] = x
      BY <2>1, <3>1
    <3> QED BY <3>1, <3>2
  <2>4. CASE p < q
    <3>1. q # 1 /\ ~ (q <= p)
      BY <1>0, <2>4
    <3>2. g[q] = x
      BY <2>1, <3>1
    <3> QED BY <3>2
  <2> QED BY <1>0, <2>2, <2>3, <2>4
<1> HIDE DEF g
<1> QED BY <1>2, <1>3, <1>4 DEF Listing, m

\* The lists of the encoder, one for each number of symbols coded.
EncoderLists(s, list) ==
  /\ \A c \in 0 .. Len(s) : Listing(list[c])
  /\ list[0] = FreshList
  /\ \A c \in 1 .. Len(s) : list[c] = ToFront(list[c - 1], PlaceOf(list[c - 1], s[c]))

\* The ranks are the places of the symbols in the lists.
LEMMA MtfEncodeIs ==
  ASSUME NEW s \in Seq(0 .. NumBytes)
  PROVE  \E list : /\ EncoderLists(s, list)
                   /\ MtfEncode(s) = [c \in 1 .. Len(s) |-> PlaceOf(list[c - 1], s[c]) - 1]
<1> DEFINE n == Len(s)
           Eq(f) == f = [c \in 0 .. n |->
             IF c = 0 THEN FreshList ELSE LET l == f[c - 1] IN ToFront(l, PlaceOf(l, s[c]))]
           list == CHOOSE f : Eq(f)
<1>1. MtfEncode(s) = [c \in 1 .. n |-> PlaceOf(list[c - 1], s[c]) - 1]
  BY Zenon DEF MtfEncode
<1>2. n \in Nat /\ \A c \in 1 .. n : s[c] \in 0 .. NumBytes
  <2>1. Len(s) \in Nat
    OBVIOUS
  <2>2. \A c \in 1 .. Len(s) : s[c] \in 0 .. NumBytes
    BY ElementOfSeq
  <2> QED BY <2>1, <2>2
<1> HIDE DEF n
<1> DEFINE S == {l \in [1 .. NumBytes + 1 -> 0 .. NumBytes] : Listing(l)}
<1>3. \A l : l \in S <=> Listing(l)
  BY DEF Listing
<1> HIDE DEF S
<1>4. Eq(list)
  <2> DEFINE G == [y \in (1 .. n) \X S |-> ToFront(y[2], PlaceOf(y[2], s[y[1]]))]
  <2>1. G \in [(1 .. n) \X S -> S]
    <3>1. ASSUME NEW c \in 1 .. n, NEW l \in S PROVE ToFront(l, PlaceOf(l, s[c])) \in S
      <4>1. PlaceOf(l, s[c]) \in 1 .. NumBytes + 1
        BY <1>2, <1>3, PlaceOfIs
      <4> QED BY <1>3, <4>1, ToFrontListing
    <3> QED BY <3>1
  <2>2. \A c \in 1 .. n, l \in S : G[<<c, l>>] = ToFront(l, PlaceOf(l, s[c]))
    OBVIOUS
  <2>0. FreshList \in S
    BY <1>3, FreshListing
  <2> HIDE DEF G
  <2>3. PICK f \in [0 .. n -> S] : Evolves(f, n, FreshList, G)
    BY <1>2, <2>0, <2>1, Evolution, Zenon
  <2>4. ASSUME NEW c \in 0 .. n
        PROVE  f[c] = IF c = 0 THEN FreshList ELSE ToFront(f[c - 1], PlaceOf(f[c - 1], s[c]))
    <3>1. CASE c # 0
      <4>1. c \in 1 .. n /\ c - 1 \in 0 .. n
        BY <1>2, <3>1
      <4>2. f[c - 1] \in S
        BY <2>3, <4>1
      <4>3. f[c] = G[<<c, f[c - 1]>>]
        BY <2>3, <4>1 DEF Evolves
      <4> QED BY <2>2, <3>1, <4>1, <4>2, <4>3, Zenon
    <3> QED BY <2>3, <3>1 DEF Evolves
  <2>5. Eq(f)
    <3>1. f = [c \in 0 .. n |-> IF c = 0 THEN FreshList ELSE ToFront(f[c - 1], PlaceOf(f[c - 1], s[c]))]
      BY <2>3, <2>4
    <3> QED BY <3>1, Zenon
  <2> QED BY <2>5, Zenon
<1> HIDE DEF list
<1>5. list[0] = FreshList
  <2>1. 0 \in 0 .. n
    BY <1>2
  <2> QED BY <1>4, <2>1, Zenon
<1>6. ASSUME NEW c \in 1 .. n PROVE list[c] = ToFront(list[c - 1], PlaceOf(list[c - 1], s[c]))
  <2>1. c \in 0 .. n /\ c # 0
    BY <1>2
  <2> QED BY <1>4, <2>1, Zenon
<1> DEFINE T == {c \in 0 .. n : Listing(list[c])}
<1>7. 0 \in T
  BY <1>2, <1>5, FreshListing
<1>8. ASSUME NEW c \in 1 .. n, c - 1 \in T PROVE c \in T
  <2>1. PlaceOf(list[c - 1], s[c]) \in 1 .. NumBytes + 1
    BY <1>2, <1>8, PlaceOfIs
  <2>2. Listing(list[c])
    BY <1>6, <1>8, <2>1, ToFrontListing
  <2> QED BY <1>2, <2>2
<1>9. \A c \in 0 .. n : Listing(list[c])
  <2> HIDE DEF T
  <2>1. \A c \in 0 .. n : c \in T
    BY <1>2, <1>7, <1>8, Climb
  <2> QED BY <2>1 DEF T
<1>10. EncoderLists(s, list)
  BY <1>5, <1>6, <1>9 DEF EncoderLists, n
<1> QED BY <1>1, <1>10 DEF n

\* What was moved to front is moved back.
THEOREM ToFrontUndone ==
  ASSUME NEW s \in Seq(0 .. NumBytes)
  PROVE  /\ MtfEncode(s) \in Seq(0 .. NumBytes) /\ Len(MtfEncode(s)) = Len(s)
         /\ MtfDecode(MtfEncode(s)) = s
<1> DEFINE n == Len(s)
           rs == MtfEncode(s)
<1>1. PICK list : EncoderLists(s, list) /\ rs = [c \in 1 .. n |-> PlaceOf(list[c - 1], s[c]) - 1]
  BY MtfEncodeIs
<1>2. n \in Nat /\ \A c \in 1 .. n : s[c] \in 0 .. NumBytes
  <2>1. Len(s) \in Nat
    OBVIOUS
  <2>2. \A c \in 1 .. Len(s) : s[c] \in 0 .. NumBytes
    BY ElementOfSeq
  <2> QED BY <2>1, <2>2
<1>0. NumBytes \in Nat
  BY BwtAssumption
<1>3. /\ \A c \in 0 .. n : Listing(list[c])
      /\ list[0] = FreshList
      /\ \A c \in 1 .. n : list[c] = ToFront(list[c - 1], PlaceOf(list[c - 1], s[c]))
  BY <1>1 DEF EncoderLists
<1>4. s = [c \in 1 .. n |-> s[c]]
  OBVIOUS
<1> HIDE DEF n, rs
<1>5. ASSUME NEW c \in 1 .. n
      PROVE  /\ rs[c] \in 0 .. NumBytes /\ rs[c] + 1 = PlaceOf(list[c - 1], s[c])
             /\ list[c - 1][rs[c] + 1] = s[c] /\ rs[c] + 1 \in 1 .. NumBytes + 1
  <2>1. c - 1 \in 0 .. n
    BY <1>2
  <2>2. PICK p \in 1 .. NumBytes + 1 : p = PlaceOf(list[c - 1], s[c]) /\ list[c - 1][p] = s[c]
    BY <1>2, <1>3, <2>1, PlaceOfIs
  <2>3. rs[c] = p - 1
    BY <1>1, <2>2
  <2>4. (p - 1) + 1 = p /\ p - 1 \in 0 .. NumBytes
    BY <1>0
  <2> QED BY <2>2, <2>3, <2>4
<1>6. rs \in Seq(0 .. NumBytes) /\ Len(rs) = n
  <2>1. rs \in [1 .. n -> 0 .. NumBytes]
    BY <1>1, <1>5
  <2> QED BY <1>2, <2>1, FunctionIsSeq
<1> DEFINE Eq(f) == f = [c \in 0 .. Len(rs) |-> IF c = 0 THEN FreshList ELSE ToFront(f[c - 1], rs[c] + 1)]
           back == CHOOSE f : Eq(f)
<1>7. MtfDecode(rs) = [c \in 1 .. Len(rs) |-> back[c - 1][rs[c] + 1]]
  BY Zenon DEF MtfDecode
<1>8. Eq(back)
  <2> DEFINE f == [c \in 0 .. n |-> list[c]]
  <2>1. ASSUME NEW c \in 0 .. n
        PROVE  f[c] = IF c = 0 THEN FreshList ELSE ToFront(f[c - 1], rs[c] + 1)
    <3>1. CASE c # 0
      <4>1. c \in 1 .. n /\ c - 1 \in 0 .. n
        BY <1>2, <3>1
      <4>2. f[c] = list[c] /\ f[c - 1] = list[c - 1]
        BY <4>1
      <4> QED BY <1>3, <1>5, <3>1, <4>1, <4>2
    <3> QED BY <1>3, <3>1
  <2>2. f = [c \in 0 .. n |-> IF c = 0 THEN FreshList ELSE ToFront(f[c - 1], rs[c] + 1)]
    <3>1. f = [c \in 0 .. n |-> f[c]]
      OBVIOUS
    <3> HIDE DEF f
    <3> QED BY <2>1, <3>1
  <2>3. Eq(f)
    <3> HIDE DEF f
    <3> QED BY <1>6, <2>2
  <2> QED BY <2>3, Zenon
<1> HIDE DEF back
<1>9. back[0] = FreshList
  <2>1. 0 \in 0 .. Len(rs)
    BY <1>2, <1>6
  <2> QED BY <1>8, <2>1, Zenon
<1>10. ASSUME NEW c \in 1 .. n PROVE back[c] = ToFront(back[c - 1], rs[c] + 1)
  <2>1. c \in 0 .. Len(rs) /\ c # 0
    BY <1>2, <1>6
  <2> QED BY <1>8, <2>1, Zenon
<1> DEFINE T == {c \in 0 .. n : back[c] = list[c]}
<1>11. 0 \in T
  BY <1>2, <1>3, <1>9
<1>12. ASSUME NEW c \in 1 .. n, c - 1 \in T PROVE c \in T
  <2>1. back[c - 1] = list[c - 1] /\ c \in 0 .. n
    BY <1>2, <1>12
  <2> QED BY <1>3, <1>5, <1>10, <2>1
<1>13. \A c \in 0 .. n : back[c] = list[c]
  <2> HIDE DEF T
  <2>1. \A c \in 0 .. n : c \in T
    BY <1>2, <1>11, <1>12, Climb
  <2> QED BY <2>1 DEF T
<1>14. ASSUME NEW c \in 1 .. n PROVE back[c - 1][rs[c] + 1] = s[c]
  <2>1. c - 1 \in 0 .. n
    BY <1>2
  <2> QED BY <1>5, <1>13, <2>1
<1>15. MtfDecode(rs) = s
  <2>1. MtfDecode(rs) = [c \in 1 .. n |-> back[c - 1][rs[c] + 1]]
    BY <1>6, <1>7
  <2> QED BY <1>4, <1>14, <2>1
<1> QED BY <1>6, <1>15 DEF rs, n

-----------------------------------------------------------------------------
(***************************************************************************)
(* Runs of zeros, in bijective base 2. The digits of a length are followed *)
(* one by one; the code of a block is what its encoder has still to write, *)
(* after any number of ranks.                                              *)
(***************************************************************************)

\* The least significant digit, 1 or 2, and what is left to spell after it.
DigitOf(v) == 1 + ((v - 1) % 2)
LeftAfter(v) == (v - DigitOf(v)) \div 2

\* A length is its first digit and twice what the others spell.
LEMMA DigitIs ==
  ASSUME NEW v \in Nat, v > 0
  PROVE  /\ DigitOf(v) \in {1, 2} /\ LeftAfter(v) \in Nat /\ v = DigitOf(v) + 2 * LeftAfter(v)
         /\ LeftAfter(v) < v
<1>1. PICK q \in Int : v - 1 = 2 * q + ((v - 1) % 2) /\ (v - 1) % 2 \in 0 .. 1
  OBVIOUS
<1>2. DigitOf(v) \in {1, 2}
  BY <1>1 DEF DigitOf
<1>3. v - DigitOf(v) = 2 * q /\ q \in Nat
  BY <1>1 DEF DigitOf
<1>4. LeftAfter(v) = q
  BY <1>3 DEF LeftAfter
<1> QED BY <1>1, <1>2, <1>3, <1>4

\* The states of the loop that spells v.
Spelling(v, f) ==
  /\ f \in [0 .. v -> [left : Nat, digits : Seq(Nat)]]
  /\ f[0] = [left |-> v, digits |-> <<>>]
  /\ \A c \in 1 .. v : f[c] = Spelt(f[c - 1])

\* The state of the loop.
StateIs(s, a, ds) == s = [left |-> a, digits |-> ds]

\* Nothing is left to spell of zero.
LEMMA SpeltDone ==
  ASSUME NEW s, NEW ds, StateIs(s, 0, ds)
  PROVE  StateIs(Spelt(s), 0, ds)
BY DEF Spelt, StateIs

\* One digit is spelt.
LEMMA SpeltMore ==
  ASSUME NEW s, NEW a \in Nat, a > 0, NEW ds, StateIs(s, a, ds)
  PROVE  StateIs(Spelt(s), LeftAfter(a), Append(ds, DigitOf(a) - 1))
<1>1. s.left = a /\ s.digits = ds /\ a # 0
  BY DEF StateIs
<1> QED BY <1>1 DEF Spelt, LeftAfter, DigitOf, StateIs

\* The digits are those of the last state.
LEMMA RunDigitsIs ==
  ASSUME NEW v \in Nat
  PROVE  \E f : Spelling(v, f) /\ RunDigits(v) = f[v].digits
<1> DEFINE S == [left : Nat, digits : Seq(Nat)]
           c0 == [left |-> v, digits |-> <<>>]
           Eq(f) == f = [c \in 0 .. v |-> IF c = 0 THEN c0 ELSE Spelt(f[c - 1])]
           f == CHOOSE f : Eq(f)
<1>1. RunDigits(v) = f[v].digits
  BY Zenon DEF RunDigits
<1>2. c0 \in S
  OBVIOUS
<1>3. ASSUME NEW s \in S PROVE Spelt(s) \in S
  <2>1. PICK a, ds : s = [left |-> a, digits |-> ds] /\ a \in Nat /\ ds \in Seq(Nat)
    OBVIOUS
  <2>0. a \in Nat /\ ds \in Seq(Nat) /\ StateIs(s, a, ds)
    BY <2>1 DEF StateIs
  <2>2. CASE a = 0
    <3>1. StateIs(Spelt(s), 0, ds)
      BY <2>0, <2>2, SpeltDone
    <3> QED BY <2>0, <3>1 DEF StateIs
  <2>3. CASE a > 0
    <3>1. StateIs(Spelt(s), LeftAfter(a), Append(ds, DigitOf(a) - 1))
      BY <2>0, <2>3, SpeltMore
    <3>2. DigitOf(a) \in {1, 2} /\ LeftAfter(a) \in Nat
      BY <2>0, <2>3, DigitIs
    <3>3. DigitOf(a) - 1 \in Nat
      BY <3>2
    <3>4. Append(ds, DigitOf(a) - 1) \in Seq(Nat)
      BY <2>0, <3>3
    <3> QED BY <3>1, <3>2, <3>4 DEF StateIs
  <2>4. a = 0 \/ a > 0
    BY <2>0
  <2> QED BY <2>2, <2>3, <2>4
<1> HIDE DEF S, c0
<1>4. Eq(f)
  <2> DEFINE G == [y \in (1 .. v) \X S |-> Spelt(y[2])]
  <2>1. G \in [(1 .. v) \X S -> S]
    BY <1>3
  <2>2. \A c \in 1 .. v, s \in S : G[<<c, s>>] = Spelt(s)
    OBVIOUS
  <2> HIDE DEF G
  <2>3. PICK g \in [0 .. v -> S] : Evolves(g, v, c0, G)
    BY <1>2, <2>1, Evolution, Zenon
  <2>4. ASSUME NEW c \in 0 .. v
        PROVE  g[c] = IF c = 0 THEN c0 ELSE Spelt(g[c - 1])
    <3>1. CASE c # 0
      <4>1. c \in 1 .. v /\ c - 1 \in 0 .. v
        BY <3>1
      <4>2. g[c - 1] \in S
        BY <2>3, <4>1
      <4>3. g[c] = G[<<c, g[c - 1]>>]
        BY <2>3, <4>1 DEF Evolves
      <4> QED BY <2>2, <3>1, <4>1, <4>2, <4>3, Zenon
    <3> QED BY <2>3, <3>1 DEF Evolves
  <2>5. Eq(g)
    BY <2>3, <2>4
  <2> QED BY <2>5, Zenon
<1> HIDE DEF f
<1>5. f[0] = c0
  <2>1. 0 \in 0 .. v
    OBVIOUS
  <2> QED BY <1>4, <2>1, Zenon
<1>6. ASSUME NEW c \in 1 .. v PROVE f[c] = Spelt(f[c - 1])
  <2>1. c \in 0 .. v /\ c # 0
    OBVIOUS
  <2> QED BY <1>4, <2>1, Zenon
<1>7. \A c \in 0 .. v : f[c] \in S
  <2> DEFINE T == {c \in 0 .. v : f[c] \in S}
  <2>1. 0 \in T
    BY <1>2, <1>5
  <2>2. ASSUME NEW c \in 1 .. v, c - 1 \in T PROVE c \in T
    BY <1>3, <1>6, <2>2
  <2> HIDE DEF T
  <2>3. \A c \in 0 .. v : c \in T
    BY <2>1, <2>2, Climb
  <2> QED BY <2>3 DEF T
<1>8. f \in [0 .. v -> S]
  <2>1. f = [c \in 0 .. v |-> f[c]]
    <3>1. f = [c \in 0 .. v |-> IF c = 0 THEN c0 ELSE Spelt(f[c - 1])]
      BY <1>4
    <3>2. DOMAIN f = 0 .. v
      BY <3>1
    <3> QED BY <3>1, <3>2
  <2> QED BY <1>7, <2>1
<1>9. Spelling(v, f)
  BY <1>5, <1>6, <1>8 DEF Spelling, S, c0
<1> QED BY <1>1, <1>9

\* Each digit takes off at least one: there are no more digits than that.
LEMMA SpellingEnds ==
  ASSUME NEW v \in Nat, NEW f, Spelling(v, f)
  PROVE  f[v].left = 0
<1> DEFINE T == {c \in 0 .. v : f[c].left <= v - c}
<1>1. 0 \in T
  BY DEF Spelling
<1>2. ASSUME NEW c \in 1 .. v, c - 1 \in T PROVE c \in T
  <2>1. c - 1 \in 0 .. v /\ c \in 0 .. v
    OBVIOUS
  <2>2. PICK a, ds : f[c - 1] = [left |-> a, digits |-> ds] /\ a \in Nat /\ ds \in Seq(Nat)
    BY <2>1 DEF Spelling
  <2>3. a <= v - (c - 1) /\ a \in Nat /\ ds \in Seq(Nat) /\ StateIs(f[c - 1], a, ds)
    BY <1>2, <2>2 DEF StateIs
  <2>4. f[c] = Spelt(f[c - 1])
    BY DEF Spelling
  <2>5. CASE a = 0
    <3>1. StateIs(f[c], 0, ds)
      BY <2>3, <2>4, <2>5, SpeltDone
    <3>2. f[c].left = 0
      BY <3>1 DEF StateIs
    <3> QED BY <2>1, <3>2
  <2>6. CASE a > 0
    <3>1. StateIs(f[c], LeftAfter(a), Append(ds, DigitOf(a) - 1))
      BY <2>3, <2>4, <2>6, SpeltMore
    <3>2. LeftAfter(a) \in Nat /\ LeftAfter(a) < a
      BY <2>3, <2>6, DigitIs
    <3>3. f[c].left = LeftAfter(a)
      BY <3>1 DEF StateIs
    <3>4. LeftAfter(a) <= v - c
      BY <2>1, <2>3, <3>2
    <3> QED BY <2>1, <3>3, <3>4
  <2> QED BY <2>3, <2>5, <2>6
<1> HIDE DEF T
<1>3. \A c \in 0 .. v : c \in T
  BY <1>1, <1>2, Climb
<1>4. v \in T
  BY <1>3
<1>5. f[v].left <= v - v /\ f[v].left \in Nat
  BY <1>4 DEF T, Spelling
<1> QED BY <1>5

\* The digits of a number: the least significant one, and those of what is left.
LEMMA RunDigitsStep ==
  ASSUME NEW v \in Nat
  PROVE  /\ RunDigits(v) \in Seq(Nat)
         /\ v = 0 => RunDigits(v) = <<>>
         /\ v > 0 => RunDigits(v) = <<DigitOf(v) - 1>> \o RunDigits(LeftAfter(v))
<1>1. PICK f : Spelling(v, f) /\ RunDigits(v) = f[v].digits
  BY RunDigitsIs
<1>2. v \in 0 .. v
  OBVIOUS
<1>3. RunDigits(v) \in Seq(Nat)
  BY <1>1, <1>2 DEF Spelling
<1>4. v = 0 => RunDigits(v) = <<>>
  BY <1>1 DEF Spelling
<1>5. ASSUME v > 0 PROVE RunDigits(v) = <<DigitOf(v) - 1>> \o RunDigits(LeftAfter(v))
  <2> DEFINE d == DigitOf(v)
             w == LeftAfter(v)
  <2>1. d \in {1, 2} /\ w \in Nat /\ w < v /\ d - 1 \in Nat
    BY <1>5, DigitIs
  <2>2. PICK g : Spelling(w, g) /\ RunDigits(w) = g[w].digits
    BY <2>1, RunDigitsIs
  <2>3. f[1] = [left |-> w, digits |-> <<d - 1>>]
    <3>1. 1 \in 1 .. v /\ 1 - 1 = 0
      BY <1>5
    <3>2. f[1] = Spelt(f[0]) /\ StateIs(f[0], v, <<>>)
      BY <1>1, <3>1 DEF Spelling, StateIs
    <3>3. StateIs(f[1], LeftAfter(v), Append(<<>>, DigitOf(v) - 1))
      BY <1>5, <3>2, SpeltMore
    <3>4. Append(<<>>, DigitOf(v) - 1) = <<DigitOf(v) - 1>>
      OBVIOUS
    <3> QED BY <3>3, <3>4 DEF StateIs
  <2> HIDE DEF d, w
  <2> DEFINE Same1(c) == f[c + 1] = [left |-> g[c].left, digits |-> <<d - 1>> \o g[c].digits]
             T == {c \in 0 .. w : Same1(c)}
  <2>4. 0 \in T
    <3>1. g[0] = [left |-> w, digits |-> <<>>]
      BY <2>2 DEF Spelling
    <3>2. <<d - 1>> \o <<>> = <<d - 1>>
      BY <2>1
    <3> QED BY <2>1, <2>3, <3>1, <3>2
  <2>5. ASSUME NEW c \in 1 .. w, c - 1 \in T PROVE c \in T
    <3>1. c \in 0 .. w /\ c - 1 \in 0 .. w /\ (c - 1) + 1 = c /\ c + 1 \in 1 .. v /\ (c + 1) - 1 = c
      BY <2>1
    <3>2. PICK a, ds : g[c - 1] = [left |-> a, digits |-> ds] /\ a \in Nat /\ ds \in Seq(Nat)
      BY <2>2, <3>1 DEF Spelling
    <3>3. Same1(c - 1)
      BY <2>5
    <3>4. f[c] = [left |-> a, digits |-> <<d - 1>> \o ds]
      BY <3>1, <3>2, <3>3
    <3>5. g[c] = Spelt(g[c - 1])
      BY <2>2 DEF Spelling
    <3>6. f[c + 1] = Spelt(f[c])
      BY <1>1, <3>1 DEF Spelling
    <3>7. <<d - 1>> \o ds \in Seq(Nat)
      BY <2>1, <3>2
    <3> DEFINE fs == <<d - 1>> \o ds
    <3>0. a \in Nat /\ ds \in Seq(Nat) /\ StateIs(g[c - 1], a, ds) /\ StateIs(f[c], a, fs)
      BY <3>2, <3>4 DEF StateIs
    <3>8. CASE a = 0
      <4> HIDE DEF fs
      <4>1. StateIs(g[c], 0, ds)
        BY <3>0, <3>5, <3>8, SpeltDone
      <4>2. StateIs(f[c + 1], 0, fs)
        BY <3>0, <3>6, <3>8, SpeltDone
      <4>3. g[c].left = 0 /\ g[c].digits = ds /\ f[c + 1] = [left |-> 0, digits |-> fs]
        BY <4>1, <4>2 DEF StateIs
      <4>4. Same1(c)
        BY <4>3 DEF fs
      <4> HIDE DEF Same1
      <4> QED BY <3>1, <4>4
    <3>9. CASE a > 0
      <4> DEFINE e == DigitOf(a) - 1
      <4>3. e \in Nat
        <5>1. DigitOf(a) \in {1, 2}
          BY <3>0, <3>9, DigitIs
        <5> QED BY <5>1
      <4>1. StateIs(g[c], LeftAfter(a), Append(ds, e))
        BY <3>0, <3>5, <3>9, SpeltMore
      <4>2. StateIs(f[c + 1], LeftAfter(a), Append(fs, e))
        <5> HIDE DEF fs
        <5> QED BY <3>0, <3>6, <3>9, SpeltMore
      <4> HIDE DEF e
      <4>4. Append(fs, e) = <<d - 1>> \o Append(ds, e)
        <5>1. PICK z \in Nat : z = d - 1
          BY <2>1
        <5>2. Append(<<z>> \o ds, e) = <<z>> \o Append(ds, e)
          BY <3>0, <4>3
        <5> QED BY <5>1, <5>2
      <4>5. /\ g[c].left = LeftAfter(a) /\ g[c].digits = Append(ds, e)
            /\ f[c + 1] = [left |-> LeftAfter(a), digits |-> Append(fs, e)]
        <5> HIDE DEF fs
        <5> QED BY <4>1, <4>2 DEF StateIs
      <4>6. Same1(c)
        BY <4>4, <4>5
      <4> HIDE DEF Same1
      <4> QED BY <3>1, <4>6
    <3> QED BY <3>0, <3>8, <3>9
  <2>6. Same1(w)
    <3> HIDE DEF T
    <3>1. \A c \in 0 .. w : c \in T
      BY <2>1, <2>4, <2>5, Climb
    <3>2. w \in T
      BY <2>1, <3>1
    <3> QED BY <3>2 DEF T
  <2>7. g[w].left = 0 /\ g[w].digits \in Seq(Nat)
    <3>1. g[w].left = 0
      BY <2>1, <2>2, SpellingEnds
    <3>2. w \in 0 .. w
      BY <2>1
    <3> QED BY <2>2, <3>1, <3>2 DEF Spelling
  <2> DEFINE last == [left |-> 0, digits |-> <<d - 1>> \o g[w].digits]
             U == {c \in 0 .. v - (w + 1) : f[w + 1 + c] = last}
  <2>8. 0 \in U
    BY <2>1, <2>6, <2>7
  <2>9. ASSUME NEW c \in 1 .. v - (w + 1), c - 1 \in U PROVE c \in U
    <3>1. w + 1 + c \in 1 .. v /\ (w + 1 + c) - 1 = w + 1 + (c - 1)
      BY <2>1
    <3>2. f[w + 1 + c] = Spelt(f[w + 1 + (c - 1)])
      BY <1>1, <3>1 DEF Spelling
    <3>3. f[w + 1 + (c - 1)] = last
      BY <2>9
    <3>4. <<d - 1>> \o g[w].digits \in Seq(Nat)
      BY <2>1, <2>7
    <3>5. StateIs(last, 0, <<d - 1>> \o g[w].digits)
      BY DEF StateIs
    <3>6. Spelt(last) = last
      <4> HIDE DEF last
      <4>1. StateIs(Spelt(last), 0, <<d - 1>> \o g[w].digits)
        BY <3>5, SpeltDone
      <4> QED BY <3>5, <4>1 DEF StateIs
    <3> QED BY <3>2, <3>3, <3>6
  <2>10. f[v] = last
    <3>1. v - (w + 1) \in Nat /\ w + 1 + (v - (w + 1)) = v
      BY <2>1
    <3> HIDE DEF U
    <3>2. \A c \in 0 .. v - (w + 1) : c \in U
      BY <2>8, <2>9, <3>1, Climb
    <3>3. v - (w + 1) \in U
      BY <3>1, <3>2
    <3>4. f[w + 1 + (v - (w + 1))] = last
      BY <3>3 DEF U
    <3> QED BY <3>1, <3>4
  <2> QED BY <1>1, <2>2, <2>10 DEF d, w
<1> QED BY <1>3, <1>4, <1>5

\* How the rest of a block is coded, after each number of ranks: run zeros wait for the
\* run to end.
CodesBy(rs, M, run, R) ==
  /\ M = Len(rs) /\ M \in Nat /\ rs \in [1 .. M -> Nat]
  /\ run \in [0 .. M -> Nat] /\ run[0] = 0
  /\ R \in [0 .. M -> Seq(Nat)] /\ R[M] = RunDigits(run[M])
  /\ \A c \in 1 .. M : run[c] = IF rs[c] = 0 THEN run[c - 1] + 1 ELSE 0
  /\ \A c \in 1 .. M : R[c - 1] = IF rs[c] = 0 THEN R[c]
                                  ELSE (RunDigits(run[c - 1]) \o <<rs[c] + 1>>) \o R[c]

\* The states of the encoder's loop.
Writes(rs, M, f) ==
  /\ f \in [0 .. M -> [run : Nat, coded : Seq(Nat)]]
  /\ f[0] = [run |-> 0, coded |-> <<>>]
  /\ \A c \in 1 .. M : /\ f[c].run = IF rs[c] = 0 THEN f[c - 1].run + 1 ELSE 0
                       /\ f[c].coded = IF rs[c] = 0 THEN f[c - 1].coded
                                       ELSE (f[c - 1].coded \o RunDigits(f[c - 1].run)) \o <<rs[c] + 1>>

\* What one rank does to the run and to what is coded.
LEMMA WrittenIs ==
  ASSUME NEW acc \in [run : Nat, coded : Seq(Nat)], NEW r \in Nat
  PROVE  /\ Written(acc, r) \in [run : Nat, coded : Seq(Nat)]
         /\ Written(acc, r).run = IF r = 0 THEN acc.run + 1 ELSE 0
         /\ Written(acc, r).coded = IF r = 0 THEN acc.coded
                                    ELSE (acc.coded \o RunDigits(acc.run)) \o <<r + 1>>
<1>1. PICK a, w : acc = [run |-> a, coded |-> w] /\ a \in Nat /\ w \in Seq(Nat)
  OBVIOUS
<1>2. CASE r = 0
  <2>1. Written(acc, r) = [run |-> a + 1, coded |-> w]
    BY <1>1, <1>2 DEF Written
  <2> QED BY <1>1, <1>2, <2>1
<1>3. CASE r # 0
  <2> DEFINE ds == RunDigits(a)
  <2>1. ds \in Seq(Nat)
    BY <1>1, RunDigitsStep
  <2>2. Written(acc, r) = [run |-> 0, coded |-> (w \o ds) \o <<r + 1>>]
    BY <1>1, <1>3 DEF Written
  <2>3. acc.run = a /\ acc.coded = w
    BY <1>1
  <2> HIDE DEF ds
  <2>4. (w \o ds) \o <<r + 1>> \in Seq(Nat)
    BY <1>1, <2>1
  <2> DEFINE all == (w \o ds) \o <<r + 1>>
  <2>5. all \in Seq(Nat) /\ Written(acc, r) = [run |-> 0, coded |-> all]
    BY <2>2, <2>4
  <2> HIDE DEF all
  <2>6. Written(acc, r) \in [run : Nat, coded : Seq(Nat)] /\ Written(acc, r).run = 0 /\ Written(acc, r).coded = all
    BY <2>5
  <2> QED BY <1>3, <2>3, <2>6 DEF all, ds
<1> QED BY <1>2, <1>3

\* The states of the encoder's loop exist, and the last is what it returns.
LEMMA WritingIs ==
  ASSUME NEW M \in Nat, NEW rs \in [1 .. M -> Nat], Len(rs) = M
  PROVE  \E f : Writes(rs, M, f) /\ RleEncodeZeroRuns(rs) = f[M].coded \o RunDigits(f[M].run)
<1> DEFINE S == [run : Nat, coded : Seq(Nat)]
           c0 == [run |-> 0, coded |-> <<>>]
           Eq(f) == f = [c \in 0 .. Len(rs) |-> IF c = 0 THEN c0 ELSE Written(f[c - 1], rs[c])]
           upTo == CHOOSE f : Eq(f)
<1>1. RleEncodeZeroRuns(rs) = upTo[Len(rs)].coded \o RunDigits(upTo[Len(rs)].run)
  BY Zenon DEF RleEncodeZeroRuns
<1>2. c0 \in S
  OBVIOUS
<1>3. \A c \in 1 .. M : rs[c] \in Nat
  OBVIOUS
<1>4. \A s \in S, r \in Nat : Written(s, r) \in S
  BY WrittenIs
<1> HIDE DEF S, c0
<1>5. Eq(upTo)
  <2> DEFINE G == [y \in (1 .. M) \X S |-> Written(y[2], rs[y[1]])]
  <2>1. G \in [(1 .. M) \X S -> S]
    BY <1>3, <1>4
  <2>2. \A c \in 1 .. M, s \in S : G[<<c, s>>] = Written(s, rs[c])
    OBVIOUS
  <2> HIDE DEF G
  <2>3. PICK g \in [0 .. M -> S] : Evolves(g, M, c0, G)
    BY <1>2, <2>1, Evolution, Zenon
  <2>4. ASSUME NEW c \in 0 .. M
        PROVE  g[c] = IF c = 0 THEN c0 ELSE Written(g[c - 1], rs[c])
    <3>1. CASE c # 0
      <4>1. c \in 1 .. M /\ c - 1 \in 0 .. M
        BY <3>1
      <4>2. g[c - 1] \in S
        BY <2>3, <4>1
      <4>3. g[c] = G[<<c, g[c - 1]>>]
        BY <2>3, <4>1 DEF Evolves
      <4> QED BY <2>2, <3>1, <4>1, <4>2, <4>3, Zenon
    <3> QED BY <2>3, <3>1 DEF Evolves
  <2>5. Eq(g)
    BY <2>3, <2>4
  <2> QED BY <2>5, Zenon
<1> HIDE DEF upTo
<1>6. upTo = [c \in 0 .. M |-> IF c = 0 THEN c0 ELSE Written(upTo[c - 1], rs[c])]
  BY <1>5
<1>7. upTo[0] = c0
  <2>1. 0 \in 0 .. M
    OBVIOUS
  <2> QED BY <1>6, <2>1, Zenon
<1>8. ASSUME NEW c \in 1 .. M PROVE upTo[c] = Written(upTo[c - 1], rs[c])
  <2>1. c \in 0 .. M /\ c # 0
    OBVIOUS
  <2> QED BY <1>6, <2>1, Zenon
<1>9. \A c \in 0 .. M : upTo[c] \in S
  <2> DEFINE T == {c \in 0 .. M : upTo[c] \in S}
  <2>1. 0 \in T
    BY <1>2, <1>7
  <2>2. ASSUME NEW c \in 1 .. M, c - 1 \in T PROVE c \in T
    BY <1>3, <1>4, <1>8, <2>2
  <2> HIDE DEF T
  <2>3. \A c \in 0 .. M : c \in T
    BY <2>1, <2>2, Climb
  <2> QED BY <2>3 DEF T
<1>10. upTo \in [0 .. M -> S]
  <2>1. DOMAIN upTo = 0 .. M
    BY <1>6
  <2>2. upTo = [c \in 0 .. M |-> upTo[c]]
    BY <1>6, <2>1
  <2> QED BY <1>9, <2>2
<1>11. ASSUME NEW c \in 1 .. M
       PROVE  /\ upTo[c].run = IF rs[c] = 0 THEN upTo[c - 1].run + 1 ELSE 0
              /\ upTo[c].coded = IF rs[c] = 0 THEN upTo[c - 1].coded
                                 ELSE (upTo[c - 1].coded \o RunDigits(upTo[c - 1].run)) \o <<rs[c] + 1>>
  <2>1. upTo[c - 1] \in [run : Nat, coded : Seq(Nat)] /\ rs[c] \in Nat
    BY <1>3, <1>9 DEF S
  <2> QED BY <1>8, <2>1, WrittenIs
<1>12. Writes(rs, M, upTo)
  BY <1>7, <1>10, <1>11 DEF Writes, S, c0
<1> QED BY <1>1, <1>12

\* The code of a block is what is still to code at its start.
LEMMA RleIs ==
  ASSUME NEW M \in Nat, NEW rs \in [1 .. M -> Nat], Len(rs) = M
  PROVE  \E run, R : CodesBy(rs, M, run, R) /\ R[0] = RleEncodeZeroRuns(rs)
<1>1. PICK f : Writes(rs, M, f) /\ RleEncodeZeroRuns(rs) = f[M].coded \o RunDigits(f[M].run)
  BY WritingIs
<1> DEFINE run == [c \in 0 .. M |-> f[c].run]
           U == [c \in 0 .. M |-> f[c].coded]
           all == RleEncodeZeroRuns(rs)
<1>2. /\ run \in [0 .. M -> Nat] /\ run[0] = 0
      /\ \A c \in 1 .. M : run[c] = IF rs[c] = 0 THEN run[c - 1] + 1 ELSE 0
  <2>1. \A c \in 0 .. M : f[c].run \in Nat
    BY <1>1 DEF Writes
  <2>2. 0 \in 0 .. M /\ f[0].run = 0
    BY <1>1 DEF Writes
  <2>3. \A c \in 1 .. M : c \in 0 .. M /\ c - 1 \in 0 .. M
    OBVIOUS
  <2> QED BY <1>1, <2>1, <2>2, <2>3 DEF Writes
<1>3. /\ U \in [0 .. M -> Seq(Nat)] /\ U[0] = <<>>
      /\ \A c \in 1 .. M : U[c] = IF rs[c] = 0 THEN U[c - 1] ELSE (U[c - 1] \o RunDigits(run[c - 1])) \o <<rs[c] + 1>>
  <2>1. \A c \in 0 .. M : f[c].coded \in Seq(Nat)
    BY <1>1 DEF Writes
  <2>2. 0 \in 0 .. M /\ f[0].coded = <<>>
    BY <1>1 DEF Writes
  <2>3. \A c \in 1 .. M : c \in 0 .. M /\ c - 1 \in 0 .. M
    OBVIOUS
  <2>4. ASSUME NEW c \in 1 .. M
        PROVE U[c] = IF rs[c] = 0 THEN U[c - 1] ELSE (U[c - 1] \o RunDigits(run[c - 1])) \o <<rs[c] + 1>>
    <3>1. U[c] = f[c].coded /\ U[c - 1] = f[c - 1].coded /\ run[c - 1] = f[c - 1].run
      BY <2>3
    <3> HIDE DEF U, run
    <3>2. f[c].coded = IF rs[c] = 0 THEN f[c - 1].coded
                       ELSE (f[c - 1].coded \o RunDigits(f[c - 1].run)) \o <<rs[c] + 1>>
      BY <1>1 DEF Writes
    <3> QED BY <3>1, <3>2, Zenon
  <2> QED BY <2>1, <2>2, <2>4
<1>4. all = U[M] \o RunDigits(run[M])
  <2>1. U[M] = f[M].coded /\ run[M] = f[M].run
    OBVIOUS
  <2> HIDE DEF U, run
  <2> QED BY <1>1, <2>1
<1> HIDE DEF run, U, all
<1>5. \A c \in 0 .. M : RunDigits(run[c]) \in Seq(Nat)
  BY <1>2, RunDigitsStep
<1>6. \A c \in 1 .. M : rs[c] \in Nat /\ <<rs[c] + 1>> \in Seq(Nat)
  OBVIOUS
<1> DEFINE at(l) == M + 1 - l
           G == [y \in (1 .. M) \X Seq(Nat) |->
                  IF rs[at(y[1])] = 0 THEN y[2]
                  ELSE (RunDigits(run[at(y[1]) - 1]) \o <<rs[at(y[1])] + 1>>) \o y[2]]
<1>7. \A l \in 1 .. M : at(l) \in 1 .. M /\ at(l) - 1 \in 0 .. M /\ at(l) - 1 = M - l /\ M - at(l) = l - 1
  OBVIOUS
<1> HIDE DEF at
<1>8. G \in [(1 .. M) \X Seq(Nat) -> Seq(Nat)]
  <2>1. ASSUME NEW l \in 1 .. M, NEW w \in Seq(Nat)
        PROVE  (RunDigits(run[at(l) - 1]) \o <<rs[at(l)] + 1>>) \o w \in Seq(Nat)
    <3>1. RunDigits(run[at(l) - 1]) \in Seq(Nat) /\ <<rs[at(l)] + 1>> \in Seq(Nat)
      BY <1>5, <1>6, <1>7
    <3> QED BY <3>1
  <2> QED BY <2>1
<1>9. \A l \in 1 .. M, w \in Seq(Nat) :
        G[<<l, w>>] = IF rs[at(l)] = 0 THEN w ELSE (RunDigits(run[at(l) - 1]) \o <<rs[at(l)] + 1>>) \o w
  OBVIOUS
<1> HIDE DEF G
<1>10. PICK g \in [0 .. M -> Seq(Nat)] : Evolves(g, M, RunDigits(run[M]), G)
  <2>1. RunDigits(run[M]) \in Seq(Nat)
    BY <1>5
  <2> QED BY <1>8, <2>1, Evolution, Zenon
<1> DEFINE R == [c \in 0 .. M |-> g[M - c]]
<1>11. /\ R \in [0 .. M -> Seq(Nat)] /\ R[M] = RunDigits(run[M])
  <2>1. \A c \in 0 .. M : M - c \in 0 .. M
    OBVIOUS
  <2>2. M \in 0 .. M /\ M - M = 0
    OBVIOUS
  <2>3. R[M] = g[0]
    BY <2>2
  <2> QED BY <1>10, <2>1, <2>3 DEF Evolves
<1>12. ASSUME NEW c \in 1 .. M
       PROVE R[c - 1] = IF rs[c] = 0 THEN R[c] ELSE (RunDigits(run[c - 1]) \o <<rs[c] + 1>>) \o R[c]
  <2>1. PICK l \in 1 .. M : at(l) = c /\ l = M - (c - 1) /\ l - 1 = M - c
    <3>1. M + 1 - c \in 1 .. M /\ at(M + 1 - c) = c
      BY DEF at
    <3> QED BY <3>1
  <2>2. R[c - 1] = g[l] /\ R[c] = g[l - 1]
    <3>1. c - 1 \in 0 .. M /\ c \in 0 .. M
      OBVIOUS
    <3> QED BY <2>1, <3>1
  <2>3. g[l] = G[<<l, g[l - 1]>>]
    BY <1>10 DEF Evolves
  <2>4. g[l - 1] \in Seq(Nat)
    <3>1. l - 1 \in 0 .. M
      OBVIOUS
    <3> QED BY <1>10, <3>1
  <2> HIDE DEF R
  <2>5. g[l] = IF rs[at(l)] = 0 THEN g[l - 1] ELSE (RunDigits(run[at(l) - 1]) \o <<rs[at(l)] + 1>>) \o g[l - 1]
    BY <1>9, <2>3, <2>4, Zenon
  <2> QED BY <2>1, <2>2, <2>5, Zenon
<1> HIDE DEF R
<1>13. CodesBy(rs, M, run, R)
  BY <1>2, <1>11, <1>12 DEF CodesBy
<1> DEFINE T == {l \in 0 .. M : all = U[M - l] \o R[M - l]}
<1>14. 0 \in T
  <2>1. M - 0 = M /\ 0 \in 0 .. M
    OBVIOUS
  <2>2. all = U[M - 0] \o R[M - 0]
    BY <1>4, <1>11, <2>1, Zenon
  <2> QED BY <2>1, <2>2
<1>15. ASSUME NEW l \in 1 .. M, l - 1 \in T PROVE l \in T
  <2>1. PICK c \in 1 .. M : c = M - (l - 1) /\ c - 1 = M - l
    <3>1. M - (l - 1) \in 1 .. M /\ (M - (l - 1)) - 1 = M - l
      OBVIOUS
    <3> QED BY <3>1
  <2>2. all = U[c] \o R[c]
    BY <1>15, <2>1
  <2>3. c \in 0 .. M /\ c - 1 \in 0 .. M /\ l \in 0 .. M
    OBVIOUS
  <2>4. all = U[c - 1] \o R[c - 1]
    <3>1. CASE rs[c] = 0
      BY <1>3, <1>12, <2>2, <3>1
    <3>2. CASE rs[c] # 0
      <4> DEFINE u == U[c - 1]
                 ds == RunDigits(run[c - 1])
                 x == <<rs[c] + 1>>
                 w == R[c]
      <4>1. u \in Seq(Nat)
        BY <1>3, <2>3
      <4>2. ds \in Seq(Nat)
        BY <1>5, <2>3
      <4>3. x \in Seq(Nat)
        BY <1>6
      <4>4. w \in Seq(Nat)
        BY <1>11, <2>3
      <4>5. U[c] = (u \o ds) \o x
        BY <1>3, <3>2, Zenon
      <4>6. R[c - 1] = (ds \o x) \o w
        BY <1>12, <3>2, Zenon
      <4>7. all = ((u \o ds) \o x) \o w
        BY <2>2, <4>5
      <4>8. U[c - 1] \o R[c - 1] = u \o ((ds \o x) \o w)
        BY <4>6
      <4> HIDE DEF u, ds, x, w
      <4>9. ((u \o ds) \o x) \o w = u \o ((ds \o x) \o w)
        <5>1. u \o ds \in Seq(Nat) /\ ds \o x \in Seq(Nat)
          BY <4>1, <4>2, <4>3
        <5>2. (u \o ds) \o x = u \o (ds \o x)
          BY <4>1, <4>2, <4>3, ConcatAssociative
        <5>3. (u \o (ds \o x)) \o w = u \o ((ds \o x) \o w)
          <6> DEFINE dx == ds \o x
          <6>1. dx \in Seq(Nat)
            BY <5>1
          <6> HIDE DEF dx
          <6>2. (u \o dx) \o w = u \o (dx \o w)
            BY <4>1, <4>4, <6>1, ConcatAssociative
          <6> QED BY <6>2 DEF dx
        <5> QED BY <5>2, <5>3
      <4> QED BY <4>7, <4>8, <4>9
    <3> QED BY <3>1, <3>2
  <2> QED BY <2>1, <2>3, <2>4
<1>16. all = U[0] \o R[0]
  <2> HIDE DEF T
  <2>1. \A l \in 0 .. M : l \in T
    BY <1>14, <1>15, Climb
  <2>2. M \in T /\ M - M = 0
    BY <2>1
  <2> QED BY <2>2 DEF T
<1>17. all = R[0]
  <2>1. R[0] \in Seq(Nat)
    <3>1. 0 \in 0 .. M
      OBVIOUS
    <3> QED BY <1>11, <3>1
  <2> QED BY <1>3, <1>16, <2>1
<1> QED BY <1>13, <1>17 DEF all

\* From a place where no run is under way to the next rank that is not zero.
NextRun(rs, M, R, u, j) ==
  /\ j \in u .. M
  /\ \A c \in u + 1 .. j : rs[c] = 0
  /\ IF j = M THEN R[u] = RunDigits(j - u)
     ELSE rs[j + 1] # 0 /\ R[u] = (RunDigits(j - u) \o <<rs[j + 1] + 1>>) \o R[j + 1]

\* A run of zeros ends before a rank that is not zero, or with the block.
LEMMA NextRunIs ==
  ASSUME NEW rs, NEW M, NEW run, NEW R, CodesBy(rs, M, run, R), NEW u \in 0 .. M, run[u] = 0
  PROVE  \E j : NextRun(rs, M, R, u, j)
<1>1. /\ M \in Nat /\ R[M] = RunDigits(run[M])
      /\ \A c \in 1 .. M : run[c] = IF rs[c] = 0 THEN run[c - 1] + 1 ELSE 0
      /\ \A c \in 1 .. M : R[c - 1] = IF rs[c] = 0 THEN R[c]
                                      ELSE (RunDigits(run[c - 1]) \o <<rs[c] + 1>>) \o R[c]
  BY DEF CodesBy
<1> DEFINE L == {j \in Nat : u <= j /\ j <= M /\ (j = M \/ rs[j + 1] # 0)}
<1>2. PICK j \in L : \A z \in L : j <= z
  <2>1. M \in L /\ L \subseteq Nat
    BY <1>1
  <2> HIDE DEF L
  <2> QED BY <2>1, Least
<1>3. j \in u .. M /\ j \in Nat /\ (j = M \/ rs[j + 1] # 0)
  BY <1>1
<1>4. ASSUME NEW c \in u + 1 .. j PROVE rs[c] = 0
  <2>1. c - 1 \in Nat /\ u <= c - 1 /\ c - 1 <= M /\ ~ (j <= c - 1) /\ (c - 1) + 1 = c
    BY <1>1, <1>3
  <2>2. c - 1 \notin L
    BY <1>2, <2>1
  <2> QED BY <2>1, <2>2
<1> HIDE DEF L
<1> DEFINE T == {l \in 0 .. j - u : run[u + l] = l /\ R[u + l] = R[u]}
<1>5. 0 \in T
  <2>1. 0 \in 0 .. j - u /\ u + 0 = u
    BY <1>3
  <2> QED BY <2>1
<1>6. ASSUME NEW l \in 1 .. j - u, l - 1 \in T PROVE l \in T
  <2>1. u + l \in u + 1 .. j /\ u + l \in 1 .. M /\ (u + l) - 1 = u + (l - 1) /\ l \in 0 .. j - u /\ (l - 1) + 1 = l
    BY <1>1, <1>3
  <2>2. rs[u + l] = 0
    BY <1>4, <2>1
  <2>3. run[u + (l - 1)] = l - 1 /\ R[u + (l - 1)] = R[u]
    BY <1>6
  <2> QED BY <1>1, <2>1, <2>2, <2>3
<1>7. run[j] = j - u /\ R[j] = R[u]
  <2>1. j - u \in Nat /\ u + (j - u) = j
    BY <1>3
  <2> HIDE DEF T
  <2>2. \A l \in 0 .. j - u : l \in T
    BY <1>5, <1>6, <2>1, Climb
  <2>3. j - u \in T
    BY <2>1, <2>2
  <2>4. run[u + (j - u)] = j - u /\ R[u + (j - u)] = R[u]
    BY <2>3 DEF T
  <2> QED BY <2>1, <2>4
<1>8. CASE j = M
  BY <1>1, <1>3, <1>4, <1>7, <1>8 DEF NextRun
<1>9. CASE j # M
  <2>1. j + 1 \in 1 .. M /\ (j + 1) - 1 = j
    BY <1>1, <1>3, <1>9
  <2>2. R[j] = (RunDigits(run[j]) \o <<rs[j + 1] + 1>>) \o R[j + 1]
    BY <1>1, <1>3, <1>9, <2>1
  <2> QED BY <1>3, <1>4, <1>7, <1>9, <2>2 DEF NextRun
<1> QED BY <1>8, <1>9

-----------------------------------------------------------------------------
(***************************************************************************)
(* The decoder of a block. In the middle of a run it has read some digits, *)
(* and what is left of the run is spelt in the digits to come; as no digit *)
(* is zero, it can tell that a run is complete when it fills the block.    *)
(***************************************************************************)

\* What follows the digits of the run that ends after rank j.
AfterRun(rs, M, R, j) == IF j = M THEN <<>> ELSE <<rs[j + 1] + 1>> \o R[j + 1]

\* Within a run of zeros, from rank u to rank j: some digits are read, left is spelt in
\* the others.
InRun(rs, M, R, u, j, left, held, w) ==
  /\ j \in u .. M /\ left \in Nat
  /\ held \in [n : Nat, pow2 : Nat] /\ held.pow2 >= 1 /\ (held.pow2 = 1 => held.n = 0)
  /\ j - u = held.n + held.pow2 * left
  /\ \A c \in u + 1 .. j : rs[c] = 0
  /\ j < M => rs[j + 1] # 0
  /\ w = RunDigits(left) \o AfterRun(rs, M, R, j)

\* The ranks read agree, and w is the code of the others.
Reads(rs, M, R, rk, held, w) ==
  /\ rk \in Seq(Nat) /\ Len(rk) <= M /\ \A c \in 1 .. Len(rk) : rk[c] = rs[c]
  /\ \/ Len(rk) = M /\ w = <<>> /\ held = NoRun
     \/ Len(rk) < M /\ \E j, left : InRun(rs, M, R, Len(rk), j, left, held, w)

\* What follows a run is coded in naturals.
LEMMA AfterRunIs ==
  ASSUME NEW rs, NEW M, NEW run, NEW R, CodesBy(rs, M, run, R), NEW j \in 0 .. M
  PROVE  AfterRun(rs, M, R, j) \in Seq(Nat)
<1>1. M \in Nat /\ rs \in [1 .. M -> Nat] /\ R \in [0 .. M -> Seq(Nat)]
  BY DEF CodesBy
<1>2. CASE j = M
  BY <1>2 DEF AfterRun
<1>3. CASE j # M
  <2>1. j + 1 \in 1 .. M /\ j + 1 \in 0 .. M
    BY <1>1, <1>3
  <2>2. R[j + 1] \in Seq(Nat) /\ <<rs[j + 1] + 1>> \in Seq(Nat)
    BY <1>1, <2>1
  <2> QED BY <1>3, <2>2 DEF AfterRun
<1> QED BY <1>2, <1>3

\* Where no run is under way, all that is left is the code of the other ranks.
LEMMA ReadingStarts ==
  ASSUME NEW rs, NEW M, NEW run, NEW R, CodesBy(rs, M, run, R), NEW rk \in Seq(Nat),
         Len(rk) <= M, \A c \in 1 .. Len(rk) : rk[c] = rs[c], run[Len(rk)] = 0
  PROVE  Reads(rs, M, R, rk, NoRun, R[Len(rk)])
<1> DEFINE u == Len(rk)
<1>1. M \in Nat /\ rs \in [1 .. M -> Nat] /\ R \in [0 .. M -> Seq(Nat)] /\ R[M] = RunDigits(run[M])
  BY DEF CodesBy
<1>2. u \in 0 .. M /\ u \in Nat
  BY <1>1
<1>3. CASE u = M
  <2>0. RunDigits(0) = <<>>
    <3>1. PICK v \in Nat : v = 0
      OBVIOUS
    <3>2. RunDigits(v) = <<>>
      BY <3>1, RunDigitsStep
    <3> QED BY <3>1, <3>2
  <2>1. R[u] = <<>>
    BY <1>1, <1>3, <2>0
  <2> QED BY <1>3, <2>1 DEF Reads
<1>4. CASE u # M
  <2> HIDE DEF u
  <2>1. PICK j : NextRun(rs, M, R, u, j)
    BY <1>2, NextRunIs DEF u
  <2>2. j \in u .. M /\ j \in 0 .. M /\ j - u \in Nat /\ j \in Nat
    BY <1>1, <1>2, <2>1 DEF NextRun
  <2>3. R[u] = RunDigits(j - u) \o AfterRun(rs, M, R, j)
    <3> DEFINE ds == RunDigits(j - u)
    <3>1. ds \in Seq(Nat)
      BY <2>2, RunDigitsStep
    <3>2. CASE j = M
      <4>1. R[u] = ds /\ AfterRun(rs, M, R, j) = <<>>
        BY <2>1, <3>2 DEF NextRun, AfterRun
      <4> HIDE DEF ds
      <4>2. ds \o <<>> = ds
        BY <3>1
      <4> QED BY <4>1, <4>2 DEF ds
    <3>3. CASE j # M
      <4>1. j + 1 \in 1 .. M /\ j + 1 \in 0 .. M
        BY <1>1, <2>2, <3>3
      <4> DEFINE x == <<rs[j + 1] + 1>>
                 y == R[j + 1]
      <4>2. x \in Seq(Nat) /\ y \in Seq(Nat)
        BY <1>1, <4>1
      <4>3. R[u] = (ds \o x) \o y /\ AfterRun(rs, M, R, j) = x \o y
        BY <2>1, <3>3 DEF NextRun, AfterRun
      <4> HIDE DEF ds, x, y
      <4>4. (ds \o x) \o y = ds \o (x \o y)
        BY <3>1, <4>2, ConcatAssociative
      <4> QED BY <4>3, <4>4 DEF ds
    <3> QED BY <3>2, <3>3
  <2>4. /\ NoRun \in [n : Nat, pow2 : Nat] /\ NoRun.pow2 = 1 /\ NoRun.n = 0
        /\ j - u = NoRun.n + NoRun.pow2 * (j - u)
    BY <1>2, <2>2 DEF NoRun
  <2>5. /\ \A c \in u + 1 .. j : rs[c] = 0
        /\ j < M => rs[j + 1] # 0
    <3>1. j < M => j # M
      BY <1>1, <2>2
    <3>2. \A c \in u + 1 .. j : rs[c] = 0
      BY <2>1 DEF NextRun
    <3>3. j # M => rs[j + 1] # 0
      BY <2>1 DEF NextRun
    <3> QED BY <3>1, <3>2, <3>3
  <2>6. InRun(rs, M, R, u, j, j - u, NoRun, R[u])
    BY <2>2, <2>3, <2>4, <2>5 DEF InRun
  <2>7. u < M
    BY <1>1, <1>2, <1>4
  <2> QED BY <2>6, <2>7 DEF Reads, u
<1> QED BY <1>3, <1>4

\* Zeros behind what was read.
LEMMA ZerosIs ==
  ASSUME NEW rk \in Seq(Nat), NEW n \in Nat
  PROVE  /\ rk \o Zeros(n) \in Seq(Nat) /\ Len(rk \o Zeros(n)) = Len(rk) + n
         /\ \A c \in 1 .. Len(rk) + n : (rk \o Zeros(n))[c] = IF c <= Len(rk) THEN rk[c] ELSE 0
<1> DEFINE z == Zeros(n)
<1>1. z \in [1 .. n -> Nat] /\ \A c \in 1 .. n : z[c] = 0
  BY DEF Zeros
<1> HIDE DEF z
<1>2. z \in Seq(Nat) /\ Len(z) = n
  BY <1>1, FunctionIsSeq
<1>3. /\ rk \o z \in Seq(Nat) /\ Len(rk \o z) = Len(rk) + n
      /\ \A c \in 1 .. Len(rk) + n : (rk \o z)[c] = IF c <= Len(rk) THEN rk[c] ELSE z[c - Len(rk)]
  BY <1>2, ConcatProperties
<1>4. \A c \in 1 .. Len(rk) + n : c <= Len(rk) \/ c - Len(rk) \in 1 .. n
  OBVIOUS
<1>5. \A c \in 1 .. Len(rk) + n : (rk \o z)[c] = IF c <= Len(rk) THEN rk[c] ELSE 0
  BY <1>1, <1>3, <1>4
<1> QED BY <1>3, <1>5 DEF z

\* Products, where the length of a run is read digit by digit.
LEMMA Distribute ==
  ASSUME NEW a \in Nat, NEW b \in Nat
  PROVE  /\ a * b \in Nat /\ a * (b + 1) = a * b + a
         /\ a * (1 + 2 * b) = a + (2 * a) * b /\ a * (2 + 2 * b) = 2 * a + (2 * a) * b
  OBVIOUS

\* A run that fills the block is complete.
LEMMA ReadingFills ==
  ASSUME NEW rs, NEW M, NEW run, NEW R, CodesBy(rs, M, run, R), NEW rk, NEW held, NEW w,
         Reads(rs, M, R, rk, held, w), Len(rk) < M, Len(rk) + held.n >= M
  PROVE  Reads(rs, M, R, rk \o Zeros(held.n), NoRun, w)
<1>1. M \in Nat /\ rs \in [1 .. M -> Nat] /\ rk \in Seq(Nat) /\ Len(rk) \in Nat
  BY DEF CodesBy, Reads
<1>2. PICK j, left : InRun(rs, M, R, Len(rk), j, left, held, w)
  BY <1>1 DEF Reads
<1> DEFINE u == Len(rk)
           n == held.n
           p == held.pow2
           prod == p * left
<1>3. /\ j \in u .. M /\ left \in Nat /\ n \in Nat /\ p \in Nat /\ p >= 1
      /\ j - u = n + prod
      /\ \A c \in u + 1 .. j : rs[c] = 0
      /\ w = RunDigits(left) \o AfterRun(rs, M, R, j)
  BY <1>2 DEF InRun
<1>4. prod \in Nat
  BY <1>3
<1>5. u \in Nat /\ u < M /\ u + n >= M
  BY <1>1
<1>6. \A c \in 1 .. u : rk[c] = rs[c]
  BY DEF Reads
<1>7. /\ rk \o Zeros(n) \in Seq(Nat) /\ Len(rk \o Zeros(n)) = u + n
      /\ \A c \in 1 .. u + n : (rk \o Zeros(n))[c] = IF c <= u THEN rk[c] ELSE 0
  <2>1. n \in Nat
    BY <1>3
  <2> HIDE DEF n
  <2> QED BY <1>1, <2>1, ZerosIs
<1>8. left # 0 => prod >= 1
  <2> SUFFICES ASSUME left # 0 PROVE prod >= 1
    OBVIOUS
  <2>1. PICK m \in Nat : left = m + 1
    <3>1. left - 1 \in Nat /\ left = (left - 1) + 1
      BY <1>3
    <3> QED BY <3>1
  <2>2. p * (m + 1) = p * m + p /\ p * m \in Nat
    <3>1. p \in Nat
      BY <1>3
    <3> HIDE DEF p
    <3> QED BY <2>1, <3>1, Distribute
  <2> QED BY <1>3, <2>1, <2>2
<1> HIDE DEF u, n, p, prod
<1>9. u + n = M /\ j = M /\ prod = 0
  BY <1>1, <1>3, <1>4, <1>5
<1>10. w = <<>>
  <2>1. left = 0
    BY <1>3, <1>8, <1>9
  <2>2. RunDigits(left) = <<>>
    BY <2>1, RunDigitsStep
  <2>3. AfterRun(rs, M, R, j) = <<>>
    BY <1>9 DEF AfterRun
  <2>4. <<>> \o <<>> = <<>>
    BY ConcatEmptySeq
  <2> QED BY <1>3, <2>2, <2>3, <2>4
<1>11. ASSUME NEW c \in 1 .. M PROVE (rk \o Zeros(n))[c] = rs[c]
  <2>1. CASE c <= u
    BY <1>5, <1>6, <1>7, <1>9, <2>1
  <2>2. CASE ~ (c <= u)
    <3>1. c \in u + 1 .. j
      BY <1>5, <1>9, <2>2
    <3> QED BY <1>3, <1>7, <1>9, <2>2, <3>1
  <2> QED BY <2>1, <2>2
<1>12. Reads(rs, M, R, rk \o Zeros(n), NoRun, w)
  <2> DEFINE rk2 == rk \o Zeros(n)
  <2>1. rk2 \in Seq(Nat) /\ Len(rk2) = M /\ \A c \in 1 .. M : rk2[c] = rs[c]
    BY <1>7, <1>9, <1>11
  <2> HIDE DEF rk2
  <2>2. Reads(rs, M, R, rk2, NoRun, w)
    BY <1>1, <1>10, <2>1 DEF Reads
  <2> QED BY <2>2 DEF rk2
<1> QED BY <1>12 DEF n

\* The next symbol, a digit of the run or the rank that ends it.
ReadsOn(rs, M, R, rk, held, w) ==
  \E x \in Nat, y \in Seq(Nat) :
    /\ w = <<x>> \o y
    /\ x \in {0, 1} =>
         Reads(rs, M, R, rk, [n |-> held.n + (x + 1) * held.pow2, pow2 |-> 2 * held.pow2], y)
    /\ x \notin {0, 1} =>
         Reads(rs, M, R, (rk \o Zeros(held.n)) \o <<x - 1>>, NoRun, y)

\* One more symbol belongs to the block, a digit of the run or the rank that ends it.
LEMMA ReadingStep ==
  ASSUME NEW rs, NEW M, NEW run, NEW R, CodesBy(rs, M, run, R), NEW rk, NEW held, NEW w,
         Reads(rs, M, R, rk, held, w), Len(rk) < M, ~ (held.pow2 > 1 /\ Len(rk) + held.n >= M)
  PROVE  ReadsOn(rs, M, R, rk, held, w)
<1>1. M \in Nat /\ rs \in [1 .. M -> Nat] /\ R \in [0 .. M -> Seq(Nat)] /\ rk \in Seq(Nat) /\ Len(rk) \in Nat
  BY DEF CodesBy, Reads
<1>2. PICK j, left : InRun(rs, M, R, Len(rk), j, left, held, w)
  BY <1>1 DEF Reads
<1>3. PICK u \in Nat : u = Len(rk) /\ u < M
  BY <1>1
<1>4. PICK n \in Nat : n = held.n
  BY <1>2 DEF InRun
<1>5. PICK p \in Nat : p = held.pow2 /\ p >= 1
  BY <1>2 DEF InRun
<1>6. /\ j \in u .. M /\ left \in Nat /\ (p = 1 => n = 0)
      /\ j - u = n + p * left
      /\ \A c \in u + 1 .. j : rs[c] = 0
      /\ j < M => rs[j + 1] # 0
      /\ w = RunDigits(left) \o AfterRun(rs, M, R, j)
  BY <1>2, <1>3, <1>4, <1>5 DEF InRun
<1>7. j \in Nat /\ j \in 0 .. M /\ j <= M
  BY <1>1, <1>3, <1>6
<1>8. AfterRun(rs, M, R, j) \in Seq(Nat)
  BY <1>7, AfterRunIs
<1>9. \A c \in 1 .. u : rk[c] = rs[c]
  BY <1>3 DEF Reads
<1>10. CASE left > 0
  <2>1. PICK d \in {1, 2}, v \in Nat : d = DigitOf(left) /\ v = LeftAfter(left) /\ left = d + 2 * v
    BY <1>6, <1>10, DigitIs
  <2>2. RunDigits(left) = <<d - 1>> \o RunDigits(v)
    BY <1>6, <1>10, <2>1, RunDigitsStep
  <2> DEFINE ds == RunDigits(v)
             af == AfterRun(rs, M, R, j)
             y == ds \o af
  <2>3. ds \in Seq(Nat)
    BY <2>1, RunDigitsStep
  <2>4. w = <<d - 1>> \o y
    <3>1. w = (<<d - 1>> \o ds) \o af
      BY <1>6, <2>2
    <3>2. <<d - 1>> \in Seq(Nat)
      BY <2>1
    <3> DEFINE x == <<d - 1>>
    <3>3. x \in Seq(Nat) /\ w = (x \o ds) \o af
      BY <3>1, <3>2
    <3>4. af \in Seq(Nat)
      BY <1>8
    <3> HIDE DEF x, ds, af
    <3>5. (x \o ds) \o af = x \o (ds \o af)
      BY <2>3, <3>3, <3>4, ConcatAssociative
    <3> QED BY <3>3, <3>5 DEF x, y
  <2>5. y \in Seq(Nat)
    BY <1>8, <2>3
  <2> DEFINE pend2 == [n |-> n + ((d - 1) + 1) * p, pow2 |-> 2 * p]
  <2>6. InRun(rs, M, R, u, j, v, pend2, y)
    <3>1. d * p \in Nat /\ ((d - 1) + 1) * p = d * p
      BY <2>1
    <3>2. p * left = d * p + (2 * p) * v
      <4>1. CASE d = 1
        <5>1. left = 1 + 2 * v /\ d * p = p
          BY <2>1, <4>1
        <5>2. p * (1 + 2 * v) = p + (2 * p) * v
          BY Distribute
        <5> QED BY <5>1, <5>2
      <4>2. CASE d = 2
        <5>1. left = 2 + 2 * v /\ d * p = 2 * p
          BY <2>1, <4>2
        <5>2. p * (2 + 2 * v) = 2 * p + (2 * p) * v
          BY Distribute
        <5> QED BY <5>1, <5>2
      <4> QED BY <2>1, <4>1, <4>2
    <3> DEFINE dp == d * p
               n2 == n + ((d - 1) + 1) * p
               p2 == 2 * p
               prod == p2 * v
    <3>3. p2 \in Nat /\ p2 >= 2 /\ n2 \in Nat /\ n2 = n + dp
      BY <1>5, <3>1
    <3>4. prod \in Nat
      <4>1. p2 \in Nat
        BY <3>3
      <4> HIDE DEF p2
      <4> QED BY <2>1, <4>1, Distribute
    <3>5. j - u = n + (dp + prod)
      BY <1>6, <3>2
    <3>6. pend2 = [n |-> n2, pow2 |-> p2]
      OBVIOUS
    <3>9. dp \in Nat
      BY <3>1
    <3> HIDE DEF dp, n2, p2, pend2, y
    <3>7. pend2 \in [n : Nat, pow2 : Nat] /\ pend2.pow2 = p2 /\ pend2.n = n2
      BY <3>3, <3>6
    <3>8. j - u = n2 + p2 * v
      <4>1. prod = p2 * v
        OBVIOUS
      <4> HIDE DEF prod
      <4>2. j - u = n2 + prod
        BY <1>3, <1>4, <1>7, <3>3, <3>4, <3>5, <3>9
      <4> QED BY <4>1, <4>2
    <3>10. y = RunDigits(v) \o AfterRun(rs, M, R, j)
      BY DEF y
    <3>11. pend2.pow2 >= 1 /\ pend2.pow2 # 1
      BY <3>3, <3>7
    <3> QED BY <1>6, <2>1, <3>7, <3>8, <3>10, <3>11 DEF InRun
  <2>7. pend2 = [n |-> held.n + ((d - 1) + 1) * held.pow2, pow2 |-> 2 * held.pow2]
    BY <1>4, <1>5
  <2> HIDE DEF y, pend2
  <2>8. Reads(rs, M, R, rk, pend2, y)
    BY <1>1, <1>3, <1>9, <2>6 DEF Reads
  <2>9. d - 1 \in Nat /\ d - 1 \in {0, 1}
    BY <2>1
  <2> QED BY <2>4, <2>5, <2>7, <2>8, <2>9 DEF ReadsOn
<1>11. CASE left = 0
  <2>1. RunDigits(left) = <<>>
    BY <1>11, RunDigitsStep, <1>6
  <2>2. w = AfterRun(rs, M, R, j)
    <3> DEFINE af == AfterRun(rs, M, R, j)
    <3>1. af \in Seq(Nat)
      BY <1>8
    <3>2. w = <<>> \o af
      BY <1>6, <2>1
    <3> HIDE DEF af
    <3>3. w = af
      BY <3>1, <3>2
    <3> QED BY <3>3 DEF af
  <2>3. j = u + n
    <3>1. p * 0 = 0
      OBVIOUS
    <3>2. j - u = n + p * 0
      BY <1>6, <1>11
    <3> QED BY <1>3, <1>4, <1>7, <3>1, <3>2
  <2>4. j < M
    <3>1. CASE p = 1
      BY <1>1, <1>3, <1>6, <2>3, <3>1
    <3>2. CASE p # 1
      <4>1. p > 1
        BY <1>5, <3>2
      <4>2. ~ (u + n >= M)
        BY <1>3, <1>4, <1>5, <4>1
      <4> QED BY <1>1, <1>3, <1>4, <2>3, <4>2
    <3> QED BY <3>1, <3>2
  <2>5. j + 1 \in 1 .. M /\ j + 1 \in 0 .. M /\ (j + 1) - 1 = j /\ j # M
    BY <1>1, <1>7, <2>4
  <2>6. PICK x \in Nat : x = rs[j + 1] + 1 /\ x - 1 = rs[j + 1] /\ x \notin {0, 1}
    <3>1. rs[j + 1] \in Nat /\ rs[j + 1] # 0
      BY <1>1, <1>6, <2>4, <2>5
    <3> QED BY <3>1
  <2>7. w = <<x>> \o R[j + 1] /\ R[j + 1] \in Seq(Nat)
    BY <1>1, <2>2, <2>5, <2>6 DEF AfterRun
  <2> DEFINE z == rk \o Zeros(n)
             rk2 == z \o <<x - 1>>
  <2>8. z \in Seq(Nat) /\ Len(z) = j /\ \A c \in 1 .. j : z[c] = IF c <= u THEN rk[c] ELSE 0
    BY <1>1, <1>3, <1>4, <2>3, ZerosIs
  <2> HIDE DEF z
  <2>9. rk2 \in Seq(Nat) /\ Len(rk2) = j + 1 /\ \A c \in 1 .. j + 1 : rk2[c] = IF c <= j THEN z[c] ELSE x - 1
    <3>1. x - 1 \in Nat
      BY <2>6
    <3> QED BY <2>8, <3>1
  <2> HIDE DEF rk2
  <2>10. ASSUME NEW c \in 1 .. j + 1 PROVE rk2[c] = rs[c]
    <3>1. CASE c <= u
      <4>1. c \in 1 .. u /\ c \in 1 .. j /\ c <= j
        BY <1>3, <1>6, <1>7, <3>1
      <4> QED BY <1>9, <2>8, <2>9, <3>1, <4>1
    <3>2. CASE ~ (c <= u) /\ c <= j
      <4>1. c \in u + 1 .. j /\ c \in 1 .. j
        BY <1>3, <1>7, <3>2
      <4> QED BY <1>6, <2>8, <2>9, <3>2, <4>1
    <3>3. CASE ~ (c <= j)
      <4>1. c = j + 1
        BY <1>7, <3>3
      <4> QED BY <2>6, <2>9, <3>3, <4>1
    <3> QED BY <3>1, <3>2, <3>3
  <2>11. run[j + 1] = 0
    <3>1. rs[j + 1] # 0
      BY <1>6, <2>4
    <3> QED BY <2>5, <3>1 DEF CodesBy
  <2>12. Reads(rs, M, R, rk2, NoRun, R[j + 1])
    <3>1. Len(rk2) = j + 1 /\ Len(rk2) <= M /\ run[Len(rk2)] = 0 /\ \A c \in 1 .. Len(rk2) : rk2[c] = rs[c]
      BY <1>1, <2>5, <2>9, <2>10, <2>11
    <3>2. Reads(rs, M, R, rk2, NoRun, R[Len(rk2)])
      BY <2>9, <3>1, ReadingStarts
    <3> QED BY <3>1, <3>2
  <2>13. rk2 = (rk \o Zeros(held.n)) \o <<x - 1>>
    BY <1>4 DEF rk2, z
  <2> QED BY <2>6, <2>7, <2>12, <2>13 DEF ReadsOn
<1>12. left > 0 \/ left = 0
  BY <1>6
<1> QED BY <1>10, <1>11, <1>12

\* Where nothing is left, what was read is all, or a run that fills the block.
LEMMA ReadingUsedUp ==
  ASSUME NEW rs, NEW M, NEW run, NEW R, CodesBy(rs, M, run, R), NEW rk, NEW held,
         Reads(rs, M, R, rk, held, <<>>)
  PROVE  Len(rk) + held.n >= M
<1>1. M \in Nat /\ rk \in Seq(Nat) /\ Len(rk) \in Nat /\ Len(rk) <= M
  BY DEF CodesBy, Reads
<1>2. CASE Len(rk) = M /\ held = NoRun
  BY <1>1, <1>2 DEF NoRun
<1>3. CASE Len(rk) < M
  <2> SUFFICES ASSUME ~ (Len(rk) + held.n >= M) PROVE FALSE
    OBVIOUS
  <2>1. PICK x \in Nat, y \in Seq(Nat) : <<>> = <<x>> \o y
    <3>1. ~ (held.pow2 > 1 /\ Len(rk) + held.n >= M)
      OBVIOUS
    <3>2. ReadsOn(rs, M, R, rk, held, <<>>)
      BY <1>3, <3>1, ReadingStep
    <3> QED BY <3>2 DEF ReadsOn
  <2>2. Len(<<x>> \o y) = 1 + Len(y) /\ Len(y) \in Nat /\ Len(<<>>) = 0
    OBVIOUS
  <2> QED BY <2>1, <2>2
<1> QED BY <1>1, <1>2, <1>3 DEF Reads

-----------------------------------------------------------------------------
(***************************************************************************)
(* The stream of all blocks: where they start, and the code of those from  *)
(* one block on.                                                           *)
(***************************************************************************)

\* The blocks of what is compressed, their ranks and their codes.
BlockTill(inp, b) == IF BlockStart(b + 1) < Len(inp) THEN BlockStart(b + 1) ELSE Len(inp)
BlockAt(inp, b) == SubSeq(inp, BlockStart(b) + 1, BlockTill(inp, b))
RanksAt(inp, b) == MtfEncode(EncodeBlock(BlockAt(inp, b)))
CodeAt(inp, b) == RleEncodeZeroRuns(RanksAt(inp, b))

\* Where blocks start.
LEMMA BlockStarts ==
  ASSUME NEW b \in Nat
  PROVE  /\ BlockStart(b + 1) \in Nat /\ BlockStart(b + 2) = BlockStart(b + 1) + BlockSize
         /\ BlockStart(b + 1) >= b /\ BlockSize \in Nat /\ BlockSize >= 1 /\ BlockStart(1) = 0
<1>1. BlockSize \in Nat /\ BlockSize >= 1
  BY BwtAssumption
<1>2. (b + 1) - 1 = b /\ (b + 2) - 1 = b + 1 /\ 1 - 1 = 0
  OBVIOUS
<1>3. b * BlockSize \in Nat /\ (b + 1) * BlockSize = b * BlockSize + BlockSize /\ 0 * BlockSize = 0
  BY <1>1
<1>4. b * BlockSize >= b
  <2>1. PICK z \in Nat : BlockSize = z + 1
    <3>1. BlockSize - 1 \in Nat /\ BlockSize = (BlockSize - 1) + 1
      BY <1>1
    <3> QED BY <3>1
  <2>2. b * (z + 1) = b * z + b /\ b * z \in Nat
    BY Distribute
  <2> QED BY <2>1, <2>2
<1> QED BY <1>1, <1>2, <1>3, <1>4 DEF BlockStart

\* A block is not empty nor too long, and follows those before it.
LEMMA BlockAtIs ==
  ASSUME NEW inp \in Seq(0 .. NumBytes - 1), NEW b \in Nat, BlockStart(b + 1) < Len(inp)
  PROVE  /\ BlockAt(inp, b + 1) \in Seq(0 .. NumBytes - 1)
         /\ Len(BlockAt(inp, b + 1)) \in 1 .. BlockSize
         /\ b + 1 \in 0 .. Len(inp)
         /\ BlockTill(inp, b) = BlockStart(b + 1)
         /\ SubSeq(inp, 1, BlockTill(inp, b)) \o BlockAt(inp, b + 1) = SubSeq(inp, 1, BlockTill(inp, b + 1))
<1> DEFINE from == BlockStart(b + 1)
           to == BlockTill(inp, b + 1)
           n == Len(inp)
<1>1. n \in Nat
  OBVIOUS
<1>2. /\ from \in Nat /\ from >= b /\ from < n
      /\ BlockStart((b + 1) + 1) = from + BlockSize /\ BlockSize \in Nat /\ BlockSize >= 1
  <2>1. (b + 1) + 1 = b + 2
    OBVIOUS
  <2> QED BY <2>1, BlockStarts
<1> HIDE DEF from
<1>3. to \in from + 1 .. n /\ to <= from + BlockSize
  BY <1>1, <1>2 DEF BlockTill
<1> HIDE DEF to
<1>4. BlockAt(inp, b + 1) = SubSeq(inp, from + 1, to)
  BY DEF BlockAt, from, to
<1>5. BlockTill(inp, b) = from
  BY <1>2 DEF BlockTill, from
<1>6. from + 1 \in 1 .. Len(inp) + 1 /\ to \in (from + 1) - 1 .. Len(inp)
  BY <1>1, <1>2, <1>3
<1>7. /\ SubSeq(inp, from + 1, to) \in Seq(0 .. NumBytes - 1)
      /\ Len(SubSeq(inp, from + 1, to)) = to - (from + 1) + 1
  <2> DEFINE S == 0 .. NumBytes - 1
             m == from + 1
  <2>1. inp \in Seq(S) /\ m \in 1 .. Len(inp) + 1 /\ to \in m - 1 .. Len(inp)
    BY <1>6
  <2> HIDE DEF S, m
  <2>2. SubSeq(inp, m, to) \in Seq(S) /\ Len(SubSeq(inp, m, to)) = IF m <= to THEN to - m + 1 ELSE 0
    BY <2>1, SubSeqProperties
  <2>3. m <= to
    BY <1>1, <1>2, <1>3 DEF m
  <2> QED BY <2>2, <2>3 DEF S, m
<1>8. to - (from + 1) + 1 \in 1 .. BlockSize
  BY <1>1, <1>2, <1>3
<1>9. SubSeq(inp, 1, from) \o SubSeq(inp, from + 1, to) = SubSeq(inp, 1, to)
  <2> DEFINE S == 0 .. NumBytes - 1
  <2>1. inp \in Seq(S) /\ 1 \in 1 .. Len(inp) + 1 /\ from \in 1 - 1 .. Len(inp) /\ to \in from .. Len(inp)
    BY <1>1, <1>2, <1>3
  <2> HIDE DEF S
  <2> QED BY <2>1, ConcatAdjacentSubSeq
<1>10. b + 1 \in 0 .. n
  BY <1>1, <1>2
<1>11. BlockAt(inp, b + 1) \in Seq(0 .. NumBytes - 1) /\ Len(BlockAt(inp, b + 1)) \in 1 .. BlockSize
  <2>1. Len(BlockAt(inp, b + 1)) = to - (from + 1) + 1
    BY <1>4, <1>7
  <2>2. BlockAt(inp, b + 1) \in Seq(0 .. NumBytes - 1)
    BY <1>4, <1>7
  <2> QED BY <1>8, <2>1, <2>2
<1>12. SubSeq(inp, 1, from) \o BlockAt(inp, b + 1) = SubSeq(inp, 1, to)
  BY <1>4, <1>9
<1>13. SubSeq(inp, 1, BlockTill(inp, b)) \o BlockAt(inp, b + 1) = SubSeq(inp, 1, to)
  BY <1>5, <1>12
<1> QED BY <1>5, <1>10, <1>11, <1>13 DEF to, from, n

\* The ranks of a block are coded, and their transform is undone.
LEMMA RanksAtIs ==
  ASSUME NEW block \in Seq(0 .. NumBytes - 1)
  PROVE  LET rs == MtfEncode(EncodeBlock(block))
         IN  /\ Len(rs) = Len(block) + 1 /\ Len(rs) \in Nat /\ rs \in [1 .. Len(rs) -> Nat]
             /\ DecodeBlock(MtfDecode(rs)) = block
<1> DEFINE column == EncodeBlock(block)
           rs == MtfEncode(column)
<1>0. NumBytes \in Nat
  BY BwtAssumption
<1>1. column \in Seq(0 .. NumBytes) /\ Len(column) = Len(block) + 1
  BY EncodeBlockIs
<1>2. block \in Seq(Nat)
  <2>1. \A p \in 1 .. Len(block) : block[p] \in 0 .. NumBytes - 1
    BY ElementOfSeq
  <2>2. block \in [1 .. Len(block) -> Nat] /\ Len(block) \in Nat
    <3>1. DOMAIN block = 1 .. Len(block) /\ block = [p \in 1 .. Len(block) |-> block[p]]
      OBVIOUS
    <3> QED BY <2>1, <3>1, <1>0
  <2> QED BY <2>1, <2>2, FunctionIsSeq
<1>3. DecodeBlock(column) = block
  BY <1>2, TransformUndone
<1> HIDE DEF column
<1>4. rs \in Seq(0 .. NumBytes) /\ Len(rs) = Len(column) /\ MtfDecode(rs) = column
  BY <1>1, ToFrontUndone
<1> HIDE DEF rs
<1>5. Len(rs) \in Nat /\ rs \in [1 .. Len(rs) -> Nat]
  <2>1. \A p \in 1 .. Len(rs) : rs[p] \in 0 .. NumBytes
    BY <1>4, ElementOfSeq
  <2>2. DOMAIN rs = 1 .. Len(rs) /\ rs = [p \in 1 .. Len(rs) |-> rs[p]] /\ Len(rs) \in Nat
    BY <1>4
  <2> QED BY <2>1, <2>2, <1>0
<1> QED BY <1>1, <1>3, <1>4, <1>5 DEF rs, column

\* The codes of the blocks behind block b, one after the other.
Rests(inp, rest) ==
  /\ rest \in [0 .. Len(inp) -> Seq(Nat)]
  /\ \A b \in 0 .. Len(inp) :
       rest[b] = IF BlockStart(b + 1) < Len(inp) THEN CodeAt(inp, b + 1) \o rest[b + 1] ELSE <<>>

\* The code of a block is coded by its ranks.
LEMMA CodeAtIs ==
  ASSUME NEW inp \in Seq(0 .. NumBytes - 1), NEW b \in Nat, BlockStart(b + 1) < Len(inp)
  PROVE  \E run, R : /\ CodesBy(RanksAt(inp, b + 1), Len(BlockAt(inp, b + 1)) + 1, run, R)
                     /\ R[0] = CodeAt(inp, b + 1) /\ R[0] \in Seq(Nat)
<1> DEFINE block == BlockAt(inp, b + 1)
           rs == MtfEncode(EncodeBlock(block))
           M == Len(rs)
<1>1. block \in Seq(0 .. NumBytes - 1)
  BY BlockAtIs
<1> HIDE DEF block
<1>2. M = Len(block) + 1 /\ M \in Nat /\ rs \in [1 .. M -> Nat]
  BY <1>1, RanksAtIs
<1>3. RanksAt(inp, b + 1) = rs /\ CodeAt(inp, b + 1) = RleEncodeZeroRuns(rs)
  BY DEF RanksAt, CodeAt, block
<1> HIDE DEF rs
<1>4. PICK run, R : CodesBy(rs, M, run, R) /\ R[0] = RleEncodeZeroRuns(rs)
  <2>1. PICK m \in Nat : m = M
    BY <1>2
  <2>2. rs \in [1 .. m -> Nat] /\ Len(rs) = m
    BY <1>2, <2>1
  <2>3. \E run, R : CodesBy(rs, m, run, R) /\ R[0] = RleEncodeZeroRuns(rs)
    BY <2>2, RleIs
  <2> QED BY <2>1, <2>3
<1>5. R[0] \in Seq(Nat)
  <2>1. 0 \in 0 .. M
    BY <1>2
  <2> QED BY <1>4, <2>1 DEF CodesBy
<1>6. CodesBy(rs, Len(block) + 1, run, R)
  BY <1>2, <1>4
<1> QED BY <1>3, <1>4, <1>5, <1>6 DEF block

\* There are such codes for everything that is compressed.
LEMMA RestsExist ==
  ASSUME NEW inp \in Seq(0 .. NumBytes - 1)
  PROVE  \E rest : Rests(inp, rest)
<1> DEFINE n == Len(inp)
           Open(b) == BlockStart(b + 1) < n
           codes(b) == IF Open(b) THEN CodeAt(inp, b + 1) ELSE <<>>
           at(l) == n - l
           G == [y \in (1 .. n) \X Seq(Nat) |-> IF Open(at(y[1])) THEN codes(at(y[1])) \o y[2] ELSE <<>>]
<1>1. n \in Nat
  OBVIOUS
<1>2. ASSUME NEW b \in Nat PROVE codes(b) \in Seq(Nat)
  <2>1. CASE Open(b)
    <3>1. BlockStart(b + 1) < Len(inp)
      BY <2>1
    <3>2. CodeAt(inp, b + 1) \in Seq(Nat)
      BY <3>1, CodeAtIs
    <3> QED BY <2>1, <3>2
  <2>2. CASE ~ Open(b)
    BY <2>2
  <2> QED BY <2>1, <2>2
<1>3. ~ Open(n)
  <2>1. BlockStart(n + 1) >= n /\ BlockStart(n + 1) \in Nat
    BY <1>1, BlockStarts
  <2> QED BY <1>1, <2>1
<1>4. \A b : Open(b) <=> BlockStart(b + 1) < Len(inp)
  OBVIOUS
<1>5. \A b : Open(b) => codes(b) = CodeAt(inp, b + 1)
  OBVIOUS
<1> HIDE DEF n, Open, codes
<1>6. \A l \in 1 .. n : at(l) \in 0 .. n - 1 /\ at(l) \in Nat /\ n - at(l) = l
  BY <1>1
<1> HIDE DEF at
<1>7. G \in [(1 .. n) \X Seq(Nat) -> Seq(Nat)]
  <2>1. ASSUME NEW l \in 1 .. n, NEW w \in Seq(Nat) PROVE codes(at(l)) \o w \in Seq(Nat)
    <3>1. codes(at(l)) \in Seq(Nat)
      BY <1>2, <1>6
    <3> QED BY <3>1
  <2> QED BY <2>1
<1>8. \A l \in 1 .. n, w \in Seq(Nat) : G[<<l, w>>] = IF Open(at(l)) THEN codes(at(l)) \o w ELSE <<>>
  OBVIOUS
<1> HIDE DEF G
<1>9. PICK g \in [0 .. n -> Seq(Nat)] : Evolves(g, n, <<>>, G)
  <2>1. <<>> \in Seq(Nat)
    OBVIOUS
  <2> QED BY <1>1, <1>7, <2>1, Evolution, Zenon
<1> DEFINE rest == [b \in 0 .. n |-> g[n - b]]
<1>10. rest \in [0 .. n -> Seq(Nat)]
  <2>1. \A b \in 0 .. n : n - b \in 0 .. n
    BY <1>1
  <2> QED BY <1>9, <2>1
<1>11. ASSUME NEW b \in 0 .. n
       PROVE  rest[b] = IF Open(b) THEN CodeAt(inp, b + 1) \o rest[b + 1] ELSE <<>>
  <2>1. CASE b = n
    <3>1. rest[n] = g[0]
      <4>1. n \in 0 .. n /\ n - n = 0
        BY <1>1
      <4> QED BY <4>1
    <3>2. g[0] = <<>>
      BY <1>9 DEF Evolves
    <3> HIDE DEF rest
    <3> QED BY <1>3, <2>1, <3>1, <3>2
  <2>2. CASE b # n
    <3>1. PICK l \in 1 .. n : at(l) = b /\ l = n - b /\ l - 1 = n - (b + 1)
      <4>1. n - b \in 1 .. n /\ at(n - b) = b /\ (n - b) - 1 = n - (b + 1)
        BY <1>1, <2>2 DEF at
      <4> QED BY <4>1
    <3>2. rest[b] = g[l] /\ rest[b + 1] = g[l - 1]
      <4>1. b + 1 \in 0 .. n
        BY <1>1, <2>2
      <4> QED BY <3>1, <4>1
    <3>3. g[l] = G[<<l, g[l - 1]>>]
      BY <1>9 DEF Evolves
    <3>4. g[l - 1] \in Seq(Nat)
      <4>1. l - 1 \in 0 .. n
        BY <1>1
      <4> QED BY <1>9, <4>1
    <3> HIDE DEF rest
    <3>5. g[l] = IF Open(at(l)) THEN codes(at(l)) \o g[l - 1] ELSE <<>>
      BY <1>8, <3>3, <3>4, Zenon
    <3>6. g[l] = IF Open(b) THEN codes(b) \o g[l - 1] ELSE <<>>
      BY <3>1, <3>5, Zenon
    <3>7. CASE Open(b)
      BY <1>5, <3>2, <3>6, <3>7, Zenon
    <3>8. CASE ~ Open(b)
      BY <3>2, <3>6, <3>8, Zenon
    <3> QED BY <3>7, <3>8
  <2> QED BY <2>1, <2>2
<1> HIDE DEF rest
<1>12. Rests(inp, rest)
  <2>1. n = Len(inp)
    BY DEF n
  <2>2. \A b \in 0 .. Len(inp) :
          rest[b] = IF BlockStart(b + 1) < Len(inp) THEN CodeAt(inp, b + 1) \o rest[b + 1] ELSE <<>>
    BY <1>4, <1>11, <2>1, Zenon
  <2>3. rest \in [0 .. Len(inp) -> Seq(Nat)]
    BY <1>10, <2>1
  <2> QED BY <2>2, <2>3 DEF Rests
<1> QED BY <1>12

\* The lengths of the blocks behind block b.
Listed(inp, ls, b) ==
  /\ ls \in Seq(Nat)
  /\ \A c \in 1 .. Len(ls) : BlockStart(b + c) < Len(inp) /\ ls[c] = Len(BlockAt(inp, b + c))

\* Decoding the block behind block b: the stream has the rest of its code, then the codes
\* of the blocks behind it.
AtBlock(inp, rest, b, ls, st, rk, held) ==
  IF ls = <<>> THEN st = <<>> /\ rk = <<>> /\ held = NoRun
  ELSE /\ b + 1 \in 0 .. Len(inp) /\ BlockStart(b + 1) < Len(inp) /\ ls[1] = Len(BlockAt(inp, b + 1))
       /\ \E run, R, w : /\ CodesBy(RanksAt(inp, b + 1), ls[1] + 1, run, R)
                         /\ Reads(RanksAt(inp, b + 1), ls[1] + 1, R, rk, held, w)
                         /\ w \in Seq(Nat) /\ st = w \o rest[b + 1]

\* When a block is reached all of its code is still to read.
LEMMA AtBlockStarts ==
  ASSUME NEW inp \in Seq(0 .. NumBytes - 1), NEW rest, Rests(inp, rest), NEW b \in 0 .. Len(inp),
         NEW ls, Listed(inp, ls, b), ls = <<>> => BlockStart(b + 1) >= Len(inp)
  PROVE  AtBlock(inp, rest, b, ls, rest[b], <<>>, NoRun)
<1>0. b \in Nat /\ Len(inp) \in Nat /\ BlockStart(b + 1) \in Nat
  <2>1. b \in Nat /\ Len(inp) \in Nat
    OBVIOUS
  <2> QED BY <2>1, BlockStarts
<1>1. CASE ls = <<>>
  <2>1. ~ (BlockStart(b + 1) < Len(inp))
    BY <1>0, <1>1
  <2>2. rest[b] = <<>>
    BY <2>1 DEF Rests
  <2> QED BY <1>1, <2>2 DEF AtBlock
<1>2. CASE ls # <<>>
  <2>1. BlockStart(b + 1) < Len(inp) /\ ls[1] = Len(BlockAt(inp, b + 1))
    <3>1. 1 \in 1 .. Len(ls)
      BY <1>2 DEF Listed
    <3> QED BY <3>1 DEF Listed
  <2>2. b + 1 \in 0 .. Len(inp)
    BY <1>0, <2>1, BlockAtIs
  <2>3. PICK run, R : /\ CodesBy(RanksAt(inp, b + 1), Len(BlockAt(inp, b + 1)) + 1, run, R)
                      /\ R[0] = CodeAt(inp, b + 1) /\ R[0] \in Seq(Nat)
    BY <1>0, <2>1, CodeAtIs
  <2>4. CodesBy(RanksAt(inp, b + 1), ls[1] + 1, run, R)
    BY <2>1, <2>3
  <2> DEFINE rs == RanksAt(inp, b + 1)
             M == ls[1] + 1
             e == <<>>
  <2> HIDE DEF rs, M
  <2>5. CodesBy(rs, M, run, R)
    BY <2>4 DEF rs, M
  <2>6. e \in Seq(Nat) /\ Len(e) = 0 /\ Len(e) <= M /\ run[Len(e)] = 0 /\ \A c \in 1 .. Len(e) : e[c] = rs[c]
    BY <2>5 DEF CodesBy
  <2>7. Reads(rs, M, R, e, NoRun, R[Len(e)])
    <3> HIDE DEF e
    <3> QED BY <2>5, <2>6, ReadingStarts
  <2>8. Reads(rs, M, R, <<>>, NoRun, R[0])
    BY <2>6, <2>7
  <2>9. rest[b] = R[0] \o rest[b + 1]
    BY <2>1, <2>3 DEF Rests
  <2> QED BY <1>2, <2>1, <2>2, <2>3, <2>5, <2>8, <2>9 DEF AtBlock, rs, M
<1> QED BY <1>1, <1>2

\* One step of the decoder's loop for a block leaves the rest of its code to read.
LEMMA AtBlockReads ==
  ASSUME NEW inp, NEW rest, Rests(inp, rest), NEW b \in 0 .. Len(inp), NEW ls, ls # <<>>,
         NEW st, NEW rk, NEW held, AtBlock(inp, rest, b, ls, st, rk, held), Len(rk) < ls[1] + 1
  PROVE  /\ held.pow2 > 1 /\ Len(rk) + held.n >= ls[1] + 1 =>
              AtBlock(inp, rest, b, ls, st, rk \o Zeros(held.n), NoRun)
         /\ ~ (held.pow2 > 1 /\ Len(rk) + held.n >= ls[1] + 1) =>
              /\ st[1] \in {0, 1} =>
                   AtBlock(inp, rest, b, ls, Tail(st), rk,
                           [n |-> held.n + (st[1] + 1) * held.pow2, pow2 |-> 2 * held.pow2])
              /\ st[1] \notin {0, 1} =>
                   AtBlock(inp, rest, b, ls, Tail(st), (rk \o Zeros(held.n)) \o <<st[1] - 1>>, NoRun)
<1> DEFINE rs == RanksAt(inp, b + 1)
           M == ls[1] + 1
           Left(s, z, p) == AtBlock(inp, rest, b, ls, s, z, p)
<1>1. PICK run, R, w : /\ CodesBy(rs, M, run, R) /\ Reads(rs, M, R, rk, held, w)
                       /\ w \in Seq(Nat) /\ st = w \o rest[b + 1]
  BY DEF AtBlock
<1>2. ASSUME NEW s, NEW z, NEW p, NEW y \in Seq(Nat), Reads(rs, M, R, z, p, y), s = y \o rest[b + 1]
      PROVE  Left(s, z, p)
  BY <1>1, <1>2 DEF AtBlock
<1>3. rest[b + 1] \in Seq(Nat)
  BY DEF AtBlock, Rests
<1>4. Len(rk) < M
  OBVIOUS
<1> HIDE DEF rs, M, Left
<1>5. ASSUME held.pow2 > 1, Len(rk) + held.n >= M
      PROVE  Left(st, rk \o Zeros(held.n), NoRun)
  <2>1. Reads(rs, M, R, rk \o Zeros(held.n), NoRun, w)
    BY <1>1, <1>4, <1>5, ReadingFills
  <2> QED BY <1>1, <1>2, <2>1
<1>6. ASSUME ~ (held.pow2 > 1 /\ Len(rk) + held.n >= M)
      PROVE  /\ st[1] \in {0, 1} =>
                  Left(Tail(st), rk, [n |-> held.n + (st[1] + 1) * held.pow2, pow2 |-> 2 * held.pow2])
             /\ st[1] \notin {0, 1} =>
                  Left(Tail(st), (rk \o Zeros(held.n)) \o <<st[1] - 1>>, NoRun)
  <2>1. ReadsOn(rs, M, R, rk, held, w)
    BY <1>1, <1>4, <1>6, ReadingStep
  <2>2. PICK x \in Nat, y \in Seq(Nat) :
          /\ w = <<x>> \o y
          /\ x \in {0, 1} =>
               Reads(rs, M, R, rk, [n |-> held.n + (x + 1) * held.pow2, pow2 |-> 2 * held.pow2], y)
          /\ x \notin {0, 1} =>
               Reads(rs, M, R, (rk \o Zeros(held.n)) \o <<x - 1>>, NoRun, y)
    BY <2>1 DEF ReadsOn
  <2>3. st[1] = x /\ Tail(st) = y \o rest[b + 1]
    <3>1. PICK v \in Seq(Nat) : v = rest[b + 1]
      BY <1>3
    <3>2. st = (<<x>> \o y) \o v
      BY <1>1, <2>2, <3>1
    <3>3. st = <<x>> \o (y \o v)
      BY <3>2
    <3>4. PICK u \in Seq(Nat) : u = y \o v
      <4>1. y \o v \in Seq(Nat)
        BY <2>2, <3>1, ConcatProperties
      <4> QED BY <4>1
    <3>5. st[1] = x /\ Tail(st) = u
      BY <3>3, <3>4
    <3> QED BY <3>1, <3>4, <3>5
  <2>4. ASSUME x \in {0, 1}
        PROVE  Left(Tail(st), rk, [n |-> held.n + (x + 1) * held.pow2, pow2 |-> 2 * held.pow2])
    BY <1>2, <2>2, <2>3, <2>4
  <2>5. ASSUME x \notin {0, 1}
        PROVE  Left(Tail(st), (rk \o Zeros(held.n)) \o <<x - 1>>, NoRun)
    BY <1>2, <2>2, <2>3, <2>5
  <2> QED BY <2>3, <2>4, <2>5, Zenon
<1> QED BY <1>5, <1>6 DEF M, Left

\* What the decoder holds while it reads a block: no more ranks than the block has, and
\* all of them when the rest of the stream is used up.
LEMMA AtBlockHolds ==
  ASSUME NEW inp \in Seq(0 .. NumBytes - 1), NEW rest, Rests(inp, rest), NEW b \in 0 .. Len(inp),
         NEW ls, ls # <<>>, NEW st, NEW rk, NEW held, AtBlock(inp, rest, b, ls, st, rk, held)
  PROVE  /\ Len(rk) <= BlockSize + 1
         /\ st = <<>> => Len(rk) + held.n > ls[1]
<1> DEFINE rs == RanksAt(inp, b + 1)
           M == ls[1] + 1
<1>1. PICK run, R, w : /\ CodesBy(rs, M, run, R) /\ Reads(rs, M, R, rk, held, w)
                       /\ w \in Seq(Nat) /\ st = w \o rest[b + 1]
  BY DEF AtBlock
<1>2. ls[1] \in Nat /\ ls[1] <= BlockSize /\ BlockSize \in Nat
  <2>1. b \in Nat /\ BlockStart(b + 1) < Len(inp) /\ ls[1] = Len(BlockAt(inp, b + 1))
    BY DEF AtBlock
  <2>2. Len(BlockAt(inp, b + 1)) \in 1 .. BlockSize
    BY <2>1, BlockAtIs
  <2> QED BY <2>1, <2>2, BwtAssumption
<1>3. rk \in Seq(Nat) /\ Len(rk) <= M
  BY <1>1 DEF Reads
<1>4. Len(rk) <= BlockSize + 1
  BY <1>2, <1>3
<1>5. ASSUME st = <<>> PROVE Len(rk) + held.n > ls[1]
  <2>1. rest[b + 1] \in Seq(Nat)
    BY DEF AtBlock, Rests
  <2>2. w = <<>>
    <3>1. PICK v \in Seq(Nat) : v = rest[b + 1]
      BY <2>1
    <3>2. Len(w \o v) = Len(w) + Len(v) /\ Len(w) \in Nat /\ Len(v) \in Nat
      BY <1>1, <3>1, ConcatProperties
    <3>3. w \o v = <<>>
      BY <1>1, <1>5, <3>1
    <3>4. Len(w) = 0
      <4>1. Len(w \o v) = 0
        BY <3>3
      <4> HIDE DEF M, rs
      <4> QED BY <3>2, <4>1
    <3> QED BY <1>1, <3>4
  <2>3. held.n \in Nat
    BY <1>1 DEF Reads, InRun, NoRun
  <2> HIDE DEF rs
  <2>4. Len(rk) + held.n >= M
    <3> HIDE DEF M
    <3> QED BY <1>1, <2>2, ReadingUsedUp
  <2> QED BY <1>2, <1>3, <2>3, <2>4
<1> QED BY <1>4, <1>5

\* A block whose ranks are all read is the block that was compressed.
LEMMA AtBlockEnds ==
  ASSUME NEW inp \in Seq(0 .. NumBytes - 1), NEW rest, Rests(inp, rest), NEW b \in 0 .. Len(inp),
         NEW ls, ls # <<>>, NEW st, NEW rk, NEW held, AtBlock(inp, rest, b, ls, st, rk, held),
         Len(rk) >= ls[1] + 1
  PROVE  st = rest[b + 1] /\ held = NoRun /\ DecodeBlock(MtfDecode(rk)) = BlockAt(inp, b + 1)
<1> DEFINE block == BlockAt(inp, b + 1)
           rs == RanksAt(inp, b + 1)
           M == ls[1] + 1
<1>1. PICK run, R, w : /\ CodesBy(rs, M, run, R) /\ Reads(rs, M, R, rk, held, w)
                       /\ w \in Seq(Nat) /\ st = w \o rest[b + 1]
  BY DEF AtBlock
<1>2. b \in Nat /\ b + 1 \in 0 .. Len(inp) /\ BlockStart(b + 1) < Len(inp) /\ ls[1] = Len(block)
  BY DEF AtBlock
<1>3. block \in Seq(0 .. NumBytes - 1)
  BY <1>2, BlockAtIs
<1>4. rest[b + 1] \in Seq(Nat)
  BY <1>2 DEF Rests
<1>5. /\ Len(rs) = M /\ M \in Nat /\ rs \in [1 .. M -> Nat]
      /\ DecodeBlock(MtfDecode(rs)) = block
  <2> HIDE DEF block
  <2>1. LET r == MtfEncode(EncodeBlock(block))
        IN  /\ Len(r) = Len(block) + 1 /\ Len(r) \in Nat /\ r \in [1 .. Len(r) -> Nat]
            /\ DecodeBlock(MtfDecode(r)) = block
    BY <1>3, RanksAtIs
  <2> QED BY <1>2, <2>1 DEF RanksAt, block
<1> HIDE DEF rs, block, M
<1>6. rk \in Seq(Nat) /\ Len(rk) <= M /\ \A c \in 1 .. Len(rk) : rk[c] = rs[c]
  BY <1>1 DEF Reads
<1>7. Len(rk) = M
  BY <1>5, <1>6 DEF M
<1>8. w = <<>> /\ held = NoRun
  BY <1>1, <1>5, <1>7 DEF Reads
<1>9. rk = rs
  <2>1. rk = [c \in 1 .. M |-> rk[c]]
    BY <1>6, <1>7
  <2>2. rs = [c \in 1 .. M |-> rs[c]]
    BY <1>5
  <2> QED BY <1>6, <1>7, <2>1, <2>2
<1>10. st = rest[b + 1]
  BY <1>1, <1>4, <1>8
<1> QED BY <1>5, <1>8, <1>9, <1>10 DEF block

-----------------------------------------------------------------------------
(***************************************************************************)
(* The coder. While blocks are written, what is coded and what is not yet  *)
(* make up the code of everything; while they are read, the stream is the  *)
(* rest of the code of one block, and the code of the blocks behind it.    *)
(***************************************************************************)

\* The encoder's loop between two blocks: what is coded, then what is still to be coded, is
\* the code of everything.
WritesBlocks(rest) ==
  /\ bwtPc = "encode" /\ ranks = <<>> /\ pending = NoRun /\ result = <<>>
  /\ Len(lens) \in 0 .. Len(input) /\ Listed(input, lens, 0)
  /\ stream \in Seq(Nat) /\ stream \o rest[Len(lens)] = rest[0]

\* The decoder's loop in the block behind block b: the blocks before it are back, and the
\* lengths are those of all the blocks behind it.
ReadsBlock(rest, b) ==
  /\ bwtPc = "decode"
  /\ result = SubSeq(input, 1, BlockTill(input, b))
  /\ Listed(input, lens, b) /\ BlockStart(b + Len(lens) + 1) >= Len(input)
  /\ AtBlock(input, rest, b, lens, stream, ranks, pending)

BwtEnds == bwtPc = "done" /\ result = input /\ stream = <<>> /\ ranks = <<>>

\* The inductive invariant of the coder.
BwtInv ==
  /\ input \in Seq(0 .. NumBytes - 1)
  /\ \E rest : /\ Rests(input, rest)
               /\ \/ WritesBlocks(rest)
                  \/ \E b \in 0 .. Len(input) : ReadsBlock(rest, b)
                  \/ BwtEnds

\* The inductive invariant holds before anything is coded.
LEMMA BwtStarts == BwtInit => BwtInv
<1> SUFFICES ASSUME BwtInit PROVE BwtInv
  OBVIOUS
<1>1. input \in Seq(0 .. NumBytes - 1)
  BY BwtAssumption DEF BwtInit
<1>2. PICK rest : Rests(input, rest)
  BY <1>1, RestsExist
<1>3. Len(input) \in Nat
  BY <1>1
<1>4. WritesBlocks(rest)
  <2>1. rest[0] \in Seq(Nat)
    BY <1>2, <1>3 DEF Rests
  <2>2. <<>> \o rest[0] = rest[0]
    BY <2>1
  <2>3. Listed(input, <<>>, 0)
    BY DEF Listed
  <2> QED BY <1>3, <2>2, <2>3 DEF BwtInit, WritesBlocks
<1> QED BY <1>1, <1>2, <1>4 DEF BwtInv

\* One more block is listed.
LEMMA ListedMore ==
  ASSUME NEW inp, NEW ls, Listed(inp, ls, 0), BlockStart(Len(ls) + 1) < Len(inp),
         NEW l \in Nat, l = Len(BlockAt(inp, Len(ls) + 1))
  PROVE  Listed(inp, Append(ls, l), 0) /\ Len(Append(ls, l)) = Len(ls) + 1
<1>1. ls \in Seq(Nat) /\ Len(ls) \in Nat
  BY DEF Listed
<1> DEFINE more == Append(ls, l)
<1>2. /\ more \in Seq(Nat) /\ Len(more) = Len(ls) + 1 /\ more[Len(ls) + 1] = l
      /\ \A c \in 1 .. Len(ls) : more[c] = ls[c]
  BY <1>1, AppendProperties
<1> HIDE DEF more
<1>3. ASSUME NEW c \in 1 .. Len(more)
      PROVE  BlockStart(0 + c) < Len(inp) /\ more[c] = Len(BlockAt(inp, 0 + c))
  <2>1. 0 + c = c
    OBVIOUS
  <2>2. CASE c = Len(ls) + 1
    BY <1>2, <2>1, <2>2
  <2>3. CASE c # Len(ls) + 1
    <3>1. c \in 1 .. Len(ls)
      BY <1>1, <1>2, <2>3
    <3>2. BlockStart(0 + c) < Len(inp) /\ ls[c] = Len(BlockAt(inp, 0 + c))
      BY <3>1 DEF Listed
    <3> QED BY <1>2, <3>1, <3>2
  <2> QED BY <2>2, <2>3
<1>4. Listed(inp, more, 0)
  BY <1>2, <1>3 DEF Listed
<1> QED BY <1>2, <1>4 DEF more

\* One block less is listed.
LEMMA ListedLess ==
  ASSUME NEW inp, NEW b \in Nat, NEW ls, Listed(inp, ls, b), ls # <<>>
  PROVE  Listed(inp, Tail(ls), b + 1) /\ Len(Tail(ls)) = Len(ls) - 1
<1>1. ls \in Seq(Nat) /\ Len(ls) \in Nat
  BY DEF Listed
<1> DEFINE less == Tail(ls)
<1>2. /\ less \in Seq(Nat) /\ Len(less) = Len(ls) - 1
      /\ \A c \in 1 .. Len(less) : less[c] = ls[c + 1]
  BY <1>1, HeadTailProperties
<1> HIDE DEF less
<1>3. ASSUME NEW c \in 1 .. Len(less)
      PROVE  BlockStart((b + 1) + c) < Len(inp) /\ less[c] = Len(BlockAt(inp, (b + 1) + c))
  <2>1. (b + 1) + c = b + (c + 1) /\ c + 1 \in 1 .. Len(ls)
    BY <1>1, <1>2
  <2>2. BlockStart(b + (c + 1)) < Len(inp) /\ ls[c + 1] = Len(BlockAt(inp, b + (c + 1)))
    BY <2>1 DEF Listed
  <2> QED BY <1>2, <2>1, <2>2
<1>4. Listed(inp, less, b + 1)
  BY <1>2, <1>3 DEF Listed
<1> QED BY <1>2, <1>4 DEF less

\* What the encoder's step does to the stream and the lengths.
LEMMA BlockIsWritten ==
  ASSUME NEW rest, input \in Seq(0 .. NumBytes - 1), Rests(input, rest), WritesBlocks(rest), WriteBlock
  PROVE  WritesBlocks(rest)'
<1> DEFINE z == Len(lens)
           more == CodeAt(input, z + 1)
<1>1. z \in Nat /\ BlockStart(z + 1) < Len(input) /\ Listed(input, lens, 0)
  BY DEF WritesBlocks, WriteBlock
<1>2. /\ BlockAt(input, z + 1) \in Seq(0 .. NumBytes - 1) /\ Len(BlockAt(input, z + 1)) \in Nat
      /\ z + 1 \in 0 .. Len(input)
  <2> HIDE DEF z
  <2>1. z + 1 \in 0 .. Len(input) /\ BlockAt(input, z + 1) \in Seq(0 .. NumBytes - 1)
    BY <1>1, BlockAtIs
  <2> QED BY <2>1
<1>3. /\ lens' = Append(lens, Len(BlockAt(input, z + 1))) /\ stream' = stream \o more
      /\ bwtPc' = "encode" /\ input' = input /\ ranks' = <<>> /\ pending' = NoRun /\ result' = <<>>
  BY DEF WriteBlock, WritesBlocks, Block, BlockOf, BlockAt, BlockTill, RanksAt, CodeAt
<1>4. Listed(input, lens', 0) /\ Len(lens') = z + 1
  BY <1>1, <1>2, <1>3, ListedMore
<1>5. more \in Seq(Nat)
  <2> HIDE DEF z
  <2>1. \E run, R : /\ CodesBy(RanksAt(input, z + 1), Len(BlockAt(input, z + 1)) + 1, run, R)
                    /\ R[0] = CodeAt(input, z + 1) /\ R[0] \in Seq(Nat)
    BY <1>1, CodeAtIs
  <2> QED BY <2>1
<1>6. rest[z] = more \o rest[z + 1] /\ rest[z + 1] \in Seq(Nat)
  BY <1>1, <1>2 DEF Rests, WritesBlocks
<1>7. stream \in Seq(Nat) /\ stream \o rest[z] = rest[0]
  BY DEF WritesBlocks
<1> HIDE DEF more
<1>8. (stream \o more) \in Seq(Nat) /\ (stream \o more) \o rest[z + 1] = rest[0]
  <2>1. PICK v \in Seq(Nat) : v = rest[z + 1]
    BY <1>6
  <2>2. (stream \o more) \o v = stream \o (more \o v)
    BY <1>5, <1>7, ConcatAssociative
  <2>3. stream \o more \in Seq(Nat)
    BY <1>5, <1>7, ConcatProperties
  <2> QED BY <1>6, <1>7, <2>1, <2>2, <2>3
<1> HIDE DEF z
<1> QED BY <1>2, <1>3, <1>4, <1>8 DEF WritesBlocks

\* When the last block is coded the decoder has the code of all of them.
LEMMA ReadingBegins ==
  ASSUME NEW rest, input \in Seq(0 .. NumBytes - 1), Rests(input, rest), WritesBlocks(rest), BlocksWritten
  PROVE  BwtEnds' \/ (0 \in 0 .. Len(input) /\ ReadsBlock(rest, 0)')
<1> DEFINE z == Len(lens)
<1>1. /\ z \in Nat /\ z \in 0 .. Len(input) /\ BlockStart(z + 1) >= Len(input) /\ Listed(input, lens, 0)
      /\ Len(input) \in Nat /\ BlockStart(z + 1) \in Nat
  <2>1. z \in Nat /\ z \in 0 .. Len(input) /\ BlockStart(z + 1) >= Len(input) /\ Listed(input, lens, 0)
    BY DEF WritesBlocks, BlocksWritten
  <2> HIDE DEF z
  <2> QED BY <2>1, BlockStarts
<1>2. /\ bwtPc' = IF input = <<>> THEN "done" ELSE "decode"
      /\ input' = input /\ lens' = lens /\ stream' = stream
      /\ ranks' = <<>> /\ pending' = NoRun /\ result' = <<>>
  BY DEF WritesBlocks, BlocksWritten
<1>3. stream = rest[0]
  <2>1. ~ (BlockStart(z + 1) < Len(input))
    BY <1>1
  <2>2. rest[z] = <<>>
    BY <1>1, <2>1 DEF Rests
  <2> QED BY <2>2 DEF WritesBlocks
<1>4. 0 \in 0 .. Len(input) /\ BlockStart(0 + 1) = 0
  <2>1. PICK v \in Nat : v = 0
    OBVIOUS
  <2>2. BlockStart(1) = 0
    BY <2>1, BlockStarts
  <2> QED BY <1>1, <2>2
<1>5. CASE input = <<>>
  <2>1. rest[0] = <<>>
    <3>1. ~ (BlockStart(0 + 1) < Len(input))
      BY <1>4, <1>5
    <3> QED BY <1>4, <3>1 DEF Rests
  <2> QED BY <1>2, <1>3, <1>5, <2>1 DEF BwtEnds
<1>6. CASE input # <<>>
  <2>1. BlockTill(input, 0) = 0
    <3>1. 0 < Len(input)
      BY <1>6
    <3> QED BY <1>4, <3>1 DEF BlockTill
  <2>2. SubSeq(input, 1, 0) = <<>>
    BY SubSeqEmpty
  <2>3. BlockStart(0 + Len(lens) + 1) >= Len(input)
    <3>1. 0 + Len(lens) = Len(lens)
      BY <1>1
    <3> QED BY <1>1, <3>1
  <2>4. AtBlock(input, rest, 0, lens, rest[0], <<>>, NoRun)
    <3>1. lens = <<>> => BlockStart(0 + 1) >= Len(input)
      BY <1>1
    <3>2. PICK b \in 0 .. Len(input) : b = 0
      BY <1>4
    <3>3. Listed(input, lens, b) /\ (lens = <<>> => BlockStart(b + 1) >= Len(input))
      BY <1>1, <3>1, <3>2
    <3>4. AtBlock(input, rest, b, lens, rest[b], <<>>, NoRun)
      BY <3>3, AtBlockStarts
    <3> QED BY <3>2, <3>4
  <2> HIDE DEF z
  <2> QED BY <1>1, <1>2, <1>3, <1>4, <1>6, <2>1, <2>2, <2>3, <2>4 DEF ReadsBlock
<1> QED BY <1>5, <1>6

\* A symbol read, or a run that fills the block, leaves the decoder in the same block.
LEMMA SymbolIsRead ==
  ASSUME NEW rest, Rests(input, rest), NEW b \in 0 .. Len(input), ReadsBlock(rest, b), ReadSymbol
  PROVE  ReadsBlock(rest, b)'
<1>1. /\ lens # <<>> /\ Len(ranks) < lens[1] + 1
      /\ AtBlock(input, rest, b, lens, stream, ranks, pending)
  BY DEF ReadsBlock, ReadSymbol
<1>2. /\ pending.pow2 > 1 /\ Len(ranks) + pending.n >= lens[1] + 1 =>
           AtBlock(input, rest, b, lens, stream, ranks \o Zeros(pending.n), NoRun)
      /\ ~ (pending.pow2 > 1 /\ Len(ranks) + pending.n >= lens[1] + 1) =>
           /\ stream[1] \in {0, 1} =>
                AtBlock(input, rest, b, lens, Tail(stream), ranks,
                        [n |-> pending.n + (stream[1] + 1) * pending.pow2, pow2 |-> 2 * pending.pow2])
           /\ stream[1] \notin {0, 1} =>
                AtBlock(input, rest, b, lens, Tail(stream),
                        (ranks \o Zeros(pending.n)) \o <<stream[1] - 1>>, NoRun)
  BY <1>1, AtBlockReads
<1>3. AtBlock(input, rest, b, lens, stream', ranks', pending')
  <2>1. CASE FillsBlock(lens[1] + 1)
    <3>1. stream' = stream /\ ranks' = ranks \o Zeros(pending.n) /\ pending' = NoRun
      BY <2>1 DEF ReadSymbol
    <3> QED BY <1>2, <2>1, <3>1 DEF FillsBlock
  <2>2. CASE ~ FillsBlock(lens[1] + 1)
    <3>1. ~ (pending.pow2 > 1 /\ Len(ranks) + pending.n >= lens[1] + 1)
      BY <2>2 DEF FillsBlock
    <3>2. CASE stream[1] \in {0, 1}
      <4>1. /\ stream' = Tail(stream) /\ ranks' = ranks
            /\ pending' = [n |-> pending.n + (stream[1] + 1) * pending.pow2, pow2 |-> 2 * pending.pow2]
        BY <2>2, <3>2 DEF ReadSymbol
      <4>2. AtBlock(input, rest, b, lens, Tail(stream), ranks,
                    [n |-> pending.n + (stream[1] + 1) * pending.pow2, pow2 |-> 2 * pending.pow2])
        BY <1>2, <3>1, <3>2, Zenon
      <4> QED BY <4>1, <4>2, Zenon
    <3>3. CASE stream[1] \notin {0, 1}
      <4>1. /\ stream' = Tail(stream) /\ pending' = NoRun
            /\ ranks' = (ranks \o Zeros(pending.n)) \o <<stream[1] - 1>>
        BY <2>2, <3>3 DEF ReadSymbol
      <4>2. AtBlock(input, rest, b, lens, Tail(stream),
                    (ranks \o Zeros(pending.n)) \o <<stream[1] - 1>>, NoRun)
        BY <1>2, <3>1, <3>3, Zenon
      <4> QED BY <4>1, <4>2, Zenon
    <3> QED BY <3>2, <3>3
  <2> QED BY <2>1, <2>2
<1>4. input' = input /\ bwtPc' = bwtPc /\ lens' = lens /\ result' = result
  BY DEF ReadSymbol
<1> QED BY <1>3, <1>4 DEF ReadsBlock

\* A block decoded is the block that was compressed; the stream has what follows it.
LEMMA BlockIsRead ==
  ASSUME NEW rest, input \in Seq(0 .. NumBytes - 1), Rests(input, rest), NEW b \in 0 .. Len(input),
         ReadsBlock(rest, b), BlockRead
  PROVE  b + 1 \in 0 .. Len(input) /\ ReadsBlock(rest, b + 1)'
<1>1. /\ lens # <<>> /\ Len(ranks) >= lens[1] + 1 /\ bwtPc = "decode"
      /\ AtBlock(input, rest, b, lens, stream, ranks, pending)
      /\ Listed(input, lens, b) /\ BlockStart(b + Len(lens) + 1) >= Len(input)
      /\ result = SubSeq(input, 1, BlockTill(input, b))
  BY DEF ReadsBlock, BlockRead
<1>2. b \in Nat /\ b + 1 \in 0 .. Len(input) /\ BlockStart(b + 1) < Len(input)
  BY <1>1 DEF AtBlock
<1>3. stream = rest[b + 1] /\ pending = NoRun /\ DecodeBlock(MtfDecode(ranks)) = BlockAt(input, b + 1)
  BY <1>1, AtBlockEnds
<1>4. /\ input' = input /\ bwtPc' = "decode" /\ stream' = rest[b + 1] /\ pending' = NoRun
      /\ lens' = Tail(lens) /\ ranks' = <<>> /\ result' = result \o BlockAt(input, b + 1)
  BY <1>1, <1>3 DEF BlockRead
<1>5. result' = SubSeq(input, 1, BlockTill(input, b + 1))
  BY <1>1, <1>2, <1>4, BlockAtIs
<1>6. Listed(input, lens', b + 1) /\ Len(lens') = Len(lens) - 1 /\ lens \in Seq(Nat)
  <2>1. Listed(input, Tail(lens), b + 1) /\ Len(Tail(lens)) = Len(lens) - 1
    BY <1>1, <1>2, ListedLess
  <2>2. lens \in Seq(Nat)
    BY <1>1 DEF Listed
  <2> QED BY <1>4, <2>1, <2>2
<1>7. BlockStart((b + 1) + Len(lens') + 1) >= Len(input)
  <2>1. (b + 1) + Len(lens') + 1 = b + Len(lens) + 1
    BY <1>2, <1>6
  <2> QED BY <1>1, <2>1
<1>8. AtBlock(input, rest, b + 1, lens', rest[b + 1], <<>>, NoRun)
  <2>1. PICK c \in 0 .. Len(input) : c = b + 1
    BY <1>2
  <2>2. ASSUME lens' = <<>> PROVE BlockStart(c + 1) >= Len(input)
    <3>1. c + Len(lens') + 1 = c + 1
      <4>1. Len(lens') = 0 /\ c \in Nat
        BY <2>2
      <4> QED BY <4>1
    <3> QED BY <1>7, <2>1, <3>1
  <2>3. PICK ls : ls = lens'
    OBVIOUS
  <2>4. Listed(input, ls, c) /\ (ls = <<>> => BlockStart(c + 1) >= Len(input))
    BY <1>6, <2>1, <2>2, <2>3
  <2>5. AtBlock(input, rest, c, ls, rest[c], <<>>, NoRun)
    BY <2>4, AtBlockStarts
  <2> QED BY <2>1, <2>3, <2>5
<1> QED BY <1>2, <1>4, <1>5, <1>6, <1>7, <1>8 DEF ReadsBlock

\* When no block is left everything is back.
LEMMA AllIsRead ==
  ASSUME NEW rest, input \in Seq(0 .. NumBytes - 1), NEW b \in 0 .. Len(input),
         ReadsBlock(rest, b), lens = <<>>
  PROVE  result = input /\ stream = <<>> /\ ranks = <<>>
<1>1. stream = <<>> /\ ranks = <<>>
  BY DEF ReadsBlock, AtBlock
<1>2. result = SubSeq(input, 1, BlockTill(input, b)) /\ BlockStart(b + Len(lens) + 1) >= Len(input)
  BY DEF ReadsBlock
<1>3. b \in Nat /\ Len(input) \in Nat /\ BlockStart(b + 1) \in Nat
  <2>1. b \in Nat /\ Len(input) \in Nat
    OBVIOUS
  <2> QED BY <2>1, BlockStarts
<1>4. BlockStart(b + 1) >= Len(input)
  <2>1. b + Len(lens) + 1 = b + 1
    <3>1. Len(lens) = 0
      OBVIOUS
    <3> QED BY <1>3, <3>1
  <2> QED BY <1>2, <2>1
<1>5. BlockTill(input, b) = Len(input)
  BY <1>3, <1>4 DEF BlockTill
<1> QED BY <1>1, <1>2, <1>5, SubSeqFull

\* Every step keeps the inductive invariant.
LEMMA BwtStep == BwtInv /\ [BwtNext]_bwtVars => BwtInv'
<1> SUFFICES ASSUME BwtInv, [BwtNext]_bwtVars PROVE BwtInv'
  OBVIOUS
<1>1. PICK rest : /\ input \in Seq(0 .. NumBytes - 1) /\ Rests(input, rest)
                  /\ \/ WritesBlocks(rest)
                     \/ \E b \in 0 .. Len(input) : ReadsBlock(rest, b)
                     \/ BwtEnds
  BY DEF BwtInv
<1>2. input' = input
  BY DEF BwtNext, bwtVars, WriteBlock, BlocksWritten, ReadSymbol, BlockRead, BlocksRead
<1>3. CASE WriteBlock
  <2>1. WritesBlocks(rest)
    BY <1>1, <1>3 DEF WriteBlock, ReadsBlock, BwtEnds
  <2>2. WritesBlocks(rest)'
    BY <1>1, <1>3, <2>1, BlockIsWritten
  <2> QED BY <1>1, <1>2, <2>2 DEF BwtInv
<1>4. CASE BlocksWritten
  <2>1. WritesBlocks(rest)
    BY <1>1, <1>4 DEF BlocksWritten, ReadsBlock, BwtEnds
  <2>2. BwtEnds' \/ (0 \in 0 .. Len(input) /\ ReadsBlock(rest, 0)')
    BY <1>1, <1>4, <2>1, ReadingBegins
  <2> QED BY <1>1, <1>2, <2>2 DEF BwtInv
<1>5. CASE ReadSymbol
  <2>1. PICK b \in 0 .. Len(input) : ReadsBlock(rest, b)
    BY <1>1, <1>5 DEF ReadSymbol, WritesBlocks, BwtEnds
  <2>2. ReadsBlock(rest, b)'
    BY <1>1, <1>5, <2>1, SymbolIsRead
  <2> QED BY <1>1, <1>2, <2>1, <2>2 DEF BwtInv
<1>6. CASE BlockRead
  <2>1. PICK b \in 0 .. Len(input) : ReadsBlock(rest, b)
    BY <1>1, <1>6 DEF BlockRead, WritesBlocks, BwtEnds
  <2>2. b + 1 \in 0 .. Len(input) /\ ReadsBlock(rest, b + 1)'
    BY <1>1, <1>6, <2>1, BlockIsRead
  <2> QED BY <1>1, <1>2, <2>2 DEF BwtInv
<1>7. CASE BlocksRead
  <2>1. PICK b \in 0 .. Len(input) : ReadsBlock(rest, b)
    BY <1>1, <1>7 DEF BlocksRead, WritesBlocks, BwtEnds
  <2>2. lens = <<>>
    BY <1>7 DEF BlocksRead
  <2>3. result = input /\ stream = <<>> /\ ranks = <<>>
    BY <1>1, <2>1, <2>2, AllIsRead
  <2>4. BwtEnds'
    BY <1>7, <2>3 DEF BlocksRead, BwtEnds
  <2> QED BY <1>1, <1>2, <2>4 DEF BwtInv
<1>8. CASE UNCHANGED bwtVars
  <2>1. CASE WritesBlocks(rest)
    <3>1. WritesBlocks(rest)'
      BY <1>8, <2>1 DEF bwtVars, WritesBlocks
    <3> QED BY <1>1, <1>2, <3>1 DEF BwtInv
  <2>2. CASE \E b \in 0 .. Len(input) : ReadsBlock(rest, b)
    <3>1. PICK b \in 0 .. Len(input) : ReadsBlock(rest, b)
      BY <2>2
    <3>2. ReadsBlock(rest, b)'
      BY <1>8, <3>1 DEF bwtVars, ReadsBlock
    <3> QED BY <1>1, <1>2, <3>1, <3>2 DEF BwtInv
  <2>3. CASE BwtEnds
    <3>1. BwtEnds'
      BY <1>8, <2>3 DEF bwtVars, BwtEnds
    <3> QED BY <1>1, <1>2, <3>1 DEF BwtInv
  <2> QED BY <1>1, <2>1, <2>2, <2>3
<1> QED BY <1>3, <1>4, <1>5, <1>6, <1>7, <1>8 DEF BwtNext

\* What has come back is a prefix of what was compressed.
LEMMA InvComesBack == BwtInv => BlocksComeBack
<1> SUFFICES ASSUME BwtInv PROVE BlocksComeBack
  OBVIOUS
<1>1. PICK rest : /\ input \in Seq(0 .. NumBytes - 1) /\ Rests(input, rest)
                  /\ \/ WritesBlocks(rest)
                     \/ \E b \in 0 .. Len(input) : ReadsBlock(rest, b)
                     \/ BwtEnds
  BY DEF BwtInv
<1>2. BlockSize \in Nat /\ Len(input) \in Nat
  BY <1>1, BwtAssumption
<1>3. CASE WritesBlocks(rest)
  <2>1. result = <<>> /\ ranks = <<>> /\ bwtPc = "encode"
    BY <1>3 DEF WritesBlocks
  <2>2. SubSeq(input, 1, Len(result)) = <<>>
    <3>1. Len(result) = 0
      BY <2>1
    <3> QED BY <3>1, SubSeqEmpty
  <2> QED BY <1>2, <2>1, <2>2 DEF BlocksComeBack
<1>4. CASE BwtEnds
  <2>1. result = input /\ ranks = <<>> /\ bwtPc = "done" /\ stream = <<>>
    BY <1>4 DEF BwtEnds
  <2>2. SubSeq(input, 1, Len(result)) = input
    BY <1>1, <2>1, SubSeqFull
  <2> QED BY <1>2, <2>1, <2>2 DEF BlocksComeBack
<1>5. CASE \E b \in 0 .. Len(input) : ReadsBlock(rest, b)
  <2>1. PICK b \in 0 .. Len(input) : ReadsBlock(rest, b)
    BY <1>5
  <2>2. bwtPc = "decode" /\ AtBlock(input, rest, b, lens, stream, ranks, pending)
    BY <2>1 DEF ReadsBlock
  <2>3. BlockTill(input, b) \in Nat /\ BlockTill(input, b) <= Len(input)
    <3>1. b \in Nat
      OBVIOUS
    <3>2. BlockStart(b + 1) \in Nat
      BY <3>1, BlockStarts
    <3> QED BY <1>2, <3>2 DEF BlockTill
  <2>4. PICK z \in 0 .. Len(input) : result = SubSeq(input, 1, z)
    BY <1>2, <2>1, <2>3 DEF ReadsBlock
  <2>5. Len(result) = z
    <3> DEFINE S == 0 .. NumBytes - 1
    <3>1. \A u \in 1 .. z : input[u] \in S
      <4>1. \A u \in 1 .. z : u \in 1 .. Len(input)
        BY <1>2
      <4>2. input \in Seq(S)
        BY <1>1
      <4> HIDE DEF S
      <4>3. \A u \in 1 .. Len(input) : input[u] \in S
        BY <4>2, ElementOfSeq
      <4> QED BY <4>1, <4>3
    <3> HIDE DEF S
    <3>2. Len(SubSeq(input, 1, z)) = IF 1 <= z THEN z - 1 + 1 ELSE 0
      BY <3>1, SubSeqProperties
    <3> QED BY <2>4, <3>2
  <2>6. result = SubSeq(input, 1, Len(result))
    BY <2>4, <2>5
  <2>7. CASE lens = <<>>
    <3>1. ranks = <<>>
      BY <1>1, <2>1, <2>7, AllIsRead
    <3> QED BY <1>2, <2>2, <2>6, <2>7, <3>1 DEF BlocksComeBack
  <2>8. CASE lens # <<>>
    <3>1. Len(ranks) <= BlockSize + 1 /\ (stream = <<>> => Len(ranks) + pending.n > lens[1])
      BY <1>1, <2>2, <2>8, AtBlockHolds
    <3> QED BY <2>2, <2>6, <3>1 DEF BlocksComeBack
  <2> QED BY <2>7, <2>8
<1> QED BY <1>1, <1>3, <1>4, <1>5

\* The suffixes of every block are in order before its column is taken.
LEMMA InvSorted == BwtInv => SuffixArraysSorted
<1> SUFFICES ASSUME BwtInv, bwtPc = "encode", BlockStart(Len(lens) + 1) < Len(input)
             PROVE  LET t == Text(Block)
                        sa == SAIS(t)
                    IN  /\ Range(sa) = DOMAIN t
                        /\ \A s \in 1 .. Len(t) - 1 : Before(t, sa[s], sa[s + 1])
                        /\ BuildSuffixArray(t) = sa
  BY DEF SuffixArraysSorted
<1> DEFINE z == Len(lens)
           t == Text(Block)
           sa == SAIS(t)
           n == Len(t)
<1>1. input \in Seq(0 .. NumBytes - 1) /\ z \in Nat /\ BlockStart(z + 1) < Len(input)
  BY DEF BwtInv, WritesBlocks, ReadsBlock, BwtEnds
<1>2. Block = BlockAt(input, z + 1)
  BY DEF Block, BlockOf, BlockAt, BlockTill
<1>3. Block \in Seq(0 .. NumBytes - 1)
  <2> HIDE DEF z
  <2> QED BY <1>1, <1>2, BlockAtIs
<1>4. Block \in Seq(Nat)
  <2>1. PICK block \in Seq(0 .. NumBytes - 1) : block = Block
    BY <1>3
  <2>2. \A p \in 1 .. Len(block) : block[p] \in 0 .. NumBytes - 1
    BY ElementOfSeq
  <2>3. NumBytes \in Nat
    BY BwtAssumption
  <2>4. block \in [1 .. Len(block) -> Nat] /\ Len(block) \in Nat
    <3>1. DOMAIN block = 1 .. Len(block) /\ block = [p \in 1 .. Len(block) |-> block[p]]
      OBVIOUS
    <3> QED BY <2>2, <2>3, <3>1
  <2>5. block \in Seq(Nat)
    BY <2>4, FunctionIsSeq
  <2> QED BY <2>1, <2>5
<1>5. IsText(t)
  BY <1>4, BlockText
<1> HIDE DEF t
<1>6. SuffixesIn(t, n, sa)
  BY <1>5, SaisSorts
<1>7. BuildSuffixArray(t) = sa
  BY <1>5, <1>6, BuildSuffixArrayIs
<1>8. n \in Nat /\ DOMAIN t = 1 .. n
  BY <1>5 DEF IsText
<1> HIDE DEF sa, n
<1>9. /\ sa \in [1 .. n -> 1 .. n] /\ \A p \in 1 .. n : \E s \in 1 .. n : sa[s] = p
      /\ \A s, u \in 1 .. n : s < u => Before(t, sa[s], sa[u])
  BY <1>6 DEF SuffixesIn, Permutes
<1>10. Range(sa) = DOMAIN t
  BY <1>8, <1>9 DEF Range
<1>11. \A s \in 1 .. Len(t) - 1 : Before(t, sa[s], sa[s + 1])
  <2>1. \A s \in 1 .. n - 1 : s \in 1 .. n /\ s + 1 \in 1 .. n /\ s < s + 1
    BY <1>8
  <2> QED BY <1>9, <2>1 DEF n
<1> QED BY <1>7, <1>10, <1>11 DEF sa, t

\* The inductive invariant holds.
THEOREM BwtInvariant == BwtSpec => []BwtInv
<1>1. BwtInit => BwtInv
  BY BwtStarts
<1>2. BwtInv /\ [BwtNext]_bwtVars => BwtInv'
  BY BwtStep
<1> QED BY <1>1, <1>2, PTL DEF BwtSpec

\* Every block comes back from its transform and its runs, wherever the runs end and the
\* blocks meet, and both ways to sort its suffixes agree.
THEOREM BwtIsExact == BwtSpec => []BwtExact
<1>1. BwtInv => BwtExact
  BY InvComesBack, InvSorted DEF BwtExact
<1> QED BY <1>1, BwtInvariant, PTL

-----------------------------------------------------------------------------
(***************************************************************************)
(* The LZ codec: what the parser knows of hash chains and matches, what is *)
(* on its way to the decoder, and what the decoder has.                    *)
(***************************************************************************)

USE LZAssumption DEF LZAssumption

\* What the properties hold because of: there is a match of len bytes at p with
\* the bytes dist before them.
IsMatch(len, dist, p) ==
  /\ dist \in 1 .. p
  /\ p + len <= N
  /\ \A j \in 1 .. len : data[p - dist + j] = data[p + j]

\* How far the parser has pushed tokens.
Emitted ==
  IF pc = "insert" THEN pend.pos + pend.len
  ELSE IF pc = "done" THEN N
  ELSE IF HavePending THEN pend.pos ELSE i

\* Where the token in flight starts in the output.
Start == Len(out) - copy.done

Context(p) == IF p = 0 THEN 0 ELSE data[p]

Matches == [len : Nat, dist : Nat]

Shape ==
  /\ data \in Seq(Bytes) /\ N <= MaxLen
  /\ pc \in {"look", "walk", "insert", "done"}
  /\ i \in 0 .. N
  /\ pend \in [len : Nat, dist : Nat, pos : Nat]
  /\ head \in [Hashes -> Int]
  /\ prev \in [0 .. N - 1 -> Int]
  /\ hashed \subseteq 0 .. N - 1
  /\ cand \in Int
  /\ chain \in Nat
  /\ best \in Matches
  /\ k \in Nat
  /\ token \in [kind : {"none", "literal", "match"}, literal : Bytes \union {0},
                length : Nat, distance : Nat]

\* The chains, and which positions are in them.
Chains ==
  /\ \A p \in hashed : p + MinMatch <= N
  /\ \A h \in Hashes : IsNewest(head[h], {q \in hashed : HashAt(q) = h})
  /\ \A p \in hashed :
       IsNewest(prev[p], {q \in hashed : HashAt(q) = HashAt(p) /\ q < p})

Indexed ==
  /\ pc # "insert" =>
       /\ \A p \in hashed : p < i
       /\ \A p \in 0 .. i - 1 :
            p + MinMatch <= N => p \in hashed \/ (HavePending /\ p = pend.pos)
  /\ pc = "insert" =>
       /\ \A p \in hashed : p <= pend.pos \/ p < k
       /\ \A p \in 0 .. k - 1 : p + MinMatch <= N => p \in hashed

Search ==
  pc = "walk" =>
    /\ token = NoToken
    /\ i < N
    /\ cand >= 0 => cand \in hashed
    /\ best.len > 0 => IsMatch(best.len, best.dist, i)

Pending ==
  /\ HavePending => /\ pend.len >= MinMatch
                    /\ IsMatch(pend.len, pend.dist, pend.pos)
                    /\ pc # "insert" => i = pend.pos + 1
  /\ pc = "insert" => /\ HavePending
                      /\ k \in pend.pos .. pend.pos + pend.len
  /\ pc = "done" => i = N

\* The parser's token, and how much of it is in the output.
InFlight ==
  /\ copy \in [start : Nat, done : Nat, length : Nat]
  /\ out \in Seq(Bytes)
  /\ copy.done <= Len(out)
  /\ token = NoToken => /\ copy = NoCopy
                        /\ Start = Emitted
  /\ token # NoToken => token.kind \in {"literal", "match"}
  /\ token.kind = "literal" => /\ copy = NoCopy
                               /\ Start + 1 = Emitted
                               /\ token.literal = data[Start + 1]
  /\ token.kind = "match" => /\ token.length >= MinMatch
                             /\ Start + token.length = Emitted
                             /\ IsMatch(token.length, token.distance, Start)
  /\ copy # NoCopy => /\ token.kind = "match" /\ coded # NoCode
                      /\ copy.length = token.length
                      /\ copy.start = Start - token.distance
                      /\ copy.done <= copy.length

Wire ==
  /\ encPos = IF coded = NoCode THEN Start ELSE Emitted
  /\ encCtx = Context(encPos)
  /\ decCtx = Context(Start)
  /\ coded # NoCode =>
       /\ coded.sym = token.kind
       /\ coded.sym \in {"literal", "match"}
       /\ coded.ctx = Context(Start)
       /\ coded.sym = "literal" => coded.literal = token.literal
       /\ coded.sym = "match" => /\ Unbucket(coded.length) + MinMatch = token.length
                                 /\ Unbucket(coded.distance) + 1 = token.distance

Prefix == ~error /\ \A p \in 1 .. Len(out) : out[p] = data[p]

IInv == Shape /\ Chains /\ Indexed /\ Search /\ Pending /\ InFlight /\ Wire /\ Prefix

\* What is left of a length or a distance fits in the bits of its bucket.
Extras == \A c \in {coded.length, coded.distance} : c.extra \in 0 .. PowerOfTwo[c.bucket] - 1
-----------------------------------------------------------------------------
\* No number that is in range is cut by a cast.
LEMMA Narrow == \A n \in 0 .. MaxLen : n \in Nat /\ n < WordSize /\ U32(n) = n
  BY DEF U32

\* A window that fits is hashed to an index of head.
LEMMA HashType ==
  ASSUME data \in Seq(Bytes), NEW p \in Nat, p + MinMatch <= N
  PROVE  HashAt(p) \in Hashes
<1> DEFINE w == [j \in 1 .. MinMatch |-> data[p + j]]
<1>1. \A j \in 1 .. MinMatch : data[p + j] \in Bytes
  BY DEF N
<1>2. w \in [1 .. MinMatch -> Bytes]
  BY <1>1
<1> QED
  BY <1>2 DEF HashAt

LEMMA HashUnchanged ==
  ASSUME data' = data
  PROVE  \A p : HashAt(p)' = HashAt(p)
  BY DEF HashAt

LEMMA ChainsUnchanged ==
  ASSUME Chains, UNCHANGED <<data, chainVars>>
  PROVE  Chains'
<1>1. \A q : HashAt(q)' = HashAt(q)
  BY HashUnchanged
<1>2. (\A p \in hashed : p + MinMatch <= N)'
  BY DEF Chains, chainVars, N
<1>3. ASSUME NEW h \in Hashes
      PROVE  IsNewest(head[h], {q \in hashed : HashAt(q) = h})'
  <2>1. {q \in hashed : HashAt(q) = h}' = {q \in hashed : HashAt(q) = h}
    BY <1>1 DEF chainVars
  <2> QED
    BY <2>1 DEF Chains, IsNewest, chainVars
<1>4. ASSUME NEW r \in hashed'
      PROVE  IsNewest(prev[r], {q \in hashed : HashAt(q) = HashAt(r) /\ q < r})'
  <2>1. {q \in hashed : HashAt(q) = HashAt(r) /\ q < r}'
          = {q \in hashed : HashAt(q) = HashAt(r) /\ q < r}
    BY <1>1 DEF chainVars
  <2> QED
    BY <2>1 DEF Chains, IsNewest, chainVars
<1> QED
  BY <1>2, <1>3, <1>4 DEF Chains

\* Entering a position that is newer than all others keeps the chains exact.
LEMMA Inserted ==
  ASSUME Shape, Chains, NEW p \in 0 .. N - 1,
         p \in hashed \/ \A q \in hashed : q < p,
         Insert(p), data' = data
  PROVE  /\ Chains'
         /\ head' \in [Hashes -> Int]
         /\ prev' \in [0 .. N - 1 -> Int]
         /\ hashed' = IF p + MinMatch <= N THEN hashed \union {p} ELSE hashed
<1>1. CASE p + MinMatch > N \/ p \in hashed
  <2>1. UNCHANGED chainVars
    BY <1>1 DEF Insert
  <2>2. hashed' = IF p + MinMatch <= N THEN hashed \union {p} ELSE hashed
    BY <1>1, <2>1 DEF chainVars, Shape, N
  <2>3. Chains'
    BY <2>1, ChainsUnchanged
  <2> QED
    BY <2>1, <2>2, <2>3 DEF chainVars, Shape, N
<1>2. CASE ~(p + MinMatch > N \/ p \in hashed)
  <2> DEFINE h0 == HashAt(p)
  <2>1. /\ prev' = [prev EXCEPT ![p] = head[h0]]
        /\ head' = [head EXCEPT ![h0] = p]
        /\ hashed' = hashed \union {p}
    BY <1>2 DEF Insert
  <2>2. h0 \in Hashes /\ p + MinMatch <= N /\ \A q \in hashed : q < p
    BY <1>2, HashType DEF Shape, N
  <2>3. \A q : HashAt(q)' = HashAt(q)
    BY HashUnchanged
  <2>4. \A q \in hashed : q \in 0 .. N - 1
    BY DEF Shape
  <2>10. p \in Int
    BY DEF Shape, N
  <2>5. (\A q \in hashed : q + MinMatch <= N)'
    BY <2>1, <2>2 DEF Chains, N
  <2>6. ASSUME NEW h \in Hashes
        PROVE  IsNewest(head[h], {q \in hashed : HashAt(q) = h})'
    <3> DEFINE S == {q \in hashed : HashAt(q) = h}
               T == {q \in hashed' : HashAt(q) = h}
    <3>1. IsNewest(head[h], S)
      BY DEF Chains
    <3>2. {q \in hashed : HashAt(q) = h}' = T
      BY <2>3
    <3>3. CASE h = h0
      <4>1. head'[h] = p
        BY <2>1, <3>3 DEF Shape
      <4>2. p \in T /\ \A q \in T : q <= p
        BY <2>1, <2>2, <2>4, <3>3
      <4> QED
        BY <3>2, <4>1, <4>2 DEF IsNewest
    <3>4. CASE h # h0
      <4>1. head'[h] = head[h]
        BY <2>1, <3>4 DEF Shape
      <4>2. T = S
        BY <2>1, <3>4
      <4> QED
        BY <3>1, <3>2, <4>1, <4>2 DEF IsNewest
    <3> QED
      BY <3>3, <3>4
  <2>7. ASSUME NEW r \in hashed'
        PROVE  IsNewest(prev[r], {q \in hashed : HashAt(q) = HashAt(r) /\ q < r})'
    <3> DEFINE T == {q \in hashed' : HashAt(q) = HashAt(r) /\ q < r}
    <3>1. {q \in hashed : HashAt(q) = HashAt(r) /\ q < r}' = T
      BY <2>3
    <3>2. CASE r = p
      <4>1. prev'[r] = head[h0]
        BY <2>1, <3>2 DEF Shape
      <4>2. T = {q \in hashed : HashAt(q) = h0}
        <5>1. ~(p < p) /\ \A q \in hashed : q < p
          BY <2>2, <2>10
        <5>2. \A q : q \in hashed' /\ q < p <=> q \in hashed
          BY <2>1, <5>1
        <5> QED
          BY <3>2, <5>2
      <4>3. IsNewest(head[h0], {q \in hashed : HashAt(q) = h0})
        BY <2>2 DEF Chains
      <4> QED
        BY <3>1, <4>1, <4>2, <4>3 DEF IsNewest
    <3>3. CASE r # p
      <4>1. r \in hashed /\ r < p
        BY <2>1, <2>2, <3>3
      <4>2. prev'[r] = prev[r]
        BY <2>1, <3>3, <4>1 DEF Shape
      <4>3. T = {q \in hashed : HashAt(q) = HashAt(r) /\ q < r}
        BY <2>1, <2>4, <4>1
      <4>4. IsNewest(prev[r], {q \in hashed : HashAt(q) = HashAt(r) /\ q < r})
        BY <4>1 DEF Chains
      <4> QED
        BY <3>1, <4>2, <4>3, <4>4 DEF IsNewest
    <3> QED
      BY <3>2, <3>3
  <2>8. Chains'
    BY <2>5, <2>6, <2>7 DEF Chains
  <2>9. head' \in [Hashes -> Int] /\ prev' \in [0 .. N - 1 -> Int]
    BY <2>1, <2>2 DEF Shape
  <2> QED
    BY <2>1, <2>2, <2>8, <2>9
<1> QED
  BY <1>1, <1>2
-----------------------------------------------------------------------------
LEMMA InitOK == Init => IInv
<1> SUFFICES ASSUME Init PROVE IInv
  OBVIOUS
<1> USE DEF Init, MatcherInit
<1>1. data \in Seq(Bytes)
  <2>1. PICK n \in 0 .. MaxLen : data \in [1 .. n -> Bytes]
    OBVIOUS
  <2> QED
    BY <2>1
<1>2. N \in Nat /\ N <= MaxLen
  BY <1>1 DEF N
<1>3. Shape
  BY <1>1, <1>2 DEF Shape, NoPending, Matches, NoMatch, NoToken
<1>4. Chains
  BY DEF Chains, IsNewest
<1>5. Indexed /\ Search /\ Pending
  BY DEF Indexed, Search, Pending, HavePending, NoPending
<1>6. Start = 0 /\ Emitted = 0
  BY DEF Start, Emitted, HavePending, NoPending, NoCopy
<1>7. InFlight
  BY <1>6 DEF InFlight, NoCopy, NoToken
<1>8. Wire /\ Prefix
  BY <1>6 DEF Wire, Prefix, Context, NoCode
<1> QED
  BY <1>3, <1>4, <1>5, <1>7, <1>8 DEF IInv

LEMMA EmittedInRange ==
  ASSUME IInv
  PROVE  N \in Nat /\ Emitted \in 0 .. N
<1>1. N \in Nat
  BY DEF IInv, Shape, N
<1>2. HavePending => pend.pos \in 0 .. N /\ pend.pos + pend.len \in 0 .. N
  <2>1. pend.len \in Nat /\ pend.pos \in Nat
    BY DEF IInv, Shape
  <2>2. HavePending => pend.pos + pend.len <= N
    BY DEF IInv, Pending, IsMatch
  <2> QED
    BY <1>1, <2>1, <2>2
<1> QED
  BY <1>1, <1>2 DEF IInv, Shape, Pending, Emitted

\* The deferred match is that of its token.
LEMMA PendingIs ==
  ASSUME IInv, HavePending
  PROVE  PendingMatch = [kind |-> "match", literal |-> 0,
                         length |-> pend.len, distance |-> pend.dist]
<1>1. /\ pend \in [len : Nat, dist : Nat, pos : Nat] /\ N \in Nat /\ N <= MaxLen
      /\ IsMatch(pend.len, pend.dist, pend.pos)
  BY DEF IInv, Shape, Pending, N
<1>2. pend.len \in 0 .. MaxLen /\ pend.dist \in 0 .. MaxLen
  BY <1>1 DEF IsMatch
<1> QED
  BY <1>2, Narrow DEF PendingMatch

\* A parser's step that pushes the token that comes next, or none, keeps what
\* the invariant says of the codec.
LEMMA Pushed ==
  ASSUME IInv, UNCHANGED <<data, codecVars>>, token = NoToken,
         \/ token' = NoToken /\ Emitted' = Emitted
         \/ token' = LiteralAt(Emitted) /\ Emitted' = Emitted + 1
         \/ /\ token' = PendingMatch /\ HavePending
            /\ pend.pos = Emitted /\ Emitted' = Emitted + pend.len
  PROVE  InFlight' /\ Wire' /\ Prefix'
<1>1. coded = NoCode /\ copy = NoCopy /\ Start = Emitted
  BY DEF IInv, Wire, InFlight, NoToken
<1>2. UNCHANGED <<encPos, encCtx, coded, decCtx, copy, out, error, Start, N>>
  BY DEF codecVars, Start, N
<1>3. Wire' /\ Prefix'
  <2>1. Context(encPos)' = Context(encPos) /\ Context(Start)' = Context(Start)
    BY <1>2 DEF Context
  <2> QED
    BY <1>1, <1>2, <2>1 DEF IInv, Wire, Prefix
<1>4. /\ (copy \in [start : Nat, done : Nat, length : Nat])'
      /\ (out \in Seq(Bytes))'
      /\ (copy.done <= Len(out))'
      /\ (copy = NoCopy)'
  BY <1>1, <1>2 DEF IInv, InFlight, NoCopy
<1>5. CASE token' = NoToken /\ Emitted' = Emitted
  <2>1. token'.kind = "none"
    BY <1>5 DEF NoToken
  <2> QED
    BY <1>1, <1>2, <1>3, <1>4, <1>5, <2>1 DEF InFlight
<1>6. CASE token' = LiteralAt(Emitted) /\ Emitted' = Emitted + 1
  <2>1. token'.kind = "literal" /\ token'.literal = data[Start + 1]
    BY <1>1, <1>6 DEF LiteralAt
  <2>2. token' # NoToken
    BY <2>1 DEF NoToken
  <2> QED
    BY <1>1, <1>2, <1>3, <1>4, <1>6, <2>1, <2>2 DEF InFlight
<1>7. CASE /\ token' = PendingMatch /\ HavePending
           /\ pend.pos = Emitted /\ Emitted' = Emitted + pend.len
  <2>1. token'.kind = "match" /\ token'.length = pend.len /\ token'.distance = pend.dist
    BY <1>7, PendingIs
  <2>2. pend.len >= MinMatch /\ IsMatch(pend.len, pend.dist, Start)
    BY <1>1, <1>7 DEF IInv, Pending
  <2>3. IsMatch(token.length, token.distance, Start)'
    BY <1>2, <2>1, <2>2 DEF IsMatch
  <2>4. token' # NoToken
    BY <2>1 DEF NoToken
  <2> QED
    BY <1>1, <1>2, <1>3, <1>4, <1>7, <2>1, <2>2, <2>3, <2>4 DEF InFlight
<1> QED
  BY <1>5, <1>6, <1>7

LEMMA LookOK ==
  ASSUME IInv, Look, UNCHANGED codecVars
  PROVE  IInv'
<1> USE DEF Look
<1>1. UNCHANGED <<data, i, pend, head, prev, hashed, k, token, N, HavePending>>
  BY DEF chainVars, N, HavePending
<1>2. N \in Nat
  BY DEF IInv, Shape, N
<1>3. \A h \in Hashes : head[h] \in Int /\ (head[h] # -1 => head[h] \in hashed)
  BY DEF IInv, Shape, Chains, IsNewest
<1>4. cand' \in Int /\ (cand' # -1 => cand' \in hashed)
  <2>1. i + MinMatch <= N => HashAt(i) \in Hashes
    BY HashType DEF IInv, Shape
  <2> QED
    BY <1>2, <1>3, <2>1 DEF IInv, Shape
<1>5. Shape'
  BY <1>1, <1>4 DEF IInv, Shape, Matches, NoMatch
<1>6. Chains'
  BY ChainsUnchanged DEF IInv
<1>7. Indexed' /\ Pending'
  <2>1. IsMatch(pend.len, pend.dist, pend.pos)' = IsMatch(pend.len, pend.dist, pend.pos)
    BY <1>1 DEF IsMatch
  <2> QED
    BY <1>1, <2>1 DEF IInv, Indexed, Pending
<1>8. Search'
  BY <1>1, <1>4 DEF Search, NoMatch
<1>9. Emitted' = Emitted
  BY <1>1 DEF Emitted
<1>10. InFlight' /\ Wire' /\ Prefix'
  BY <1>1, <1>9, Pushed
<1> QED
  BY <1>5, <1>6, <1>7, <1>8, <1>10 DEF IInv

LEMMA VisitOK ==
  ASSUME IInv, Visit, UNCHANGED codecVars
  PROVE  IInv'
<1> USE DEF Visit
<1>1. UNCHANGED <<data, pc, i, pend, head, prev, hashed, k, token, N, HavePending>>
  BY DEF chainVars, N, HavePending
<1>2. N \in Nat /\ i \in Nat /\ cand \in hashed /\ cand \in Nat /\ best \in Matches
  BY DEF IInv, Shape, Search, N
<1>3. PICK len \in 0 .. N - i :
        /\ IsMatchLength(len, cand, i)
        /\ IF len > best.len
           THEN /\ best' = [len |-> len, dist |-> i - cand]
                /\ cand' = IF len = N - i \/ len >= NiceLength THEN -1 ELSE prev[cand]
           ELSE /\ cand' = prev[cand]
                /\ UNCHANGED best
  OBVIOUS
<1>4. prev[cand] \in Int /\ (prev[cand] # -1 => prev[cand] \in hashed)
  BY <1>2 DEF IInv, Shape, Chains, IsNewest
<1>5. cand' \in Int /\ (cand' # -1 => cand' \in hashed)
  BY <1>3, <1>4
<1>6. cand < i
  BY <1>2 DEF IInv, Indexed, Search
<1>7. best' \in Matches
  BY <1>2, <1>3, <1>6 DEF Matches
<1>8. Shape'
  BY <1>1, <1>2, <1>5, <1>7 DEF IInv, Shape
<1>9. Chains'
  BY ChainsUnchanged DEF IInv
<1>10. Indexed' /\ Pending'
  <2>1. IsMatch(pend.len, pend.dist, pend.pos)' = IsMatch(pend.len, pend.dist, pend.pos)
    BY <1>1 DEF IsMatch
  <2> QED
    BY <1>1, <2>1 DEF IInv, Indexed, Pending
<1>11. Search'
  <2>1. best'.len > 0 => IsMatch(best'.len, best'.dist, i)
    <3>1. CASE len > best.len
      <4>1. \A j \in 1 .. len : data[i - (i - cand) + j] = data[i + j]
        BY <1>2, <1>3 DEF IsMatchLength
      <4>2. i - cand \in 1 .. i /\ i + len <= N
        BY <1>2, <1>3, <1>6
      <4>3. best'.len = len /\ best'.dist = i - cand
        BY <1>3, <3>1
      <4> QED
        BY <4>1, <4>2, <4>3 DEF IsMatch
    <3>2. CASE ~(len > best.len)
      BY <1>3, <3>2 DEF IInv, Search
    <3> QED
      BY <3>1, <3>2
  <2>2. (best.len > 0 => IsMatch(best.len, best.dist, i))'
    BY <1>1, <2>1 DEF IsMatch
  <2> QED
    BY <1>1, <1>5, <2>2 DEF IInv, Search
<1>12. Emitted' = Emitted
  BY <1>1 DEF Emitted
<1>13. InFlight' /\ Wire' /\ Prefix'
  BY <1>1, <1>12, Pushed DEF IInv, Search
<1> QED
  BY <1>8, <1>9, <1>10, <1>11, <1>13 DEF IInv

LEMMA MatchUnchanged ==
  ASSUME data' = data
  PROVE  \A len, dist, p : IsMatch(len, dist, p)' = IsMatch(len, dist, p)
  BY DEF IsMatch, N

\* What is known where the walk is over and the parser decides.
LEMMA Deciding ==
  ASSUME IInv, Searched
  PROVE  /\ token = NoToken /\ N \in Nat /\ i \in 0 .. N - 1
         /\ best \in Matches
         /\ best.len > 0 => IsMatch(best.len, best.dist, i)
         /\ \A p \in hashed : p \in 0 .. i - 1
         /\ pend \in [len : Nat, dist : Nat, pos : Nat]
         /\ HavePending => /\ pend.len >= MinMatch
                           /\ IsMatch(pend.len, pend.dist, pend.pos)
                           /\ i = pend.pos + 1
         /\ \A p \in 0 .. i - 1 :
              p + MinMatch <= N => p \in hashed \/ (HavePending /\ p = pend.pos)
<1>1. N \in Nat
  BY DEF IInv, Shape, N
<1>2. pc = "walk"
  BY DEF Searched
<1>3. \A p \in hashed : p \in 0 .. i - 1
  BY <1>1, <1>2 DEF IInv, Shape, Indexed
<1> QED
  BY <1>1, <1>2, <1>3 DEF IInv, Shape, Search, Pending, Indexed

LEMMA ImproveOK ==
  ASSUME IInv, Improve, UNCHANGED codecVars
  PROVE  IInv'
<1> USE DEF Improve
<1>1. /\ UNCHANGED <<data, cand, chain, best, k, N>>
      /\ pc' = "look" /\ i' = i + 1
      /\ pend' = [len |-> best.len, dist |-> best.dist, pos |-> i]
      /\ token' = LiteralAt(pend.pos)
  BY DEF searchVars, N
<1>2. /\ pend.pos \in 0 .. N - 1 /\ pend.pos = i - 1 /\ pend.len >= MinMatch
      /\ N \in Nat /\ i \in 0 .. N - 1
      /\ best \in Matches /\ best.len > 0 /\ IsMatch(best.len, best.dist, i)
  BY Deciding DEF Matches
<1>3. pend.pos \in hashed \/ \A q \in hashed : q < pend.pos
  BY <1>2, Deciding
<1>4. /\ Chains'
      /\ head' \in [Hashes -> Int]
      /\ prev' \in [0 .. N - 1 -> Int]
      /\ hashed' = IF pend.pos + MinMatch <= N THEN hashed \union {pend.pos} ELSE hashed
  BY <1>1, <1>2, <1>3, Inserted DEF IInv
<1>5. HavePending' /\ pend' \in [len : Nat, dist : Nat, pos : Nat]
  BY <1>1, <1>2 DEF HavePending, Matches
<1>6. Shape'
  <2>1. token'.literal \in Bytes
    BY <1>1, <1>2 DEF IInv, Shape, N, LiteralAt
  <2>2. token' \in [kind : {"none", "literal", "match"}, literal : Bytes \union {0},
                    length : Nat, distance : Nat]
    BY <1>1, <2>1 DEF LiteralAt
  <2>3. hashed' \subseteq 0 .. N - 1
    BY <1>2, <1>4 DEF IInv, Shape
  <2>4. /\ data \in Seq(Bytes) /\ N <= MaxLen /\ cand \in Int /\ chain \in Nat
        /\ best \in Matches /\ k \in Nat
    BY DEF IInv, Shape
  <2>5. pend' \in [len : Nat, dist : Nat, pos : Nat]
    BY <1>5
  <2>6. UNCHANGED <<data, cand, chain, best, k, N>> /\ pc' = "look" /\ i' \in 0 .. N
    BY <1>1, <1>2
  <2> HIDE DEF Improve
  <2> QED
    BY <1>4, <2>2, <2>3, <2>4, <2>5, <2>6 DEF Shape
<1>7. Indexed'
  <2>1. \A p \in hashed' : p < i + 1
    BY <1>2, <1>4, Deciding
  <2>2. \A p \in 0 .. i : p + MinMatch <= N => p \in hashed' \/ p = i
    BY <1>2, <1>4, Deciding
  <2> QED
    BY <1>1, <1>2, <1>5, <2>1, <2>2 DEF Indexed
<1>8. Pending'
  <2>2. pend'.len >= MinMatch
    BY <1>1, <1>2, Deciding DEF Matches
  <2>3. IsMatch(pend.len, pend.dist, pend.pos)'
    BY <1>1, <1>2 DEF IsMatch
  <2> QED
    BY <1>1, <2>2, <2>3 DEF Pending
<1>9. Search'
  BY <1>1 DEF Search
<1>10. Emitted = pend.pos /\ Emitted' = Emitted + 1
  BY <1>1, <1>2, <1>5 DEF Emitted, Searched
<1>11. InFlight' /\ Wire' /\ Prefix'
  BY <1>1, <1>10, Deciding, Pushed
<1> QED
  BY <1>4, <1>6, <1>7, <1>8, <1>9, <1>11 DEF IInv

LEMMA CommitOK ==
  ASSUME IInv, Commit, UNCHANGED codecVars
  PROVE  IInv'
<1> USE DEF Commit
<1>1. /\ UNCHANGED <<data, i, pend, head, prev, hashed, cand, chain, best, N, HavePending>>
      /\ pc' = "insert" /\ k' = pend.pos
      /\ token' = PendingMatch
  BY DEF chainVars, searchVars, N, HavePending
<1>2. /\ pend \in [len : Nat, dist : Nat, pos : Nat] /\ pend.pos = i - 1
      /\ N \in Nat /\ i \in 0 .. N - 1
      /\ pend.len >= MinMatch /\ IsMatch(pend.len, pend.dist, pend.pos)
  BY Deciding
<1>3. Shape'
  <2>1. token' \in [kind : {"none", "literal", "match"}, literal : Bytes \union {0},
                    length : Nat, distance : Nat]
    BY <1>1, <1>2, PendingIs DEF HavePending
  <2> QED
    BY <1>1, <1>2, <2>1 DEF IInv, Shape
<1>4. Chains'
  BY <1>1, ChainsUnchanged DEF IInv, chainVars
<1>5. Indexed'
  BY <1>1, <1>2, Deciding DEF Indexed
<1>6. Pending'
  BY <1>1, <1>2 DEF Pending, IsMatch
<1>7. Search'
  BY <1>1 DEF Search
<1>8. Emitted = pend.pos /\ Emitted' = Emitted + pend.len
  BY <1>1 DEF Emitted, Searched
<1>9. InFlight' /\ Wire' /\ Prefix'
  BY <1>1, <1>8, Deciding, Pushed
<1> QED
  BY <1>3, <1>4, <1>5, <1>6, <1>7, <1>9 DEF IInv

LEMMA DeferOK ==
  ASSUME IInv, Defer, UNCHANGED codecVars
  PROVE  IInv'
<1> USE DEF Defer
<1>1. /\ UNCHANGED <<data, cand, chain, best, k, token, N>>
      /\ pc' = "look" /\ i' = i + 1
      /\ pend' = [len |-> best.len, dist |-> best.dist, pos |-> i]
  BY DEF searchVars, N
<1>2. /\ N \in Nat /\ i \in 0 .. N - 1
      /\ best \in Matches /\ best.len >= MinMatch /\ IsMatch(best.len, best.dist, i)
      /\ \A q \in hashed : q < i
  BY Deciding DEF Matches
<1>3. /\ Chains'
      /\ head' \in [Hashes -> Int]
      /\ prev' \in [0 .. N - 1 -> Int]
      /\ hashed' = IF i + MinMatch <= N THEN hashed \union {i} ELSE hashed
  BY <1>1, <1>2, Inserted DEF IInv
<1>4. HavePending' /\ pend' \in [len : Nat, dist : Nat, pos : Nat]
  BY <1>1, <1>2 DEF HavePending, Matches
<1>5. Shape'
  <2>1. hashed' \subseteq 0 .. N - 1
    BY <1>2, <1>3 DEF IInv, Shape
  <2>2. /\ data \in Seq(Bytes) /\ N <= MaxLen /\ cand \in Int /\ chain \in Nat
        /\ best \in Matches /\ k \in Nat
        /\ token \in [kind : {"none", "literal", "match"}, literal : Bytes \union {0},
                      length : Nat, distance : Nat]
    BY DEF IInv, Shape
  <2> QED
    BY <1>1, <1>2, <1>3, <1>4, <2>1, <2>2 DEF Shape
<1>6. Indexed'
  <2>1. \A p \in hashed' : p < i + 1
    BY <1>2, <1>3, Deciding
  <2>2. \A p \in 0 .. i : p + MinMatch <= N => p \in hashed'
    BY <1>2, <1>3, Deciding
  <2> QED
    BY <1>1, <1>2, <2>1, <2>2 DEF Indexed
<1>7. Pending'
  <2>1. IsMatch(pend.len, pend.dist, pend.pos)'
    BY <1>1, <1>2 DEF IsMatch
  <2> QED
    BY <1>1, <1>2, <2>1 DEF Pending
<1>8. Search'
  BY <1>1 DEF Search
<1>9. Emitted' = Emitted
  BY <1>1, <1>2, <1>4 DEF Emitted, Searched
<1>10. InFlight' /\ Wire' /\ Prefix'
  BY <1>1, <1>9, Deciding, Pushed
<1> QED
  BY <1>3, <1>5, <1>6, <1>7, <1>8, <1>10 DEF IInv

LEMMA LiteralOK ==
  ASSUME IInv, Literal, UNCHANGED codecVars
  PROVE  IInv'
<1> USE DEF Literal
<1>1. /\ UNCHANGED <<data, pend, cand, chain, best, k, N, HavePending>>
      /\ pc' = "look" /\ i' = i + 1 /\ ~HavePending
      /\ token' = LiteralAt(i)
  BY DEF searchVars, N, HavePending
<1>2. /\ N \in Nat /\ i \in 0 .. N - 1
      /\ \A q \in hashed : q < i
  BY Deciding
<1>3. /\ Chains'
      /\ head' \in [Hashes -> Int]
      /\ prev' \in [0 .. N - 1 -> Int]
      /\ hashed' = IF i + MinMatch <= N THEN hashed \union {i} ELSE hashed
  BY <1>1, <1>2, Inserted DEF IInv
<1>4. Shape'
  <2>1. hashed' \subseteq 0 .. N - 1
    BY <1>2, <1>3 DEF IInv, Shape
  <2>2. /\ data \in Seq(Bytes) /\ N <= MaxLen /\ cand \in Int /\ chain \in Nat
        /\ best \in Matches /\ k \in Nat
        /\ pend \in [len : Nat, dist : Nat, pos : Nat]
    BY DEF IInv, Shape
  <2>3. token' \in [kind : {"none", "literal", "match"}, literal : Bytes \union {0},
                    length : Nat, distance : Nat]
    BY <1>1, <1>2, <2>2 DEF LiteralAt, N
  <2> QED
    BY <1>1, <1>2, <1>3, <2>1, <2>2, <2>3 DEF Shape
<1>5. Indexed'
  <2>1. \A p \in hashed' : p < i + 1
    BY <1>2, <1>3, Deciding
  <2>2. \A p \in 0 .. i : p + MinMatch <= N => p \in hashed'
    BY <1>1, <1>2, <1>3, Deciding
  <2> QED
    BY <1>1, <1>2, <2>1, <2>2 DEF Indexed
<1>6. Pending' /\ Search'
  BY <1>1 DEF Pending, Search
<1>7. Emitted = i /\ Emitted' = Emitted + 1
  BY <1>1 DEF Emitted, Searched
<1>8. InFlight' /\ Wire' /\ Prefix'
  BY <1>1, <1>7, Deciding, Pushed
<1> QED
  BY <1>3, <1>4, <1>5, <1>6, <1>8 DEF IInv

LEMMA EnterSpanOK ==
  ASSUME IInv, EnterSpan, UNCHANGED codecVars
  PROVE  IInv'
<1> USE DEF EnterSpan
<1>1. /\ UNCHANGED <<data, cand, chain, best, token, N>> /\ token = NoToken /\ pc = "insert"
  BY DEF searchVars, N
<1>2. /\ N \in Nat /\ pend \in [len : Nat, dist : Nat, pos : Nat]
      /\ pend.pos + pend.len <= N
      /\ k \in pend.pos .. pend.pos + pend.len
      /\ \A p \in hashed : p \in Nat /\ (p <= pend.pos \/ p < k)
      /\ \A p \in 0 .. k - 1 : p + MinMatch <= N => p \in hashed
  <2>1. pend.pos + pend.len <= N
    BY <1>1 DEF IInv, Pending, IsMatch
  <2>2. N \in Nat /\ \A p \in hashed : p \in Nat
    BY DEF IInv, Shape, N
  <2> QED
    BY <1>1, <2>1, <2>2 DEF IInv, Shape, Pending, Indexed
<1>3. /\ data \in Seq(Bytes) /\ N <= MaxLen /\ cand \in Int /\ chain \in Nat
      /\ best \in Matches
      /\ token \in [kind : {"none", "literal", "match"}, literal : Bytes \union {0},
                    length : Nat, distance : Nat]
      /\ i \in 0 .. N
  BY DEF IInv, Shape
<1>4. CASE k < pend.pos + pend.len
  <2>1. /\ UNCHANGED <<pc, i, pend, HavePending>> /\ k' = k + 1 /\ Insert(k)
    BY <1>4 DEF HavePending
  <2>2. k \in 0 .. N - 1 /\ (k \in hashed \/ \A q \in hashed : q < k)
    BY <1>2, <1>4
  <2>3. /\ Chains'
        /\ head' \in [Hashes -> Int]
        /\ prev' \in [0 .. N - 1 -> Int]
        /\ hashed' = IF k + MinMatch <= N THEN hashed \union {k} ELSE hashed
    BY <1>1, <2>1, <2>2, Inserted DEF IInv
  <2>4. Shape'
    <3>1. hashed' \subseteq 0 .. N - 1
      BY <2>2, <2>3 DEF IInv, Shape
    <3> QED
      BY <1>1, <1>2, <1>3, <2>1, <2>2, <2>3, <3>1 DEF Shape
  <2>5. Indexed'
    <3>1. \A p \in hashed' : p <= pend.pos \/ p < k + 1
      BY <1>2, <2>2, <2>3
    <3>2. \A p \in 0 .. k : p + MinMatch <= N => p \in hashed'
      BY <1>2, <2>2, <2>3
    <3> QED
      BY <1>1, <1>2, <2>1, <2>2, <3>1, <3>2 DEF Indexed
  <2>6. Pending'
    <3>1. IsMatch(pend.len, pend.dist, pend.pos)' = IsMatch(pend.len, pend.dist, pend.pos)
      BY <1>1, <2>1 DEF IsMatch
    <3> QED
      BY <1>1, <1>2, <1>4, <2>1, <3>1 DEF IInv, Pending
  <2>7. Search'
    BY <1>1, <2>1 DEF Search
  <2>8. Emitted' = Emitted
    BY <1>1, <2>1 DEF Emitted
  <2>9. InFlight' /\ Wire' /\ Prefix'
    BY <1>1, <2>8, Pushed
  <2> QED
    BY <2>3, <2>4, <2>5, <2>6, <2>7, <2>9 DEF IInv
<1>5. CASE ~(k < pend.pos + pend.len)
  <2>1. /\ pc' = "look" /\ i' = pend.pos + pend.len /\ pend' = NoPending
        /\ UNCHANGED <<head, prev, hashed, k>>
    BY <1>5 DEF chainVars
  <2>2. k = pend.pos + pend.len /\ ~HavePending'
    BY <1>2, <1>5, <2>1 DEF HavePending, NoPending
  <2>3. Shape'
    BY <1>1, <1>2, <1>3, <2>1 DEF IInv, Shape, NoPending
  <2>4. Chains'
    BY <1>1, <2>1, ChainsUnchanged DEF IInv, chainVars
  <2>5. Indexed'
    <3>1. pend.len > 0
      BY <1>1 DEF IInv, Pending, HavePending
    <3> QED
      BY <1>1, <1>2, <2>1, <2>2, <3>1 DEF Indexed
  <2>6. Pending' /\ Search'
    BY <2>1, <2>2 DEF Pending, Search
  <2>7. Emitted' = Emitted
    BY <1>1, <2>1, <2>2 DEF Emitted
  <2>8. InFlight' /\ Wire' /\ Prefix'
    BY <1>1, <2>7, Pushed
  <2> QED
    BY <2>3, <2>4, <2>5, <2>6, <2>8 DEF IInv
<1> QED
  BY <1>4, <1>5

LEMMA EndOfInputOK ==
  ASSUME IInv, EndOfInput, UNCHANGED codecVars
  PROVE  IInv'
<1> USE DEF EndOfInput
<1>1. /\ UNCHANGED <<data, i, pend, head, prev, hashed, cand, chain, best, k, N, HavePending>>
      /\ token = NoToken /\ pc = "look" /\ pc' = "done"
      /\ token' = IF HavePending THEN PendingMatch ELSE NoToken
  BY DEF chainVars, searchVars, N, HavePending
<1>2. N \in Nat /\ i = N /\ pend \in [len : Nat, dist : Nat, pos : Nat]
  BY DEF IInv, Shape, N
<1>3. Shape'
  <2>1. token' \in [kind : {"none", "literal", "match"}, literal : Bytes \union {0},
                    length : Nat, distance : Nat]
    BY <1>1, <1>2, PendingIs DEF NoToken
  <2> QED
    BY <1>1, <1>2, <2>1 DEF IInv, Shape
<1>4. Chains'
  BY <1>1, ChainsUnchanged DEF IInv, chainVars
<1>5. Indexed' /\ Search'
  BY <1>1 DEF IInv, Indexed, Search
<1>6. Pending'
  <2>1. IsMatch(pend.len, pend.dist, pend.pos)' = IsMatch(pend.len, pend.dist, pend.pos)
    BY <1>1 DEF IsMatch
  <2> QED
    BY <1>1, <1>2, <2>1 DEF IInv, Pending
<1>7. HavePending => pend.pos + pend.len = N
  BY <1>1, <1>2 DEF IInv, Pending, IsMatch
<1>8. /\ HavePending => Emitted = pend.pos /\ Emitted' = Emitted + pend.len
      /\ ~HavePending => Emitted' = Emitted
  BY <1>1, <1>2, <1>7 DEF Emitted
<1>9. InFlight' /\ Wire' /\ Prefix'
  BY <1>1, <1>8, Pushed
<1> QED
  BY <1>3, <1>4, <1>5, <1>6, <1>9 DEF IInv
-----------------------------------------------------------------------------
\* A step of the codec leaves the parser's part of the invariant alone.
LEMMA ParserUntouched ==
  ASSUME IInv, UNCHANGED <<data, pc, i, pend, chainVars, searchVars, k>>,
         token' = token \/ token' = NoToken
  PROVE  Shape' /\ Chains' /\ Indexed' /\ Search' /\ Pending' /\ Emitted' = Emitted
<1>1. UNCHANGED <<data, pc, i, pend, head, prev, hashed, cand, chain, best, k, N, HavePending>>
  BY DEF chainVars, searchVars, N, HavePending
<1>2. token' \in [kind : {"none", "literal", "match"}, literal : Bytes \union {0},
                  length : Nat, distance : Nat]
  BY DEF IInv, Shape, NoToken
<1>3. Shape'
  BY <1>1, <1>2 DEF IInv, Shape
<1>4. Chains'
  BY <1>1, ChainsUnchanged DEF IInv, chainVars
<1>5. Indexed'
  BY <1>1 DEF IInv, Indexed
<1>6. Search'
  <2>1. IsMatch(best.len, best.dist, i)' = IsMatch(best.len, best.dist, i)
    BY <1>1 DEF IsMatch
  <2> QED
    BY <1>1, <2>1 DEF IInv, Search
<1>7. Pending'
  <2>1. IsMatch(pend.len, pend.dist, pend.pos)' = IsMatch(pend.len, pend.dist, pend.pos)
    BY <1>1 DEF IsMatch
  <2> QED
    BY <1>1, <2>1 DEF IInv, Pending
<1>8. Emitted' = Emitted
  BY <1>1 DEF Emitted
<1> QED
  BY <1>3, <1>4, <1>5, <1>6, <1>7, <1>8

-----------------------------------------------------------------------------
\* The buckets. PowerOfTwo is what its definition says.
Doubles(f, n) == f = [b \in 0 .. n |-> IF b = 0 THEN 1 ELSE 2 * f[b - 1]]

\* There are such functions, one below the next.
LEMMA DoublesExist ==
  ASSUME NEW n \in Nat
  PROVE  \E f \in [0 .. n -> Nat] : Doubles(f, n)
<1> DEFINE S == {m \in Nat : ~ \E f \in [0 .. m -> Nat] : Doubles(f, m)}
<1> SUFFICES ASSUME S # {} PROVE FALSE
  OBVIOUS
<1>1. PICK m \in S : \A j \in S : m <= j
  <2>1. S \subseteq Nat
    OBVIOUS
  <2> HIDE DEF S
  <2> QED
    BY <2>1, Least
<1>2. m \in Nat
  OBVIOUS
<1>3. CASE m = 0
  <2>1. [b \in 0 .. 0 |-> 1] \in [0 .. m -> Nat] /\ Doubles([b \in 0 .. 0 |-> 1], m)
    BY <1>3 DEF Doubles
  <2> QED
    BY <2>1
<1>4. CASE m # 0
  <2>1. m - 1 \in Nat /\ ~ (m <= m - 1)
    BY <1>2, <1>4
  <2>2. PICK f \in [0 .. m - 1 -> Nat] : Doubles(f, m - 1)
    BY <1>1, <2>1
  <2> DEFINE g == [b \in 0 .. m |-> IF b = m THEN 2 * f[m - 1] ELSE f[b]]
  <2>3. \A b \in 0 .. m - 1 : f[b] = IF b = 0 THEN 1 ELSE 2 * f[b - 1]
    BY <2>2 DEF Doubles
  <2>4. g \in [0 .. m -> Nat]
    BY <1>2, <1>4, <2>1
  <2>5. ASSUME NEW b \in 0 .. m PROVE g[b] = IF b = 0 THEN 1 ELSE 2 * g[b - 1]
    <3>1. CASE b = m
      <4>1. g[b - 1] = f[m - 1]
        BY <1>2, <1>4, <3>1
      <4> QED
        BY <1>4, <3>1, <4>1
    <3>2. CASE b # m /\ b # 0
      <4>1. b \in 0 .. m - 1 /\ b - 1 \in 0 .. m /\ b - 1 # m
        BY <1>2, <3>2
      <4> QED
        BY <2>3, <3>2, <4>1
    <3>3. CASE b # m /\ b = 0
      BY <1>2, <2>1, <2>3, <3>3
    <3> QED
      BY <3>1, <3>2, <3>3
  <2>6. Doubles(g, m)
    <3>1. g = [b \in 0 .. m |-> g[b]]
      OBVIOUS
    <3> HIDE DEF g
    <3> QED
      BY <2>5, <3>1 DEF Doubles
  <2> HIDE DEF g
  <2> QED
    BY <2>4, <2>6
<1> QED
  BY <1>3, <1>4

LEMMA PowersDouble ==
  /\ PowerOfTwo[0] = 1
  /\ \A b \in 0 .. NumBuckets - 1 : PowerOfTwo[b + 1] = 2 * PowerOfTwo[b]
  /\ \A b \in 0 .. NumBuckets : PowerOfTwo[b] \in Nat
<1> DEFINE Eq(f) == f = [b \in 0 .. NumBuckets |-> IF b = 0 THEN 1 ELSE 2 * f[b - 1]]
           pow == CHOOSE f : Eq(f)
<1>1. NumBuckets \in Nat
  BY BucketAssumption
<1>2. PowerOfTwo = pow
  BY Zenon DEF PowerOfTwo
<1>3. pow = [b \in 0 .. NumBuckets |-> IF b = 0 THEN 1 ELSE 2 * pow[b - 1]]
  <2>1. PICK f \in [0 .. NumBuckets -> Nat] : Doubles(f, NumBuckets)
    BY <1>1, DoublesExist
  <2>2. Eq(f)
    BY <2>1, Zenon DEF Doubles
  <2>3. Eq(pow)
    BY <2>2, Zenon
  <2> QED
    BY <2>3
<1> HIDE DEF pow
<1>4. pow[0] = 1
  BY <1>1, <1>3
<1>5. \A b \in 0 .. NumBuckets - 1 : pow[b + 1] = 2 * pow[b]
  <2> TAKE b \in 0 .. NumBuckets - 1
  <2>1. PICK c \in 0 .. NumBuckets : c = b + 1
    BY <1>1
  <2>2. c # 0 /\ c - 1 = b
    BY <2>1
  <2>3. pow[c] = 2 * pow[c - 1]
    BY <1>3, <2>2
  <2> QED
    BY <2>1, <2>2, <2>3
<1>6. \A b \in 0 .. NumBuckets : pow[b] \in Nat
  <2> DEFINE S == {b \in 0 .. NumBuckets : pow[b] \notin Nat}
  <2> SUFFICES ASSUME S # {} PROVE FALSE
    OBVIOUS
  <2>1. S \subseteq Nat
    BY <1>1
  <2>2. PICK m \in S : \A j \in S : m <= j
    <3> HIDE DEF S
    <3> QED
      BY <2>1, Least
  <2>3. m \in 0 .. NumBuckets /\ m # 0 /\ m \in Nat
    BY <1>1, <1>4
  <2>4. m - 1 \in 0 .. NumBuckets /\ m - 1 \in 0 .. NumBuckets - 1 /\ ~ (m <= m - 1)
    BY <1>1, <2>3
  <2>5. pow[m - 1] \in Nat
    BY <2>2, <2>4
  <2>6. pow[m - 1 + 1] = 2 * pow[m - 1]
    BY <1>5, <2>4
  <2> QED
    BY <2>3, <2>5, <2>6
<1> QED
  BY <1>2, <1>4, <1>5, <1>6

LEMMA BucketInverts ==
  ASSUME NEW v \in 0 .. MaxLen, NEW b \in 0 .. NumBuckets - 1, IsBucket(b, v)
  PROVE  /\ Unbucket(Bucketed(b, v)) = v
         /\ Bucketed(b, v).extra \in 0 .. PowerOfTwo[Bucketed(b, v).bucket] - 1
<1>1. b \in 0 .. NumBuckets
  BY BucketAssumption
<1>2. PowerOfTwo[b] \in Nat /\ PowerOfTwo[b + 1] = 2 * PowerOfTwo[b]
  BY <1>1, PowersDouble
<1>3. v \in Nat /\ U32(v) = v
  BY Narrow
<1>4. Unbucket(Bucketed(b, v)) = U32(v)
  <2>1. PowerOfTwo[b] + (v + 1 - PowerOfTwo[b]) - 1 = v
    BY <1>2, <1>3
  <2> QED
    BY <2>1 DEF Bucketed, Unbucket
<1> QED
  BY <1>2, <1>3, <1>4 DEF Bucketed, IsBucket

\* The loop of bucket_encode ends in a bucket there is a model for, and in one only,
\* for every number of 32 bits (bucket_encode).
THEOREM BucketFound ==
  ASSUME NEW v \in Nat, v < WordSize
  PROVE  \E b \in 0 .. NumBuckets - 1 :
           IsBucket(b, v) /\ \A c \in 0 .. NumBuckets - 1 : IsBucket(c, v) => c = b
<1>1. NumBuckets \in Nat /\ WordSize \in Nat /\ WordSize < PowerOfTwo[NumBuckets]
  BY BucketAssumption
<1> DEFINE S == {b \in 0 .. NumBuckets : v + 1 < PowerOfTwo[b]}
<1>2. NumBuckets \in S
  BY <1>1, PowersDouble
<1>3. PICK m \in S : \A j \in S : m <= j
  <2>1. S \subseteq Nat
    BY <1>1
  <2> HIDE DEF S
  <2> QED
    BY <1>2, <2>1, Least
<1>4. m # 0 /\ m \in 1 .. NumBuckets /\ m - 1 \in 0 .. NumBuckets - 1 /\ m - 1 \in 0 .. NumBuckets
  BY <1>1, PowersDouble
<1>5. m - 1 + 1 = m /\ ~ (m <= m - 1)
  BY <1>4
<1>6. IsBucket(m - 1, v)
  <2>1. m - 1 \notin S
    BY <1>3, <1>5
  <2>2. PowerOfTwo[m - 1] \in Nat
    BY <1>4, PowersDouble
  <2>3. PowerOfTwo[m - 1] <= v + 1
    BY <1>4, <2>1, <2>2
  <2> QED
    BY <1>5, <2>3 DEF IsBucket
<1>7. ASSUME NEW c \in 0 .. NumBuckets - 1, IsBucket(c, v) PROVE c = m - 1
  <2>1. c + 1 \in S /\ c \in Int
    BY <1>1, <1>7 DEF IsBucket
  <2>2. m <= c + 1
    BY <1>3, <2>1
  <2>3. \A j \in 0 .. NumBuckets : m <= j => v + 1 < PowerOfTwo[j]
    <3> DEFINE B == {j \in 0 .. NumBuckets : m <= j /\ ~ (v + 1 < PowerOfTwo[j])}
    <3> SUFFICES ASSUME B # {} PROVE FALSE
      OBVIOUS
    <3>1. PICK j \in B : \A l \in B : j <= l
      <4>1. B \subseteq Nat
        BY <1>1
      <4> HIDE DEF B
      <4> QED
        BY <4>1, Least
    <3>2. j # m /\ j \in 0 .. NumBuckets /\ j > m
      BY <1>4
    <3>3. j - 1 \in 0 .. NumBuckets - 1 /\ j - 1 \in 0 .. NumBuckets /\ m <= j - 1
          /\ j - 1 + 1 = j /\ ~ (j <= j - 1)
      BY <1>1, <1>4, <3>2
    <3>4. v + 1 < PowerOfTwo[j - 1]
      BY <3>1, <3>3
    <3>5. PowerOfTwo[j] = 2 * PowerOfTwo[j - 1] /\ PowerOfTwo[j - 1] \in Nat
      BY <3>3, PowersDouble
    <3> QED
      BY <3>1, <3>4, <3>5
  <2>4. ~ (m <= c)
    <3>1. c \in 0 .. NumBuckets /\ PowerOfTwo[c] <= v + 1 /\ PowerOfTwo[c] \in Nat
      BY <1>1, <1>7, PowersDouble DEF IsBucket
    <3> QED
      BY <2>3, <3>1
  <2> QED
    BY <1>4, <2>1, <2>2, <2>4
<1> HIDE DEF S
<1> QED
  BY <1>4, <1>6, <1>7
-----------------------------------------------------------------------------

LEMMA EncodeLiteralOK ==
  ASSUME IInv, EncodeLiteral
  PROVE  IInv'
<1> USE DEF EncodeLiteral
<1>1. /\ UNCHANGED <<data, token, decCtx, copy, out, error, N, Start>>
      /\ token.kind = "literal" /\ coded = NoCode
      /\ encPos' = encPos + 1 /\ encCtx' = token.literal
      /\ coded'.sym = "literal" /\ coded'.ctx = encCtx /\ coded'.literal = token.literal
  BY DEF matcherVars, N, Start, NoCode
<1>2. Shape' /\ Chains' /\ Indexed' /\ Search' /\ Pending' /\ Emitted' = Emitted
  BY ParserUntouched DEF matcherVars
<1>3. Start + 1 = Emitted /\ token.literal = data[Start + 1] /\ copy = NoCopy
  BY <1>1 DEF IInv, InFlight
<1>4. InFlight'
  BY <1>1, <1>2, <1>3 DEF IInv, InFlight
<1>5. Wire'
  <2>1. encPos = Start /\ encCtx = Context(Start) /\ decCtx = Context(Start)
    BY <1>1 DEF IInv, Wire
  <2>2. Start \in Nat
    BY DEF IInv, InFlight, Start
  <2>3. coded' # NoCode
    BY <1>1 DEF NoCode
  <2>4. Context(Start)' = Context(Start) /\ Context(encPos)' = data[Start + 1]
    BY <1>1, <2>1, <2>2 DEF Context
  <2> QED
    BY <1>1, <1>2, <1>3, <2>1, <2>3, <2>4 DEF Wire
<1>6. Prefix'
  BY <1>1 DEF IInv, Prefix
<1> QED
  BY <1>2, <1>4, <1>5, <1>6 DEF IInv

\* A match in flight is short and near enough for the numbers that are coded.
LEMMA MatchShort ==
  ASSUME IInv, token.kind = "match"
  PROVE  /\ token.length \in 0 .. MaxLen /\ token.distance \in 0 .. MaxLen
         /\ token.length - MinMatch \in 0 .. MaxLen /\ token.distance - 1 \in 0 .. MaxLen
<1>1. /\ token.length \in Nat /\ token.distance \in Nat /\ token.length >= MinMatch
      /\ IsMatch(token.length, token.distance, Start) /\ N \in Nat /\ N <= MaxLen
  BY DEF IInv, InFlight, Shape, N
<1>2. Start \in Nat
  BY DEF IInv, InFlight, Start
<1> QED
  BY <1>1, <1>2 DEF IsMatch

LEMMA CodedMatch ==
  ASSUME IInv, token.kind = "match", CodeMatch
  PROVE  /\ token.length - MinMatch \in 0 .. MaxLen /\ token.distance - 1 \in 0 .. MaxLen
         /\ \E b \in 0 .. NumBuckets - 1 : /\ IsBucket(b, token.length - MinMatch)
                                           /\ coded'.length = Bucketed(b, token.length - MinMatch)
         /\ \E b \in 0 .. NumBuckets - 1 : /\ IsBucket(b, token.distance - 1)
                                           /\ coded'.distance = Bucketed(b, token.distance - 1)
<1>1. token.length - MinMatch \in 0 .. MaxLen /\ token.distance - 1 \in 0 .. MaxLen
  BY MatchShort
<1>2. U32(token.length - MinMatch) = token.length - MinMatch /\ U32(token.distance - 1) = token.distance - 1
  BY <1>1, Narrow
<1> QED
  BY <1>1, <1>2 DEF CodeMatch

LEMMA EncodeMatchOK ==
  ASSUME IInv, EncodeMatch
  PROVE  IInv'
<1> USE DEF EncodeMatch
<1>1. /\ UNCHANGED <<data, token, decCtx, copy, out, error, N, Start>>
      /\ token.kind = "match" /\ coded = NoCode
      /\ encPos' = encPos + token.length /\ encCtx' = data[encPos']
      /\ coded'.sym = "match" /\ coded'.ctx = encCtx
      /\ CodeMatch
  BY DEF CodeMatch, matcherVars, N, Start
<1>2. Shape' /\ Chains' /\ Indexed' /\ Search' /\ Pending' /\ Emitted' = Emitted
  BY ParserUntouched DEF matcherVars
<1>3. /\ Start + token.length = Emitted /\ IsMatch(token.length, token.distance, Start)
      /\ token.length \in Nat /\ token.distance \in Nat /\ token.length >= MinMatch
  BY <1>1 DEF IInv, InFlight, Shape
<1>4. copy = NoCopy
  BY <1>1 DEF IInv, InFlight
<1>8. /\ token.length - MinMatch \in 0 .. MaxLen /\ token.distance - 1 \in 0 .. MaxLen
      /\ \E b \in 0 .. NumBuckets - 1 : /\ IsBucket(b, token.length - MinMatch)
                                        /\ coded'.length = Bucketed(b, token.length - MinMatch)
      /\ \E b \in 0 .. NumBuckets - 1 : /\ IsBucket(b, token.distance - 1)
                                        /\ coded'.distance = Bucketed(b, token.distance - 1)
  BY <1>1, CodedMatch
<1>5. InFlight'
  <2>1. IsMatch(token.length, token.distance, Start)' = IsMatch(token.length, token.distance, Start)
    BY <1>1 DEF IsMatch
  <2> QED
    BY <1>1, <1>2, <1>3, <1>4, <2>1 DEF IInv, InFlight
<1>6. Wire'
  <2>1. encPos = Start /\ encCtx = Context(Start) /\ decCtx = Context(Start)
    BY <1>1 DEF IInv, Wire
  <2>2. Start \in Nat
    BY DEF IInv, InFlight, Start
  <2>3. coded' # NoCode
    BY <1>1 DEF NoCode
  <2>4. Context(Start)' = Context(Start) /\ Context(encPos)' = data[encPos']
    BY <1>1, <1>3, <2>1, <2>2 DEF Context
  <2>5. /\ Unbucket(coded'.length) = token.length - MinMatch
        /\ Unbucket(coded'.distance) = token.distance - 1
    BY <1>1, <1>8, BucketInverts
  <2>6. /\ Unbucket(coded.length)' = token.length - MinMatch
        /\ Unbucket(coded.distance)' = token.distance - 1
    BY <2>5 DEF Unbucket
  <2> QED
    BY <1>1, <1>2, <1>3, <2>1, <2>3, <2>4, <2>6 DEF Wire
<1>7. Prefix'
  BY <1>1 DEF IInv, Prefix
<1> QED
  BY <1>2, <1>5, <1>6, <1>7 DEF IInv

LEMMA DecodeLiteralOK ==
  ASSUME IInv, DecodeLiteral
  PROVE  IInv'
<1> USE DEF DecodeLiteral, Accept
<1>1. /\ UNCHANGED <<data, encPos, encCtx, copy, error, N>>
      /\ token' = NoToken /\ coded' = NoCode
      /\ out' = Append(out, coded.literal) /\ decCtx' = coded.literal
  BY DEF N
<1>2. Shape' /\ Chains' /\ Indexed' /\ Search' /\ Pending' /\ Emitted' = Emitted
  BY ParserUntouched
<1>3. coded # NoCode
  BY DEF NoCode
<1>4. /\ token.kind = "literal" /\ coded.literal = data[Start + 1]
      /\ Start + 1 = Emitted /\ copy = NoCopy
      /\ encPos = Emitted /\ encCtx = Context(encPos)
  BY <1>3 DEF IInv, Wire, InFlight
<1>5. Start = Len(out) /\ out \in Seq(Bytes) /\ Len(out) \in Nat
  BY <1>4 DEF IInv, InFlight, Start, NoCopy
<1>6. coded.literal \in Bytes
  BY <1>4, <1>5, EmittedInRange DEF IInv, Shape, N
<1>7. /\ out' \in Seq(Bytes) /\ Len(out') = Len(out) + 1
      /\ \A p \in 1 .. Len(out) : out'[p] = out[p]
      /\ out'[Len(out) + 1] = coded.literal
  BY <1>1, <1>5, <1>6
<1>8. Start' = Start + 1 /\ copy' = NoCopy
  BY <1>1, <1>4, <1>5, <1>7 DEF Start, NoCopy
<1>9. InFlight'
  <2>1. token'.kind = "none"
    BY <1>1 DEF NoToken
  <2>2. copy'.done = 0 /\ copy' \in [start : Nat, done : Nat, length : Nat]
    BY <1>8 DEF NoCopy
  <2> QED
    BY <1>1, <1>2, <1>4, <1>5, <1>7, <1>8, <2>1, <2>2 DEF InFlight
<1>10. Wire'
  <2>1. Context(encPos)' = Context(encPos) /\ Context(Start)' = data[Start + 1]
    BY <1>1, <1>5, <1>8 DEF Context
  <2> QED
    BY <1>1, <1>2, <1>4, <1>8, <2>1 DEF Wire
<1>11. Prefix'
  BY <1>1, <1>4, <1>5, <1>7 DEF IInv, Prefix
<1> QED
  BY <1>2, <1>9, <1>10, <1>11 DEF IInv

LEMMA DecodeMatchOK ==
  ASSUME IInv, DecodeMatch
  PROVE  IInv'
<1> USE DEF DecodeMatch
<1>1. /\ UNCHANGED <<data, token, encPos, encCtx, coded, decCtx, out, N>>
      /\ copy = NoCopy
  BY DEF matcherVars, N
<1>2. Shape' /\ Chains' /\ Indexed' /\ Search' /\ Pending' /\ Emitted' = Emitted
  BY ParserUntouched DEF matcherVars
<1>3. coded # NoCode
  BY DEF NoCode
<1>4. /\ token.kind = "match" /\ token.length \in Nat /\ token.distance \in Nat
      /\ token.length >= MinMatch
      /\ Start + token.length = Emitted /\ IsMatch(token.length, token.distance, Start)
      /\ Unbucket(coded.length) + MinMatch = token.length
      /\ Unbucket(coded.distance) + 1 = token.distance
  BY <1>3 DEF IInv, Wire, InFlight, Shape
<1>5. Start = Len(out) /\ Start \in Nat /\ token.distance \in 1 .. Start
  BY <1>1, <1>4 DEF IInv, InFlight, Start, NoCopy, IsMatch
<1>6. /\ copy' = [start |-> Start - token.distance, done |-> 0, length |-> token.length]
      /\ error' = error
  <2>1. U32(token.length) = token.length /\ U32(token.distance) = token.distance
    BY <1>4, MatchShort, Narrow
  <2> QED
    BY <1>4, <1>5, <2>1
<1>7. Start' = Start
  BY <1>1, <1>5, <1>6 DEF Start
<1>8. InFlight'
  <2>1. IsMatch(token.length, token.distance, Start)' = IsMatch(token.length, token.distance, Start)
    BY <1>1, <1>7 DEF IsMatch
  <2>2. /\ copy' \in [start : Nat, done : Nat, length : Nat]
        /\ copy'.done = 0 /\ copy'.length = token.length
        /\ copy'.start = Start - token.distance
    BY <1>4, <1>5, <1>6
  <2>3. token # NoToken /\ out \in Seq(Bytes)
    BY <1>4 DEF NoToken, IInv, InFlight
  <2> QED
    BY <1>1, <1>2, <1>3, <1>4, <1>5, <1>7, <2>1, <2>2, <2>3 DEF InFlight
<1>9. Wire'
  <2>1. Context(encPos)' = Context(encPos) /\ Context(Start)' = Context(Start)
    BY <1>1, <1>7 DEF Context
  <2>2. /\ Unbucket(coded.length)' = Unbucket(coded.length)
        /\ Unbucket(coded.distance)' = Unbucket(coded.distance)
    BY <1>1 DEF Unbucket
  <2> QED
    BY <1>1, <1>2, <1>7, <2>1, <2>2 DEF IInv, Wire
<1>10. Prefix'
  BY <1>1, <1>6 DEF IInv, Prefix
<1> QED
  BY <1>2, <1>8, <1>9, <1>10 DEF IInv

(* A copy that has moved one byte on is a copy of the same string, with one  *)
(* byte more of it done.                                                     *)
LEMMA OneMoreDone ==
  ASSUME NEW c \in [start : Nat, done : Nat, length : Nat], NEW d,
         d = [c EXCEPT !.done = @ + 1]
  PROVE  /\ d \in [start : Nat, done : Nat, length : Nat]
         /\ d.done = c.done + 1 /\ d.start = c.start /\ d.length = c.length
  OBVIOUS

LEMMA CopyByteOK ==
  ASSUME IInv, CopyByte
  PROVE  IInv'
<1> USE DEF CopyByte, Accept
<1>1. UNCHANGED <<data, encPos, encCtx, error, N>>
  BY DEF N
<1>2. Shape' /\ Chains' /\ Indexed' /\ Search' /\ Pending' /\ Emitted' = Emitted
  BY ParserUntouched
<1>3. copy # NoCopy
  BY DEF NoCopy
<1>4. /\ token.kind = "match" /\ token.length \in Nat /\ token.distance \in Nat
      /\ token.length >= MinMatch /\ Start + token.length = Emitted
      /\ IsMatch(token.length, token.distance, Start)
      /\ coded # NoCode /\ copy.length = token.length
      /\ copy.start = Start - token.distance /\ copy.done <= copy.length
      /\ encPos = Emitted /\ encCtx = Context(encPos)
  BY <1>3 DEF IInv, InFlight, Wire, Shape
<1>5. /\ copy \in [start : Nat, done : Nat, length : Nat]
      /\ out \in Seq(Bytes) /\ Len(out) \in Nat
      /\ Start \in Nat /\ Len(out) = Start + copy.done
  BY DEF IInv, InFlight, Start
<1>6. /\ token.distance \in 1 .. Start
      /\ \A j \in 1 .. token.length : data[Start - token.distance + j] = data[Start + j]
  BY <1>4 DEF IsMatch
<1>7. Emitted \in 0 .. N /\ N = Len(data) /\ N \in Nat /\ data \in Seq(Bytes)
  BY EmittedInRange DEF IInv, Shape, N
<1>8. CASE copy.done < copy.length
  <2> DEFINE from == copy.start + copy.done + 1
             at == Len(out) + 1
  <2>1. /\ out' = Append(out, out[from]) /\ copy' = [copy EXCEPT !.done = @ + 1]
        /\ UNCHANGED <<decCtx, token, coded>>
    BY <1>8
  <2>2. /\ from \in 1 .. Len(out) /\ from = Start - token.distance + (copy.done + 1)
        /\ at = Start + (copy.done + 1) /\ copy.done + 1 \in 1 .. token.length
        /\ at \in 1 .. N
    <3> HIDE DEF CopyByte
    <3> DEFINE d == copy.done
               x == copy.start
               t == token.distance
               n == token.length
    <3>0. d \in Nat /\ x \in Nat /\ t \in Nat /\ n \in Nat /\ x = Start - t
      BY <1>4, <1>5
    <3>1. d + 1 <= n
      BY <1>4, <1>5, <1>8
    <3>2. Len(out) = Start + d /\ Start \in Nat /\ t \in 1 .. Start
      BY <1>5, <1>6
    <3>3. Start + n = Emitted /\ Emitted \in 0 .. N /\ N \in Nat
      BY <1>4, <1>7
    <3>4. from = x + d + 1 /\ at = Len(out) + 1
      OBVIOUS
    <3> HIDE DEF d, x, t, n, from, at
    <3>5. from = Start - t + (d + 1) /\ at = Start + (d + 1)
      BY <3>0, <3>2, <3>4
    <3>6. from \in 1 .. Len(out) /\ d + 1 \in 1 .. n /\ at \in 1 .. N
      BY <3>0, <3>1, <3>2, <3>3, <3>5
    <3> QED
      BY <3>5, <3>6 DEF d, x, t, n
  <2>3. out[from] = data[at]
    <3>1. out[from] = data[from]
      BY <2>2 DEF IInv, Prefix
    <3>2. data[from] = data[at]
      BY <1>6, <2>2
    <3> QED
      BY <3>1, <3>2
  <2>4. out[from] \in Bytes
    BY <1>7, <2>2, <2>3
  <2>5. /\ out' \in Seq(Bytes) /\ Len(out') = at
        /\ \A p \in 1 .. Len(out) : out'[p] = out[p]
        /\ out'[at] = data[at]
    <3> HIDE DEF from
    <3> QED
      BY <1>5, <2>1, <2>3, <2>4
  <2>6. /\ copy' \in [start : Nat, done : Nat, length : Nat]
        /\ copy'.done = copy.done + 1 /\ copy'.start = copy.start
        /\ copy'.length = copy.length
    <3>1. copy \in [start : Nat, done : Nat, length : Nat]
      BY <1>5
    <3>2. copy' = [copy EXCEPT !.done = @ + 1]
      BY <2>1
    <3> QED
      BY <3>1, <3>2, OneMoreDone
  <2>7. Start' = Start
    BY <1>5, <2>5, <2>6 DEF Start
  <2>8. InFlight'
    <3>1. IsMatch(token.length, token.distance, Start)'
            = IsMatch(token.length, token.distance, Start)
      BY <1>1, <2>1, <2>7 DEF IsMatch
    <3>2. token # NoToken
      BY <1>4 DEF NoToken
    <3>3. copy'.done <= Len(out') /\ copy'.done <= copy'.length
      <4>1. copy.done \in Nat /\ copy.done <= Len(out) /\ copy.done + 1 <= copy.length
        BY <1>4, <1>5, <1>8
      <4> QED
        BY <1>5, <2>5, <2>6, <4>1
    <3> QED
      BY <1>1, <1>2, <1>4, <2>1, <2>5, <2>6, <2>7, <3>1, <3>2, <3>3 DEF InFlight
  <2>9. Wire'
    <3>1. Context(encPos)' = Context(encPos) /\ Context(Start)' = Context(Start)
      BY <1>1, <2>7 DEF Context
    <3>2. /\ Unbucket(coded.length)' = Unbucket(coded.length)
          /\ Unbucket(coded.distance)' = Unbucket(coded.distance)
      BY <2>1 DEF Unbucket
    <3> QED
      BY <1>1, <1>2, <2>1, <2>7, <3>1, <3>2 DEF IInv, Wire
  <2>10. Prefix'
    <3>1. \A p \in 1 .. at : out'[p] = data[p]
      <4> TAKE p \in 1 .. at
      <4>1. CASE p = at
        BY <2>5, <4>1
      <4>2. CASE p # at
        <5>1. p \in 1 .. Len(out)
          BY <1>5, <4>2
        <5> QED
          BY <2>5, <5>1 DEF IInv, Prefix
      <4> QED
        BY <4>1, <4>2
    <3> QED
      BY <1>1, <2>5, <3>1 DEF IInv, Prefix
  <2> QED
    BY <1>2, <2>8, <2>9, <2>10 DEF IInv
<1>9. CASE ~(copy.done < copy.length)
  <2>1. /\ decCtx' = out[Len(out)] /\ copy' = NoCopy /\ out' = out
        /\ token' = NoToken /\ coded' = NoCode
    BY <1>9
  <2>2. Len(out) = Emitted /\ Len(out) > 0
    BY <1>4, <1>5, <1>6, <1>9
  <2>3. Start' = Emitted /\ Emitted \in Nat
    BY <1>5, <2>1, <2>2 DEF Start, NoCopy
  <2>4. decCtx' = data[Emitted]
    BY <1>5, <2>1, <2>2 DEF IInv, Prefix
  <2>5. InFlight'
    <3>1. token'.kind = "none"
      BY <2>1 DEF NoToken
    <3>2. copy'.done = 0 /\ copy' \in [start : Nat, done : Nat, length : Nat]
      BY <2>1 DEF NoCopy
    <3> QED
      BY <1>2, <1>5, <2>1, <2>3, <3>1, <3>2 DEF InFlight
  <2>6. Wire'
    <3>1. Context(encPos)' = Context(encPos) /\ Context(Start)' = data[Emitted]
      BY <1>1, <2>2, <2>3 DEF Context
    <3> QED
      BY <1>1, <1>2, <1>4, <2>1, <2>3, <2>4, <3>1 DEF Wire
  <2>7. Prefix'
    BY <1>1, <2>1 DEF IInv, Prefix
  <2> QED
    BY <1>2, <2>5, <2>6, <2>7 DEF IInv
<1> QED
  BY <1>8, <1>9
-----------------------------------------------------------------------------
LEMMA StepOK == IInv /\ [Next]_vars => IInv'
<1> SUFFICES ASSUME IInv, [Next]_vars PROVE IInv'
  OBVIOUS
<1>1. CASE Parse /\ UNCHANGED codecVars
  BY <1>1, LookOK, VisitOK, ImproveOK, CommitOK, EnterSpanOK, DeferOK, LiteralOK,
     EndOfInputOK DEF Parse
<1>2. CASE EncodeLiteral \/ EncodeMatch \/ DecodeLiteral \/ DecodeMatch \/ CopyByte
  BY <1>2, EncodeLiteralOK, EncodeMatchOK, DecodeLiteralOK, DecodeMatchOK, CopyByteOK
<1>3. CASE UNCHANGED vars
  <2>1. Shape' /\ Chains' /\ Indexed' /\ Search' /\ Pending' /\ Emitted' = Emitted
    BY <1>3, ParserUntouched DEF vars, matcherVars
  <2>2. UNCHANGED <<data, token, encPos, encCtx, coded, decCtx, copy, out, error, N, Start>>
    BY <1>3 DEF vars, matcherVars, codecVars, N, Start
  <2>3. IsMatch(token.length, token.distance, Start)' = IsMatch(token.length, token.distance, Start)
    BY <2>2 DEF IsMatch
  <2>4. /\ Context(encPos)' = Context(encPos) /\ Context(Start)' = Context(Start)
        /\ Unbucket(coded.length)' = Unbucket(coded.length)
        /\ Unbucket(coded.distance)' = Unbucket(coded.distance)
    BY <2>2 DEF Context, Unbucket
  <2>5. InFlight'
    BY <2>1, <2>2, <2>3 DEF IInv, InFlight
  <2>6. Wire'
    BY <2>1, <2>2, <2>4 DEF IInv, Wire
  <2>7. Prefix'
    BY <2>2 DEF IInv, Prefix
  <2> QED
    BY <2>1, <2>5, <2>6, <2>7 DEF IInv
<1> QED
  BY <1>1, <1>2, <1>3 DEF Next, Finished

\* The parser's and the codec's state keep the shape they start with and
\* everything below, whatever the input.
THEOREM Invariance == Spec => []IInv
  BY InitOK, StepOK, PTL DEF Spec

\* What lz_decode has put out is always a prefix of what lz_encode was given, in
\* the end all of it, and the decoder never throws (lz_matcher.cpp, lz_codec.cpp).
THEOREM Lossless == Spec => []RoundTrip
<1>1. IInv => RoundTrip
  <2> SUFFICES ASSUME IInv PROVE RoundTrip
    OBVIOUS
  <2>1. ~error /\ \A p \in 1 .. Len(out) : out[p] = data[p]
    BY DEF IInv, Prefix
  <2>2. /\ copy \in [start : Nat, done : Nat, length : Nat]
        /\ out \in Seq(Bytes) /\ data \in Seq(Bytes)
        /\ Len(out) \in Nat /\ Len(data) \in Nat
    BY DEF IInv, InFlight, Shape
  <2>3. Emitted \in 0 .. N
    BY EmittedInRange
  <2>4. Len(out) <= N
    <3>1. CASE token = NoToken
      BY <2>2, <2>3, <3>1 DEF IInv, InFlight, Start, NoCopy, N
    <3>2. CASE token.kind = "literal"
      BY <2>2, <2>3, <3>2 DEF IInv, InFlight, Start, NoCopy, N
    <3>3. CASE token.kind = "match"
      <4>1. Start + token.length = Emitted /\ token.length \in Nat
        BY <3>3 DEF IInv, InFlight, Shape
      <4>2. copy.done <= token.length
        BY <4>1 DEF IInv, InFlight, NoCopy
      <4> QED
        BY <2>2, <2>3, <4>1, <4>2 DEF Start, N
    <3> QED
      BY <3>1, <3>2, <3>3 DEF IInv, InFlight
  <2>5. ASSUME pc = "done", token = NoToken
        PROVE  out = data
    <3>1. Len(out) = N
      BY <2>2, <2>5 DEF IInv, InFlight, Start, Emitted, NoCopy
    <3> QED
      BY <2>1, <2>2, <3>1 DEF N
  <2> QED
    BY <2>1, <2>4, <2>5 DEF RoundTrip
<1> QED
  BY <1>1, Invariance, PTL

\* No candidate that is shorter than kLzMinMatch or lies ahead becomes a match, whatever
\* collides in the hash table, and the buckets of its length and distance carry them
\* (insert_hash, find_match, bucket_encode).
THEOREM MatchesLegal == Spec => []MatchLegal
<1>1. Init => Extras
  <2>1. NumBuckets \in Nat /\ PowerOfTwo[0] = 1
    BY BucketAssumption, PowersDouble
  <2> QED
    BY <2>1 DEF Init, NoCode, Extras
<1>2. IInv /\ Extras /\ [Next]_vars => Extras'
  <2> SUFFICES ASSUME IInv, Extras, [Next]_vars PROVE Extras'
    OBVIOUS
  <2>1. CASE coded' = coded
    BY <2>1 DEF Extras
  <2>2. CASE coded' = NoCode
    <3>1. NumBuckets \in Nat /\ PowerOfTwo[0] = 1
      BY BucketAssumption, PowersDouble
    <3> QED
      BY <2>2, <3>1 DEF NoCode, Extras
  <2>3. CASE EncodeLiteral
    <3>1. NumBuckets \in Nat /\ PowerOfTwo[0] = 1
      BY BucketAssumption, PowersDouble
    <3> QED
      BY <2>3, <3>1 DEF EncodeLiteral, NoCode, Extras
  <2>4. CASE EncodeMatch
    <3>1. token.kind = "match" /\ CodeMatch
      BY <2>4 DEF EncodeMatch
    <3>2. /\ token.length - MinMatch \in 0 .. MaxLen /\ token.distance - 1 \in 0 .. MaxLen
          /\ \E b \in 0 .. NumBuckets - 1 : /\ IsBucket(b, token.length - MinMatch)
                                            /\ coded'.length = Bucketed(b, token.length - MinMatch)
          /\ \E b \in 0 .. NumBuckets - 1 : /\ IsBucket(b, token.distance - 1)
                                            /\ coded'.distance = Bucketed(b, token.distance - 1)
      BY <3>1, CodedMatch
    <3>3. \A c \in {coded'.length, coded'.distance} : c.extra \in 0 .. PowerOfTwo[c.bucket] - 1
      BY <3>2, BucketInverts
    <3> QED
      BY <3>3 DEF Extras
  <2> QED
    <3>1. coded' = coded \/ coded' = NoCode \/ EncodeLiteral \/ EncodeMatch
      BY DEF Next, vars, codecVars, DecodeLiteral, DecodeMatch, CopyByte, Accept, Finished
    <3> QED
      BY <2>1, <2>2, <2>3, <2>4, <3>1
<1>3. IInv /\ Extras => MatchLegal
  BY DEF IInv, InFlight, Shape, IsMatch, Start, Extras, MatchLegal
<1> QED
  BY <1>1, <1>2, <1>3, Invariance, PTL DEF Spec

\* Encoder and decoder code every symbol under the same adaptive model, though
\* one reads its context off the input and the other off the output.
THEOREM SameContexts == Spec => []SameModel
<1>1. IInv => SameModel
  BY DEF IInv, Wire, SameModel
<1> QED
  BY <1>1, Invariance, PTL

\* The hash chains list every position behind the parser once, the newest first
\* (insert_hash and its guard against inserting a position twice).
THEOREM ChainsAreExact == Spec => []ChainsExact
<1>1. IInv => ChainsExact
  <2> SUFFICES ASSUME IInv PROVE ChainsExact
    OBVIOUS
  <2>1. ASSUME pc = "look"
        PROVE  LET behind == {p \in 0 .. i - 1 : p + MinMatch <= N}
               IN  /\ hashed \subseteq behind
                   /\ behind \subseteq IF HavePending THEN hashed \union {pend.pos} ELSE hashed
    <3>1. \A p \in hashed : p \in 0 .. i - 1 /\ p + MinMatch <= N
      <4>1. N \in Nat
        BY DEF IInv, Shape, N
      <4> QED
        BY <2>1, <4>1 DEF IInv, Shape, Chains, Indexed
    <3> QED
      BY <2>1, <3>1 DEF IInv, Indexed
  <2> QED
    BY <2>1 DEF IInv, Chains, ChainsExact
<1> QED
  BY <1>1, Invariance, PTL
=============================================================================
