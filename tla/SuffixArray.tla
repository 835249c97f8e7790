---------------------------- MODULE SuffixArray ----------------------------
(***************************************************************************)
(* Two constructions of the suffix array of a text that ends in a unique   *)
(* smallest symbol (bwt_transform.cpp): prefix doubling, and the induced   *)
(* sorting of SA-IS that the codec uses. Positions start at 1, an empty    *)
(* slot of an array holds 0. A loop of the code is a function of how often *)
(* its body has run.                                                       *)
(***************************************************************************)
EXTENDS Integers, FiniteSets, Sequences, Functions

\* The suffix at p is smaller than the one at q: they differ first d symbols on.
Before(t, p, q) ==
  \E d \in 0 .. Len(t) - 1 :
    /\ p + d <= Len(t) /\ q + d <= Len(t) /\ t[p + d] < t[q + d]
    /\ \A j \in 0 .. d - 1 : t[p + j] = t[q + j]

\* Ranks of the suffixes by their first k symbols, twice as many every round, until
\* all differ; std::sort of pairs of ranks is counting the smaller pairs.
KeyOf(rank, k, p) == <<rank[p], IF p + k <= Len(rank) THEN rank[p + k] ELSE -1>>
KeyLess(a, b) == a[1] < b[1] \/ (a[1] = b[1] /\ a[2] < b[2])
Doubled(rank, k) ==
  LET Keys == {KeyOf(rank, k, p) : p \in 1 .. Len(rank)}
  IN  <<>> \o [p \in 1 .. Len(rank) |-> Cardinality({key \in Keys : KeyLess(key, KeyOf(rank, k, p))})]

BuildSuffixArray(t) ==
  LET n == Len(t)
      Sorted(r) == r.k >= n \/ (r.k > 1 /\ IsInjective(r.rank))
      Double(r) == IF Sorted(r) THEN r ELSE [k |-> 2 * r.k, rank |-> Doubled(r.rank, r.k)]
      round[c \in 0 .. n] == IF c = 0 THEN [k |-> 1, rank |-> t] ELSE Double(round[c - 1])
      rank == round[n].rank
  IN  [s \in 1 .. n |-> CHOOSE p \in 1 .. n : Cardinality({q \in 1 .. n : rank[q] < rank[p]}) = s - 1]

\* S-type: smaller than the suffix behind it; the last one is.
SType(t, p) ==
  \E q \in p .. Len(t) : /\ \A r \in p .. q - 1 : t[r] = t[r + 1]
                         /\ q = Len(t) \/ t[q] < t[q + 1]

IsLMS(t, p) == p > 1 /\ SType(t, p) /\ ~SType(t, p - 1)

\* Slots of the bucket of symbol c.
BucketStart(t, c) == Cardinality({p \in DOMAIN t : t[p] < c}) + 1
BucketEnd(t, c) == Cardinality({p \in DOMAIN t : t[p] <= c})

\* Position p goes to the next slot of its bucket.
Put(t, acc, p, step) == [sa |-> [acc.sa EXCEPT ![acc.at[t[p]]] = p],
                         at |-> [acc.at EXCEPT ![t[p]] = @ + step]]

\* The suffix before the one in this slot, if there is one and it is of the type.
InduceL(t, acc, slot) ==
  LET p == acc.sa[slot] - 1
  IN  IF p >= 1 /\ ~SType(t, p) THEN Put(t, acc, p, 1) ELSE acc
InduceS(t, acc, slot) ==
  LET p == acc.sa[slot] - 1
  IN  IF p >= 1 /\ SType(t, p) THEN Put(t, acc, p, -1) ELSE acc

\* LMS positions at the tails of their buckets, last one first; then every L-type
\* suffix from the left and every S-type suffix from the right, each by the one behind it.
InducedSort(t, order) ==
  LET n == Len(t)
      Tails(sa) == [sa |-> sa, at |-> [c \in Range(t) |-> BucketEnd(t, c)]]
      Heads(sa) == [sa |-> sa, at |-> [c \in Range(t) |-> BucketStart(t, c)]]
      placed[c \in 0 .. Len(order)] ==
        IF c = 0 THEN Tails([s \in 1 .. n |-> 0])
        ELSE Put(t, placed[c - 1], order[Len(order) + 1 - c], -1)
      fromLeft[c \in 0 .. n] ==
        IF c = 0 THEN Heads(placed[Len(order)].sa) ELSE InduceL(t, fromLeft[c - 1], c)
      fromRight[c \in 0 .. n] ==
        IF c = 0 THEN Tails(fromLeft[n].sa) ELSE InduceS(t, fromRight[c - 1], n + 1 - c)
  IN  fromRight[n].sa

\* The LMS positions among the positions listed, in the order of the list.
LMSAmong(t, list) ==
  LET found[c \in 0 .. Len(list)] ==
        IF c = 0 THEN <<>>
        ELSE IF IsLMS(t, list[c]) THEN Append(found[c - 1], list[c]) ELSE found[c - 1]
  IN  found[Len(list)]

\* From one LMS position to the next: the same symbols, and ends at the same length.
SameLMSSubstring(t, p, q) ==
  \E len \in 1 .. Len(t) - p :
    /\ q + len <= Len(t)
    /\ IsLMS(t, p + len) /\ IsLMS(t, q + len)
    /\ \A d \in 0 .. len - 1 : t[p + d] = t[q + d]
    /\ \A d \in 1 .. len - 1 : ~IsLMS(t, p + d) /\ ~IsLMS(t, q + d)

\* The LMS positions by appearance, and by the order of the LMS substrings.
Appearance(t) == LMSAmong(t, [p \in DOMAIN t |-> p])
BySubstring(t) == LMSAmong(t, InducedSort(t, Appearance(t)))

\* The name of the e-th of the sorted substrings: how many differ up to there.
NameAt(t, sorted, e) == Cardinality({f \in 2 .. e : ~SameLMSSubstring(t, sorted[f - 1], sorted[f])})

\* The names in the order of appearance, a smaller text with the same last symbol.
Reduced(t, sorted) ==
  [a \in DOMAIN Appearance(t) |->
     NameAt(t, sorted, CHOOSE e \in DOMAIN sorted : sorted[e] = Appearance(t)[a])]

\* Where names repeat, the suffix array of the string of names orders the LMS positions.
\* That string is shorter every time, so the depth does not reach 0 before it is sorted.
SAIS(text) ==
  LET sais[depth \in 0 .. Len(text)] ==
        [t \in Seq(Nat) |->
           IF depth = 0 \/ Len(t) <= 1 THEN [p \in DOMAIN t |-> p]
           ELSE LET sorted == BySubstring(t)
                    reduced == sais[depth - 1][Reduced(t, sorted)]
                IN  InducedSort(t, IF NameAt(t, sorted, Len(sorted)) + 1 = Len(Appearance(t))
                                   THEN sorted
                                   ELSE [a \in DOMAIN Appearance(t) |-> Appearance(t)[reduced[a]]])]
  IN  sais[Len(text)][text]
=============================================================================
