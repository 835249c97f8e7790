---------------------------- MODULE FenwickFreqN ----------------------------
(***************************************************************************)
(* csa::FenwickFreqN (range_coder.hpp): an adaptive frequency table kept   *)
(* as a binary indexed tree; FenwickFreq is the same for 256 symbols. A    *)
(* table is a record, and its tree[i] is tree_[i - 1].                     *)
(***************************************************************************)
EXTENDS Integers

CONSTANTS
  NumSymbols,  \* n_
  Increment,   \* increment_
  MaxTotal     \* max_total_

\* The limit leaves room for a count per symbol and an increment, without which halving
\* all counts would not bring the sum below it again.
ASSUME FenwickAssumption ==
  /\ NumSymbols \in Nat \ {0}
  /\ Increment \in Nat
  /\ MaxTotal \in Nat /\ NumSymbols + Increment <= MaxTotal

Symbols == 0 .. NumSymbols - 1
Nodes == 1 .. NumSymbols

\* The powers of two among the nodes: all divisors but 1 are even.
Powers == {p \in Nodes : \A d \in 2 .. p : p % d = 0 => d % 2 = 0}

\* i & -i
LowBit(i) == CHOOSE p \in Powers : i % p = 0 /\ i % (2 * p) # 0

\* cumfreq(sym): the nodes on the way down from sym.
CumFreq(t, sym) ==
  LET sum[i \in 0 .. NumSymbols] ==
        IF i = 0 THEN 0 ELSE t.tree[i] + sum[i - LowBit(i)]
  IN  sum[sym]

FreqOf(t, sym) == CumFreq(t, sym + 1) - CumFreq(t, sym)

\* add(sym, delta): the nodes on the way up from sym + 1.
Add(tree, sym, delta) ==
  LET above[i \in 1 .. 2 * NumSymbols] ==
        IF i > NumSymbols THEN {} ELSE {i} \union above[i + LowBit(i)]
  IN  [i \in Nodes |-> IF i \in above[sym + 1] THEN tree[i] + delta ELSE tree[i]]

\* One add() per symbol on an empty tree.
Build(freqs) ==
  LET built[s \in 0 .. NumSymbols] ==
        IF s = 0 THEN [tree |-> [i \in Nodes |-> 0], total |-> 0]
        ELSE LET t == built[s - 1]
             IN  [tree |-> Add(t.tree, s - 1, freqs[s - 1]), total |-> t.total + freqs[s - 1]]
  IN  built[NumSymbols]

Reset == Build([s \in Symbols |-> 1])

\* find(target, lo, f): from the largest power of two down, a node is passed
\* over if everything below it fits in what is left of target.
Find(t, target) ==
  LET search[p \in Powers] ==
        LET s == IF 2 * p <= NumSymbols THEN search[2 * p] ELSE [idx |-> 0, rem |-> target]
            node == s.idx + p
        IN  IF node <= NumSymbols /\ t.tree[node] <= s.rem
            THEN [idx |-> node, rem |-> s.rem - t.tree[node]]
            ELSE s
  IN  [sym |-> search[1].idx, lo |-> target - search[1].rem]

\* Faulty variant: halving may drop a symbol.
RescaledToZero(t) == Build([s \in Symbols |-> FreqOf(t, s) \div 2])

Rescaled(t) ==
  Build([s \in Symbols |-> IF FreqOf(t, s) > 1 THEN FreqOf(t, s) \div 2 ELSE 1])

\* Faulty variant: total_ is not told of the increment.
UpdatedTreeOnly(t, sym) ==
  LET more == [t EXCEPT !.tree = Add(t.tree, sym, Increment)]
  IN  IF more.total > MaxTotal THEN Rescaled(more) ELSE more

Updated(t, sym) ==
  LET more == [tree |-> Add(t.tree, sym, Increment), total |-> t.total + Increment]
  IN  IF more.total > MaxTotal THEN Rescaled(more) ELSE more
=============================================================================
