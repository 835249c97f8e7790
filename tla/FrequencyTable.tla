--------------------------- MODULE FrequencyTable ---------------------------
(***************************************************************************)
(* What an adaptive frequency table promises its coder: a count per        *)
(* symbol, never 0, that goes up with every occurrence, and all of them    *)
(* halved when their sum would pass the limit.                             *)
(***************************************************************************)
EXTENDS Integers

CONSTANTS NumSymbols, Increment, MaxTotal

VARIABLE freq

Symbols == 0 .. NumSymbols - 1

\* The sum of all counts.
Total(f) ==
  LET upTo[s \in 0 .. NumSymbols] == IF s = 0 THEN 0 ELSE upTo[s - 1] + f[s - 1]
  IN  upTo[NumSymbols]

Half(f) == IF f > 1 THEN f \div 2 ELSE 1

Init == freq = [s \in Symbols |-> 1]

Count(sym) ==
  LET more == [freq EXCEPT ![sym] = @ + Increment]
  IN  freq' = IF Total(more) > MaxTotal
              THEN [s \in Symbols |-> Half(more[s])]
              ELSE more

Next == \E sym \in Symbols : Count(sym)

Spec == Init /\ [][Next]_freq
=============================================================================
