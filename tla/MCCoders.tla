------------------------------ MODULE MCCoders ------------------------------
(***************************************************************************)
(* The entropy coders and the block-sorting codec on small instances. They *)
(* share no state: a behaviour is one of a single part, and the others     *)
(* stay where they start.                                                  *)
(***************************************************************************)
EXTENDS RangeCoder, FenwickTable, RansCoder, BwtCodec

VARIABLE part

allVars == <<part, vars, table, ransVars, bwtVars>>

\* Short inputs, which leave lanes empty or unequal, and longer ones in which one
\* symbol of four is so frequent that the others are rounded up at its expense.
MCRansInputs ==
  UNION {[1 .. n -> 0 .. 2] : n \in 0 .. 3}
    \union [1 .. 4 -> 0 .. 1]
    \union {long \in [1 .. 6 -> 0 .. 3] :
             SelectSeq(long, LAMBDA s : s # 0) = <<1, 2, 3>>}

\* Two symbols make the repeated substrings that the sort has to recurse on.
MCBwtInputs ==
  UNION {[1 .. n -> 0 .. 1] : n \in 0 .. 11} \union UNION {[1 .. n -> 0 .. 2] : n \in 1 .. 6}

AnyInit ==
  /\ part \in {"range", "fenwick", "rans", "bwt"}
  /\ Init /\ TableInit
  /\ RansInit /\ (part # "rans" => ransData = <<>> /\ numLanes = 1 /\ M = 2)
  /\ BwtInit /\ (part # "bwt" => input = <<>>)

RangeNext ==
  part = "range" /\ Next /\ UNCHANGED <<table, ransVars, bwtVars>>
FenwickNext ==
  part = "fenwick" /\ TableNext /\ UNCHANGED <<vars, ransVars, bwtVars>>
RansSteps ==
  part = "rans" /\ RansNext /\ UNCHANGED <<vars, table, bwtVars>>
BwtSteps ==
  part = "bwt" /\ BwtNext /\ UNCHANGED <<vars, table, ransVars>>

AnyNext ==
  /\ RangeNext \/ FenwickNext \/ RansSteps \/ BwtSteps
  /\ UNCHANGED part

AnySpec == AnyInit /\ [][AnyNext]_allVars
=============================================================================
