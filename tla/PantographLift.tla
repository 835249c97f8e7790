--------------------------- MODULE PantographLift ---------------------------
(***************************************************************************)
(* One level of the Pantograph Lift (pantograph_lift.cpp): pairs (a, b)    *)
(* become a half as long array of updated a's, and one residual of b       *)
(* against a prediction from a with what calibration found for the pair's  *)
(* block. Calibration may find any ratio and offset.                       *)
(***************************************************************************)
EXTENDS FixedPoint, Sequences

CONSTANTS
  Ratios,              \* calibrated ratios, in units of 1/FixedOne
  MaxRatio,            \* what they are clamped to, in the same units
  Offsets,             \* calibrated offsets
  PantographBlockSize  \* kPantographBlockSize, in pairs

ASSUME LiftAssumption ==
  /\ FixedOne \in Nat \ {0}
  /\ MaxRatio \in Nat /\ Ratios \subseteq -MaxRatio .. MaxRatio
  /\ Offsets \subseteq Int
  /\ PantographBlockSize \in Nat \ {0}

\* n rounds of the loop are more than it takes.
NextPow2(n) ==
  LET p[k \in 0 .. n] == IF k = 0 THEN 1 ELSE IF p[k - 1] < n THEN 2 * p[k - 1] ELSE p[k - 1]
  IN  p[n]

\* The last value is repeated.
Padded(input) ==
  [i \in 1 .. NextPow2(Len(input)) |-> input[IF i <= Len(input) THEN i ELSE Len(input)]]

NumBlocksFor(half) == (half + PantographBlockSize - 1) \div PantographBlockSize

BlockOfPair(i) == (i - 1) \div PantographBlockSize + 1

\* calibrate_range for every block of a level.
Fits(half) == [1 .. NumBlocksFor(half) -> [ratio : Ratios, offset : Offsets]]

Predicted(fit, a) == FixedMulRound(a, fit.ratio) + fit.offset

\* Halved as by >> 1.
Update(d) == d \div 2

Level(cur, fits, step) ==
  LET Raw(i) == cur[2 * i] - Predicted(fits[BlockOfPair(i)], cur[2 * i - 1])
      pairs == 1 .. Len(cur) \div 2
      residual == [i \in pairs |-> QuantRoundDiv(Raw(i), step)]
  IN  [low |-> [i \in pairs |-> cur[2 * i - 1] + Update(residual[i] * step)],
       residual |-> residual,
       fits |-> fits]

\* Faulty variant: b is predicted from the value that still holds the update.
UnlevelFromUpdated(low, level, step) ==
  LET A(i) == low[i] - Update(level.residual[i] * step)
      B(i) == Predicted(level.fits[BlockOfPair(i)], low[i]) + level.residual[i] * step
  IN  [k \in 1 .. 2 * Len(low) |-> IF k % 2 = 1 THEN A((k + 1) \div 2) ELSE B(k \div 2)]

Unlevel(low, level, step) ==
  LET A(i) == low[i] - Update(level.residual[i] * step)
      B(i) == Predicted(level.fits[BlockOfPair(i)], A(i)) + level.residual[i] * step
  IN  [k \in 1 .. 2 * Len(low) |-> IF k % 2 = 1 THEN A((k + 1) \div 2) ELSE B(k \div 2)]
=============================================================================
