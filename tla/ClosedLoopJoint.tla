-------------------------- MODULE ClosedLoopJoint --------------------------
(***************************************************************************)
(* The three closed-loop predictors: rods of a 2D path under a complex     *)
(* ratio, rods of a 3D path under a similarity matrix                      *)
(* (rod_joint_transform.cpp), orientations under a quaternion delta        *)
(* (quaternion_joint.cpp). Each sample is predicted from an earlier        *)
(* reconstructed one with what calibration found for its block, a block    *)
(* being of fixed length or placed by adaptive_partition.                  *)
(*                                                                         *)
(* An inverse looks at nothing but residuals and calibrations up to its    *)
(* own sample, so it runs here one sample behind. What calibration finds   *)
(* is any lag, any coefficients and any placement of the blocks: the fit   *)
(* decides how small the residuals are, and nothing else. Coordinates are  *)
(* far enough from the limits of i32 for no sum to leave it.               *)
(***************************************************************************)
EXTENDS FixedPoint, Sequences

CONSTANTS
  Samples,          \* what a path may visit, per joint
  Coefs,            \* calibrated coefficients in units of 1/FixedOne, per joint
  Lags,             \* kRodJointCandidateLags
  BlockSize,        \* kRodJointBlockSize, kRodJoint3DBlockSize, kQuatJointBlockSize
  MinBlock,         \* min_block of the adaptive transforms
  MaxMerge,         \* bound: chunks of MinBlock merged into one block
  QuantSteps,       \* quant_step a caller may ask for, 0 meaning 1
  ResyncIntervals,  \* resync_interval a caller may ask for, 0 for never
  MaxLen            \* bound: predicted samples of a path

Joints == {"2d", "3d", "quat"}

\* i32 fields of Point2i, Point3i and Quat4i, and coefficients of a calibration.
Dim == [j \in Joints |-> IF j = "2d" THEN 2 ELSE IF j = "3d" THEN 3 ELSE 4]
CoefDim == [j \in Joints |-> IF j = "2d" THEN 2 ELSE IF j = "3d" THEN 9 ELSE 4]

ASSUME JointAssumption ==
  /\ \A j \in Joints : /\ Samples[j] \subseteq [1 .. Dim[j] -> Int]
                       /\ Coefs[j] \subseteq [1 .. CoefDim[j] -> Int]
  /\ Lags \subseteq Nat \ {0}
  /\ FixedOne \in Nat \ {0}
  /\ BlockSize \in Nat \ {0} /\ MinBlock \in Nat \ {0} /\ MaxMerge \in Nat
  /\ QuantSteps \subseteq Nat /\ ResyncIntervals \subseteq Nat
  /\ MaxLen \in Nat

VARIABLES
  joint,     \* which transform
  adaptive,  \* whether block_len is in use
  quant,     \* quant_step
  resync,    \* resync_interval
  pc,        \* "calibrate", "forward", "inverse"
  calib,     \* block_lag with block_ratio, block_matrix or block_delta
  ends,      \* where the blocks of block_len end
  point,     \* the true sample the path has reached
  rec,       \* forward: rec_ex .. rec_ez or rec_w .. rec_z
  recPos,    \* forward: rec_px .. rec_pz
  residual,  \* the residual of the last sample
  out,       \* inverse: the same history
  outPos     \* inverse: the last of the points

setup == <<joint, adaptive, quant, resync>>
vars == <<setup, pc, calib, ends, point, rec, recPos, residual, out, outPos>>

Axes == 1 .. Dim[joint]
Zero == [k \in Axes |-> 0]
Plus(a, b) == [k \in Axes |-> a[k] + b[k]]
Minus(a, b) == [k \in Axes |-> a[k] - b[k]]
Times(n, a) == [k \in Axes |-> n * a[k]]

ComplexMulRound(c, e) ==
  << FixedMulRound(e[1], c[1]) - FixedMulRound(e[2], c[2]),
     FixedMulRound(e[2], c[1]) + FixedMulRound(e[1], c[2]) >>

\* Row-major, 3 x 3.
Mat3MulRound(m, e) ==
  [k \in 1 .. 3 |-> FixedMulRound(e[1], m[3 * k - 2]) + FixedMulRound(e[2], m[3 * k - 1])
                      + FixedMulRound(e[3], m[3 * k])]

\* The Hamilton product, d from the right; w, x, y, z are 1 to 4.
QuatRightMulRound(d, a) ==
  LET F(i, j) == FixedMulRound(a[i], d[j])
  IN  << F(1, 1) - F(2, 2) - F(3, 3) - F(4, 4),
         F(2, 1) + F(1, 2) + F(4, 3) - F(3, 4),
         F(3, 1) - F(4, 2) + F(1, 3) + F(2, 4),
         F(4, 1) + F(3, 2) - F(2, 3) + F(1, 4) >>

MulRound(c, e) ==
  IF joint = "2d" THEN ComplexMulRound(c, e)
  ELSE IF joint = "3d" THEN Mat3MulRound(c, e)
  ELSE QuatRightMulRound(c, e)

\* The next sample after those of hist, predicted with a calibration.
PredictedFrom(c, hist) ==
  LET i == Len(hist)
  IN  MulRound(c.coef, IF i >= c.lag THEN hist[i - c.lag + 1] ELSE Zero)

IsResync(i) == resync > 0 /\ (i + 1) % resync = 0

StepOf(i) == IF IsResync(i) THEN 1 ELSE quant

Init ==
  /\ joint \in Joints
  /\ adaptive \in (IF joint = "2d" THEN {FALSE} ELSE BOOLEAN)
  /\ \E q \in QuantSteps : quant = (IF q = 0 THEN 1 ELSE q)
  /\ resync \in ResyncIntervals
  /\ pc = "calibrate"
  /\ calib = <<>>
  /\ ends = <<>>
  /\ point \in Samples[joint]
  /\ rec = <<>>
  /\ recPos = point
  /\ residual = Zero
  /\ out = <<>>
  /\ outPos = point

-----------------------------------------------------------------------------
\* A block of the given length begins at the sample the transform has reached.
OpenBlock(c, length) ==
  /\ pc = "calibrate"
  /\ calib' = Append(calib, c)
  /\ ends' = Append(ends, Len(rec) + length)
  /\ pc' = "forward"
  /\ UNCHANGED <<setup, point, rec, recPos, residual, out, outPos>>

\* The fit over a block, clamped, with the lag that predicts best.
PickBlockLag2D == [lag : Lags, coef : Coefs["2d"]]
PickBlockLag3D == [lag : Lags, coef : Coefs["3d"]]
PickBlockLagQuat == [lag : Lags, coef : Coefs["quat"]]

\* adaptive_partition merges a chunk into the block before it or starts another:
\* a block is a number of chunks, and only the end of the path cuts one short.
AdaptiveBlocks == {n * MinBlock : n \in 1 .. MaxMerge}

Blocks2D == joint = "2d" /\ \E c \in PickBlockLag2D : OpenBlock(c, BlockSize)

Blocks3D == joint = "3d" /\ ~adaptive /\ \E c \in PickBlockLag3D : OpenBlock(c, BlockSize)

Blocks3DAdaptive ==
  joint = "3d" /\ adaptive /\ \E c \in PickBlockLag3D, n \in AdaptiveBlocks : OpenBlock(c, n)

BlocksQuat ==
  joint = "quat" /\ ~adaptive /\ \E c \in PickBlockLagQuat : OpenBlock(c, BlockSize)

BlocksQuatAdaptive ==
  joint = "quat" /\ adaptive /\ \E c \in PickBlockLagQuat, n \in AdaptiveBlocks : OpenBlock(c, n)

-----------------------------------------------------------------------------
\* The path goes on to p, by a step that should reach target from the origin.
Encode(p, target, origin) ==
  /\ pc = "forward"
  /\ Len(rec) < MaxLen
  /\ LET step == StepOf(Len(rec))
         pred == PredictedFrom(calib[Len(calib)], rec)
         raw == Minus(target, pred)
         index == [k \in Axes |-> QuantRoundDiv(raw[k], step)]
         sample == Plus(pred, Times(step, index))
     IN  /\ residual' = index
         /\ rec' = Append(rec, sample)
         /\ recPos' = Plus(origin, sample)
  /\ point' = p
  /\ pc' = "inverse"
  /\ UNCHANGED <<setup, calib, ends, out, outPos>>

\* Faulty variant: an exact rod is the true rod, and keeps the drift before it.
RodTargetKeepsDrift(p) == Minus(p, point)

\* What a rod should be: the true one, and at a resync the one that leads from
\* where the decoder is to the true point.
RodTarget(p) == IF IsResync(Len(rec)) THEN Minus(p, recPos) ELSE Minus(p, point)

Encode2D(p) == joint = "2d" /\ Encode(p, RodTarget(p), recPos)

EncodeBlock3D(p) == joint = "3d" /\ Encode(p, RodTarget(p), recPos)

\* An orientation is predicted itself: nothing accumulates.
EncodeBlockQuat(p) == joint = "quat" /\ Encode(p, p, Zero)

-----------------------------------------------------------------------------
\* Faulty variant: a block ends one sample late.
BlockFromLengthsLate(i) ==
  CHOOSE b \in 1 .. Len(ends) : i <= ends[b] /\ (b > 1 => ends[b - 1] < i)

\* block_index_from_lengths: the block a sample lies in, numbered from 1.
BlockFromLengths(i) ==
  CHOOSE b \in 1 .. Len(ends) : i < ends[b] /\ (b > 1 => ends[b - 1] <= i)

BlockOf(i) == IF adaptive THEN BlockFromLengths(i) ELSE i \div BlockSize + 1

Decoded ==
  Plus(PredictedFrom(calib[BlockOf(Len(out))], out), Times(StepOf(Len(out)), residual))

Decode(origin) ==
  /\ pc = "inverse"
  /\ out' = Append(out, Decoded)
  /\ outPos' = Plus(origin, Decoded)
  /\ pc' = IF Len(out) + 1 = ends[Len(ends)] THEN "calibrate" ELSE "forward"
  /\ UNCHANGED <<setup, calib, ends, point, rec, recPos, residual>>

Inverse2D == joint = "2d" /\ Decode(outPos)

Inverse3D == joint = "3d" /\ Decode(outPos)

InverseQuat == joint = "quat" /\ Decode(Zero)

Calibrate == \/ Blocks2D \/ Blocks3D \/ Blocks3DAdaptive
             \/ BlocksQuat \/ BlocksQuatAdaptive

ForwardSample == \E p \in Samples[joint] : Encode2D(p) \/ EncodeBlock3D(p) \/ EncodeBlockQuat(p)

InverseSample == Inverse2D \/ Inverse3D \/ InverseQuat

Next == Calibrate \/ ForwardSample \/ InverseSample

Spec == Init /\ [][Next]_vars
-----------------------------------------------------------------------------
\* When the inverse has caught up it has the samples the forward transform predicted
\* from: prediction is closed-loop, whatever the fit, the blocks and the step.
InLockstep == pc # "inverse" => out = rec /\ outPos = recPos

\* With quant_step 1 the path is reproduced exactly, however bad the fit.
Lossless == pc # "inverse" /\ quant = 1 => outPos = point

\* Samples since the last one stored exactly whose errors are in the position:
\* those of rods add up, that of an orientation is its own.
SinceExact(n) ==
  LET rods == IF resync = 0 THEN n ELSE n % resync
  IN  IF joint = "quat" /\ rods > 1 THEN 1 ELSE rods

\* A lossy path drifts by at most half a step per rod, an orientation is never off
\* by more than half a step, and a resync brings either back to nothing.
DriftBounded ==
  pc # "inverse" =>
    \A k \in Axes : Abs(outPos[k] - point[k]) <= SinceExact(Len(out)) * (quant \div 2)

\* rod_joint_2d_error_bound: "any lossy-mode coordinate is within this many units
\* of its true value", half a step however long the path.
ErrorBound ==
  pc # "inverse" => \A k \in Axes : Abs(outPos[k] - point[k]) <= quant \div 2
=============================================================================
