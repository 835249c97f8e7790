-------------------------- MODULE TransformsProofs --------------------------
(***************************************************************************)
(* What the two families of transforms claim, proved for arrays and paths  *)
(* of any length. First the joints: any samples, any lags and coefficients *)
(* calibration may choose, blocks of any placement, any step and resync    *)
(* interval. Then the lift: any fits, any hand-over to the CPU, any        *)
(* sequence of calls on one session, and any CUDA call failing.            *)
(***************************************************************************)
EXTENDS ClosedLoopJoint, CudaLiftSession, FiniteSetTheorems, NaturalsInduction,
        WellFoundedInduction, TLAPS

Vector == [Axes -> Int]

Calibration == [lag : Lags, coef : Coefs[joint]]

\* Everything has the shape the code declares.
Shape ==
  /\ joint \in Joints /\ adaptive \in BOOLEAN
  /\ quant \in Nat \ {0} /\ resync \in Nat
  /\ pc \in {"calibrate", "forward", "inverse"}
  /\ calib \in Seq(Calibration)
  /\ ends \in Seq(Nat \ {0}) /\ Len(ends) = Len(calib)
  /\ point \in Vector /\ recPos \in Vector /\ outPos \in Vector
  /\ residual \in Vector
  /\ rec \in Seq(Vector) /\ out \in Seq(Vector)

\* Blocks follow one another, and the sample the inverse has reached lies in the
\* last one, or at its end.
BlocksFit ==
  /\ \A b, c \in 1 .. Len(ends) : b < c => ends[b] < ends[c]
  /\ ~adaptive => \A b \in 1 .. Len(ends) : ends[b] = BlockSize * b
  /\ pc = "calibrate" => Len(out) = (IF ends = <<>> THEN 0 ELSE ends[Len(ends)])
  /\ pc # "calibrate" => /\ ends # <<>> /\ Len(out) < ends[Len(ends)]
                         /\ Len(ends) > 1 => ends[Len(ends) - 1] <= Len(out)

\* Where the next sample is added: an orientation replaces the one before it.
Origin(pos) == IF joint = "quat" THEN Zero ELSE pos

\* The forward transform is one sample ahead, the one the inverse is about to find.
OneAhead ==
  pc = "inverse" => rec = Append(out, Decoded) /\ recPos = Plus(Origin(outPos), Decoded)

\* How far the forward transform knows the decoder to be off.
Drift == \A k \in Axes : Abs(recPos[k] - point[k]) <= SinceExact(Len(rec)) * (quant \div 2)

\* The inductive invariant.
IInv == Shape /\ BlocksFit /\ InLockstep /\ OneAhead /\ Drift
-----------------------------------------------------------------------------
\* What the two operators of integer division mean.
LEMMA DivMod ==
  ASSUME NEW n \in Int, NEW b \in Nat \ {0}
  PROVE  /\ n \div b \in Int /\ n % b \in 0 .. b - 1
         /\ n = b * (n \div b) + (n % b)
OBVIOUS

\* A quotient and a remainder are unique.
LEMMA DivUnique ==
  ASSUME NEW b \in Nat \ {0}, NEW q \in Int, NEW s \in Int,
         NEW r \in 0 .. b - 1, NEW t \in 0 .. b - 1, b * q + r = b * s + t
  PROVE  q = s /\ r = t
<1>1. ASSUME NEW x \in Int, NEW y \in Int, NEW u \in 0 .. b - 1, NEW v \in 0 .. b - 1,
             b * x + u = b * y + v, x < y
      PROVE  FALSE
  <2> DEFINE k == y - x - 1
  <2>1. k \in Nat /\ y = x + 1 + k
    BY <1>1
  <2>2. b * (x + 1 + k) = b * x + b + b * k
    BY <2>1
  <2>3. b * k \in Nat
    BY <2>1
  <2> QED
    BY <1>1, <2>1, <2>2, <2>3
<1> QED
  BY <1>1

\* Counting on by one either enters the next block or stays in the block.
LEMMA Successor ==
  ASSUME NEW n \in Nat, NEW b \in Nat \ {0}
  PROVE  IF (n + 1) % b = 0
         THEN (n + 1) \div b = (n \div b) + 1
         ELSE (n + 1) \div b = n \div b /\ (n + 1) % b = (n % b) + 1
<1> DEFINE q == n \div b
           r == n % b
<1>1. q \in Int /\ r \in 0 .. b - 1 /\ n = b * q + r
  BY DivMod
<1>2. /\ (n + 1) \div b \in Int /\ (n + 1) % b \in 0 .. b - 1
      /\ n + 1 = b * ((n + 1) \div b) + ((n + 1) % b)
  <2>1. n + 1 \in Int
    OBVIOUS
  <2> QED
    BY <2>1, DivMod
<1> HIDE DEF q, r
<1>3. CASE r + 1 = b
  <2>1. b * (q + 1) = b * q + b
    BY <1>1
  <2>2. b * (q + 1) + 0 = b * ((n + 1) \div b) + ((n + 1) % b)
    BY <1>1, <1>2, <1>3, <2>1
  <2>3. q + 1 = (n + 1) \div b /\ 0 = (n + 1) % b
    <3>1. q + 1 \in Int /\ 0 \in 0 .. b - 1
      BY <1>1
    <3> QED
      BY <1>2, <2>2, <3>1, DivUnique
  <2> QED
    BY <2>3 DEF q
<1>4. CASE r + 1 < b
  <2>1. r + 1 \in 0 .. b - 1 /\ r + 1 # 0
    BY <1>1, <1>4
  <2>2. b * q + (r + 1) = b * ((n + 1) \div b) + ((n + 1) % b)
    <3>1. b * q \in Int
      BY <1>1
    <3> QED
      BY <1>1, <1>2, <3>1
  <2>3. q = (n + 1) \div b /\ r + 1 = (n + 1) % b
    BY <1>1, <1>2, <2>1, <2>2, DivUnique
  <2> QED
    BY <2>1, <2>3 DEF q, r
<1> QED
  BY <1>1, <1>3, <1>4

-----------------------------------------------------------------------------
\* Rounding to a multiple of q is off by at most half of q.
LEMMA Rounding ==
  ASSUME NEW d \in Int, NEW q \in Nat \ {0}
  PROVE  /\ QuantRoundDiv(d, q) \in Int
         /\ q \div 2 \in Nat
         /\ Abs(q * QuantRoundDiv(d, q) - d) <= q \div 2
<1> DEFINE h == q \div 2
<1>1. h \in Nat /\ q - h <= h + 1
  OBVIOUS
<1>2. CASE q = 1
  BY <1>2 DEF QuantRoundDiv, Abs
<1>3. CASE q # 1 /\ d >= 0
  <2> DEFINE m == (d + h) \div q
  <2>1. /\ m \in Int /\ (d + h) % q \in 0 .. q - 1
        /\ d + h = q * m + ((d + h) % q)
    <3>1. d + h \in Int
      BY <1>1
    <3> QED
      BY <3>1, DivMod
  <2>2. QuantRoundDiv(d, q) = m
    BY <1>3 DEF QuantRoundDiv
  <2> HIDE DEF m, h
  <2>3. q * m \in Int
    BY <2>1
  <2>4. Abs(q * m - d) <= h
    BY <1>1, <2>1, <2>3 DEF Abs
  <2> QED
    BY <1>1, <2>1, <2>2, <2>4 DEF h
<1>4. CASE q # 1 /\ d < 0
  <2> DEFINE m == (-d + h) \div q
  <2>1. /\ m \in Int /\ (-d + h) % q \in 0 .. q - 1
        /\ -d + h = q * m + ((-d + h) % q)
    <3>1. -d + h \in Int
      BY <1>1
    <3> QED
      BY <3>1, DivMod
  <2>2. QuantRoundDiv(d, q) = -m
    BY <1>4 DEF QuantRoundDiv
  <2> HIDE DEF m, h
  <2>3. q * m \in Int /\ q * (-m) = -(q * m)
    BY <2>1
  <2>4. Abs(q * (-m) - d) <= h
    BY <1>1, <2>1, <2>3 DEF Abs
  <2> QED
    BY <1>1, <2>1, <2>2, <2>4 DEF h
<1> QED
  BY <1>2, <1>3, <1>4

LEMMA RoundedProduct ==
  ASSUME NEW value \in Int, NEW r \in Int
  PROVE  FixedMulRound(value, r) \in Int
<1> DEFINE half == FixedOne \div 2
           prod == value * r
<1>0. FixedOne \in Nat \ {0}
  BY JointAssumption DEF JointAssumption
<1>1. half \in Int /\ prod \in Int
  BY <1>0
<1> HIDE DEF half, prod
<1>2. (prod + half) \div FixedOne \in Int /\ (prod - half) \div FixedOne \in Int
  <2>1. prod + half \in Int /\ prod - half \in Int
    BY <1>1
  <2> QED
    BY <1>0, <2>1, DivMod
<1> QED
  BY <1>2 DEF FixedMulRound, half, prod

LEMMA VectorSums ==
  ASSUME NEW a \in Vector, NEW b \in Vector, NEW n \in Int
  PROVE  Plus(a, b) \in Vector /\ Minus(a, b) \in Vector /\ Times(n, a) \in Vector
<1>1. \A k \in Axes : a[k] \in Int /\ b[k] \in Int /\ n * a[k] \in Int
  BY DEF Vector
<1> QED
  BY <1>1 DEF Plus, Minus, Times, Vector

LEMMA ComplexType ==
  ASSUME NEW c \in [1 .. 2 -> Int], NEW e \in [1 .. 2 -> Int]
  PROVE  ComplexMulRound(c, e) \in [1 .. 2 -> Int]
<1>1. c[1] \in Int /\ c[2] \in Int /\ e[1] \in Int /\ e[2] \in Int
  OBVIOUS
<1>2. /\ FixedMulRound(e[1], c[1]) \in Int /\ FixedMulRound(e[2], c[2]) \in Int
      /\ FixedMulRound(e[2], c[1]) \in Int /\ FixedMulRound(e[1], c[2]) \in Int
  BY <1>1, RoundedProduct
<1> QED
  BY <1>2 DEF ComplexMulRound

LEMMA MatrixType ==
  ASSUME NEW m \in [1 .. 9 -> Int], NEW e \in [1 .. 3 -> Int]
  PROVE  Mat3MulRound(m, e) \in [1 .. 3 -> Int]
<1>1. ASSUME NEW k \in 1 .. 3
      PROVE  /\ FixedMulRound(e[1], m[3 * k - 2]) \in Int
             /\ FixedMulRound(e[2], m[3 * k - 1]) \in Int
             /\ FixedMulRound(e[3], m[3 * k]) \in Int
  <2>1. /\ m[3 * k - 2] \in Int /\ m[3 * k - 1] \in Int /\ m[3 * k] \in Int
        /\ e[1] \in Int /\ e[2] \in Int /\ e[3] \in Int
    OBVIOUS
  <2> QED
    BY <2>1, RoundedProduct
<1> QED
  BY <1>1 DEF Mat3MulRound

LEMMA QuaternionType ==
  ASSUME NEW d \in [1 .. 4 -> Int], NEW a \in [1 .. 4 -> Int]
  PROVE  QuatRightMulRound(d, a) \in [1 .. 4 -> Int]
<1> DEFINE F(i, j) == FixedMulRound(a[i], d[j])
<1>1. \A i, j \in 1 .. 4 : F(i, j) \in Int
  BY RoundedProduct
<1> HIDE DEF F
<1> DEFINE w == F(1, 1) - F(2, 2) - F(3, 3) - F(4, 4)
           x == F(2, 1) + F(1, 2) + F(4, 3) - F(3, 4)
           y == F(3, 1) - F(4, 2) + F(1, 3) + F(2, 4)
           z == F(4, 1) + F(3, 2) - F(2, 3) + F(1, 4)
<1>2. w \in Int /\ x \in Int /\ y \in Int /\ z \in Int
  BY <1>1
<1>3. QuatRightMulRound(d, a) = <<w, x, y, z>>
  BY DEF QuatRightMulRound, F
<1> HIDE DEF w, x, y, z
<1> QED
  BY <1>2, <1>3

USE JointAssumption DEF JointAssumption

\* A prediction reaches back to a sample there is, or to nothing.
LEMMA PredictionType ==
  ASSUME joint \in Joints, NEW c \in Calibration, NEW hist \in Seq(Vector)
  PROVE  PredictedFrom(c, hist) \in Vector
<1> DEFINE i == Len(hist)
           e == IF i >= c.lag THEN hist[i - c.lag + 1] ELSE Zero
<1>1. c.lag \in Nat \ {0} /\ c.coef \in [1 .. CoefDim[joint] -> Int]
  BY DEF Calibration
<1>2. e \in Vector
  <2>1. CASE i >= c.lag
    <3>1. i - c.lag + 1 \in 1 .. i
      BY <1>1, <2>1
    <3> QED
      BY <2>1, <3>1
  <2>2. CASE ~(i >= c.lag)
    BY <2>2 DEF Vector, Zero
  <2> QED
    BY <2>1, <2>2
<1> HIDE DEF e
<1>3. MulRound(c.coef, e) \in Vector
  <2>1. CASE joint = "2d"
    BY <1>1, <1>2, <2>1, ComplexType DEF MulRound, Vector, Axes, Dim, CoefDim, Joints
  <2>2. CASE joint = "3d"
    BY <1>1, <1>2, <2>2, MatrixType DEF MulRound, Vector, Axes, Dim, CoefDim, Joints
  <2>3. CASE joint = "quat"
    BY <1>1, <1>2, <2>3, QuaternionType DEF MulRound, Vector, Axes, Dim, CoefDim, Joints
  <2> QED
    BY <2>1, <2>2, <2>3 DEF Joints
<1> QED
  BY <1>3 DEF PredictedFrom, e
-----------------------------------------------------------------------------
\* The inverse looks a sample up in the block it was encoded in.
LEMMA BlockFound ==
  ASSUME Shape, BlocksFit, pc # "calibrate"
  PROVE  BlockOf(Len(out)) = Len(ends) /\ Len(ends) \in 1 .. Len(ends)
<1> DEFINE i == Len(out)
           last == Len(ends)
<1>1. /\ i \in Nat /\ last \in Nat \ {0} /\ ends[last] \in Nat /\ i < ends[last]
      /\ last > 1 => ends[last - 1] \in Nat /\ ends[last - 1] <= i
  <2>1. i \in Nat /\ last \in Nat \ {0}
    BY DEF Shape, BlocksFit
  <2>2. last > 1 => last - 1 \in 1 .. Len(ends)
    BY <2>1
  <2>3. last \in 1 .. Len(ends)
    BY <2>1
  <2> QED
    BY <2>1, <2>2, <2>3 DEF Shape, BlocksFit
<1>2. CASE adaptive
  <2> DEFINE Holds(b) == i < ends[b] /\ (b > 1 => ends[b - 1] <= i)
  <2>1. last \in 1 .. last /\ Holds(last)
    BY <1>1
  <2>2. ASSUME NEW b \in 1 .. last, Holds(b), b # last
        PROVE  FALSE
    <3>1. b < last /\ last > 1 /\ last - 1 \in 1 .. last /\ ends[b] \in Nat
      BY <1>1, <2>2 DEF Shape
    <3>2. b = last - 1 \/ ends[b] < ends[last - 1]
      BY <3>1, <1>1 DEF BlocksFit
    <3> QED
      BY <1>1, <2>2, <3>1, <3>2
  <2> HIDE DEF Holds
  <2>3. last = CHOOSE b \in 1 .. last : Holds(b)
    BY <2>1, <2>2
  <2> QED
    BY <1>1, <1>2, <2>3 DEF BlockOf, BlockFromLengths, Holds
<1>3. CASE ~adaptive
  <2>1. ends[last] = BlockSize * last /\ (last > 1 => ends[last - 1] = BlockSize * (last - 1))
    BY <1>1, <1>3 DEF BlocksFit
  <2> DEFINE r == i - BlockSize * (last - 1)
  <2>2. BlockSize * (last - 1) \in Int /\ BlockSize * last = BlockSize * (last - 1) + BlockSize
    BY <1>1
  <2>3. BlockSize * (last - 1) <= i
    BY <1>1, <2>1
  <2>4. r \in 0 .. BlockSize - 1
    BY <1>1, <2>1, <2>2, <2>3
  <2>5. BlockSize * (last - 1) + r = i
    BY <1>1, <2>2
  <2>6. BlockSize \in Nat \ {0} /\ last - 1 \in Int /\ i \in Int
    BY <1>1
  <2> HIDE DEF r, i, last
  <2>7. last - 1 = i \div BlockSize
    <3>1. /\ i \div BlockSize \in Int /\ i % BlockSize \in 0 .. BlockSize - 1
          /\ i = BlockSize * (i \div BlockSize) + (i % BlockSize)
      BY <2>6, DivMod
    <3> DEFINE q == last - 1
    <3>2. q \in Int /\ BlockSize * q + r = BlockSize * (i \div BlockSize) + (i % BlockSize)
      BY <2>5, <2>6, <3>1
    <3> HIDE DEF q
    <3>3. q = i \div BlockSize
      BY <2>4, <2>6, <3>1, <3>2, DivUnique
    <3> QED
      BY <3>3 DEF q
  <2> QED
    BY <1>1, <1>3, <2>7 DEF BlockOf, i, last
<1> QED
  BY <1>1, <1>2, <1>3 DEF Shape
-----------------------------------------------------------------------------
LEMMA InitIInv == Init => IInv
<1> SUFFICES ASSUME Init PROVE IInv
  OBVIOUS
<1>1. quant \in Nat \ {0} /\ resync \in Nat /\ joint \in Joints
  BY DEF Init
<1>2. adaptive \in BOOLEAN
  BY DEF Init
<1>3. point \in Vector /\ Zero \in Vector /\ recPos = point /\ outPos = point
  BY DEF Init, Vector, Zero, Axes
<1>4. Shape
  BY <1>1, <1>2, <1>3 DEF Init, Shape
<1>5. BlocksFit
  BY DEF Init, BlocksFit
<1>6. InLockstep /\ OneAhead
  BY DEF Init, InLockstep, OneAhead
<1>7. Drift
  <2>1. SinceExact(0) = 0
    BY <1>1 DEF SinceExact
  <2>2. \A k \in Axes : Abs(recPos[k] - point[k]) = 0
    BY <1>3 DEF Abs, Vector
  <2>3. Len(rec) = 0 /\ quant \div 2 \in Nat
    BY <1>1 DEF Init
  <2> QED
    BY <2>1, <2>2, <2>3 DEF Drift
<1> QED
  BY <1>4, <1>5, <1>6, <1>7 DEF IInv

LEMMA OpenBlockIInv ==
  ASSUME IInv, NEW c \in Calibration, NEW n \in Nat \ {0},
         ~adaptive => n = BlockSize, OpenBlock(c, n)
  PROVE  IInv'
<1> USE DEF IInv
<1>1. /\ calib' = Append(calib, c) /\ ends' = Append(ends, Len(rec) + n)
      /\ pc = "calibrate" /\ pc' = "forward"
      /\ UNCHANGED <<joint, adaptive, quant, resync, point, rec, recPos, residual, out, outPos>>
  BY DEF OpenBlock, setup
<1>2. Len(rec) + n \in Nat \ {0} /\ Len(rec) = Len(out) /\ Len(rec) \in Nat
  BY <1>1 DEF Shape, InLockstep
<1>3. Vector' = Vector /\ Calibration' = Calibration /\ Axes' = Axes
  BY <1>1 DEF Vector, Calibration, Axes
<1>4. Shape'
  <2>1. calib' \in Seq(Calibration) /\ ends' \in Seq(Nat \ {0}) /\ Len(ends') = Len(calib')
    BY <1>1, <1>2 DEF Shape
  <2> QED
    BY <1>1, <1>3, <2>1 DEF Shape
<1>5. BlocksFit'
  <2> DEFINE last == Len(ends)
             end == Len(rec) + n
  <2>1. last \in Nat /\ Len(ends') = last + 1 /\ ends'[last + 1] = end
    BY <1>1, <1>2 DEF Shape
  <2>2. \A b \in 1 .. last : ends'[b] = ends[b] /\ ends[b] \in Nat
    BY <1>1, <1>2 DEF Shape
  <2>3. last # 0 => ends[last] = Len(rec) /\ last \in 1 .. last
    BY <1>1, <1>2, <2>1 DEF BlocksFit, Shape
  <2>4. last = 0 => Len(rec) = 0
    BY <1>1, <1>2 DEF BlocksFit, Shape
  <2> HIDE DEF last
  <2>5. ASSUME NEW b \in 1 .. last + 1, NEW d \in 1 .. last + 1, b < d
        PROVE  ends'[b] < ends'[d]
    <3>1. CASE d = last + 1
      <4>1. b \in 1 .. last /\ last \in 1 .. last
        BY <2>1, <2>5, <3>1
      <4>2. b = last \/ ends[b] < ends[last]
        BY <4>1, <2>5 DEF BlocksFit, last
      <4> QED
        BY <1>2, <2>1, <2>2, <2>3, <3>1, <4>1, <4>2
    <3>2. CASE d # last + 1
      <4>1. b \in 1 .. last /\ d \in 1 .. last
        BY <2>1, <2>5, <3>2
      <4> QED
        BY <2>2, <2>5, <4>1 DEF BlocksFit, last
    <3> QED
      BY <3>1, <3>2
  <2>6. ASSUME ~adaptive, NEW b \in 1 .. last + 1
        PROVE  ends'[b] = BlockSize * b
    <3>1. CASE b = last + 1
      <4>1. Len(rec) = BlockSize * last
        <5>1. CASE last = 0
          BY <2>4, <5>1
        <5>2. CASE last # 0
          <6>1. last \in 1 .. Len(ends) /\ ends[last] = Len(rec)
            BY <2>3, <5>2 DEF last
          <6> QED
            BY <2>6, <6>1 DEF BlocksFit
        <5> QED
          BY <5>1, <5>2
      <4>2. BlockSize * (last + 1) = BlockSize * last + BlockSize
        BY <2>1
      <4> QED
        BY <2>1, <2>6, <3>1, <4>1, <4>2
    <3>2. CASE b # last + 1
      <4>1. b \in 1 .. last
        BY <2>1, <3>2
      <4> QED
        BY <2>2, <2>6, <4>1 DEF BlocksFit, last
    <3> QED
      BY <3>1, <3>2
  <2>7. Len(out') < ends'[Len(ends')] /\ ends' # <<>>
    BY <1>1, <1>2, <2>1
  <2>8. Len(ends') > 1 => ends'[Len(ends') - 1] <= Len(out')
    BY <1>1, <1>2, <2>1, <2>2, <2>3
  <2> QED
    BY <1>1, <2>1, <2>5, <2>6, <2>7, <2>8 DEF BlocksFit
<1>6. InLockstep' /\ OneAhead'
  BY <1>1 DEF InLockstep, OneAhead
<1>7. Drift'
  BY <1>1, <1>3 DEF Drift, SinceExact
<1> QED
  BY <1>4, <1>5, <1>6, <1>7

LEMMA CalibrateIInv == IInv /\ Calibrate => IInv'
<1> SUFFICES ASSUME IInv, Calibrate PROVE IInv'
  OBVIOUS
<1> USE DEF PickBlockLag2D, PickBlockLag3D, PickBlockLagQuat, Calibration
<1>1. ASSUME NEW n \in AdaptiveBlocks PROVE n \in Nat \ {0}
  <2>1. PICK f \in 1 .. MaxMerge : n = f * MinBlock
    BY DEF AdaptiveBlocks
  <2> QED
    BY <2>1
<1>2. ~adaptive \/ adaptive
  OBVIOUS
<1>3. CASE Blocks2D
  <2>1. ~adaptive => BlockSize = BlockSize
    OBVIOUS
  <2> QED
    BY <1>3, <2>1, OpenBlockIInv DEF Blocks2D
<1>4. CASE Blocks3D
  BY <1>4, OpenBlockIInv DEF Blocks3D
<1>5. CASE Blocks3DAdaptive
  BY <1>1, <1>5, OpenBlockIInv DEF Blocks3DAdaptive
<1>6. CASE BlocksQuat
  BY <1>6, OpenBlockIInv DEF BlocksQuat
<1>7. CASE BlocksQuatAdaptive
  BY <1>1, <1>7, OpenBlockIInv DEF BlocksQuatAdaptive
<1> QED
  BY <1>3, <1>4, <1>5, <1>6, <1>7 DEF Calibrate

\* An encoded sample keeps everything but the drift, and misses its target by at
\* most half a step.
LEMMA EncodeStep ==
  ASSUME IInv, NEW p \in Vector, NEW target \in Vector, NEW origin \in Vector,
         origin = Origin(recPos), Encode(p, target, origin)
  PROVE  /\ Shape' /\ BlocksFit' /\ InLockstep' /\ OneAhead'
         /\ pc = "forward" /\ Len(rec') = Len(rec) + 1 /\ point' = p
         /\ UNCHANGED <<joint, quant, resync>>
         /\ StepOf(Len(rec)) \in Nat \ {0}
         /\ \A k \in Axes :
              Abs(recPos'[k] - origin[k] - target[k]) <= StepOf(Len(rec)) \div 2
<1> DEFINE i == Len(rec)
           q == StepOf(i)
           c == calib[Len(calib)]
           pred == PredictedFrom(c, rec)
           raw == Minus(target, pred)
           index == [k \in Axes |-> QuantRoundDiv(raw[k], q)]
           sample == Plus(pred, Times(q, index))
<1>0. Shape /\ BlocksFit /\ InLockstep
  BY DEF IInv
<1>1. /\ pc = "forward" /\ pc' = "inverse" /\ point' = p
      /\ residual' = index /\ rec' = Append(rec, sample) /\ recPos' = Plus(origin, sample)
      /\ UNCHANGED <<joint, adaptive, quant, resync, calib, ends, out, outPos>>
  BY DEF Encode, setup
<1>2. /\ i \in Nat /\ rec = out /\ recPos = outPos
      /\ BlockOf(i) = Len(calib) /\ Len(calib) \in 1 .. Len(calib)
  <2>1. rec = out /\ recPos = outPos /\ i \in Nat
    BY <1>0, <1>1 DEF InLockstep, Shape
  <2>2. BlockOf(i) = Len(ends) /\ Len(ends) \in 1 .. Len(ends)
    BY <1>0, <1>1, <2>1, BlockFound
  <2> QED
    BY <1>0, <2>1, <2>2 DEF Shape
<1>3. q \in Nat \ {0} /\ pred \in Vector /\ c \in Calibration
  <2>1. q \in Nat \ {0}
    BY <1>0 DEF StepOf, Shape
  <2>2. c \in Calibration
    BY <1>0, <1>2 DEF Shape
  <2> HIDE DEF c
  <2>3. pred \in Vector
    BY <1>0, <2>2, PredictionType DEF Shape
  <2> QED
    BY <2>1, <2>2, <2>3
<1> HIDE DEF pred, q
<1>4. raw \in Vector
  BY <1>3, VectorSums
<1> HIDE DEF raw
<1>5. index \in Vector
  <2>1. \A k \in Axes : raw[k] \in Int
    BY <1>4 DEF Vector
  <2>2. \A k \in Axes : QuantRoundDiv(raw[k], q) \in Int
    BY <1>3, <2>1, Rounding
  <2> QED
    BY <2>2 DEF Vector
<1> HIDE DEF index
<1>6. sample \in Vector /\ Plus(origin, sample) \in Vector
  <2>1. sample \in Vector
    BY <1>3, <1>5, VectorSums
  <2> HIDE DEF sample
  <2> QED
    BY <2>1, VectorSums
<1>7. Vector' = Vector /\ Calibration' = Calibration /\ Axes' = Axes /\ Zero' = Zero
  BY <1>1 DEF Vector, Calibration, Axes, Zero
<1>8. rec' \in Seq(Vector) /\ Len(rec') = i + 1
  <2> HIDE DEF sample
  <2> QED
    BY <1>0, <1>1, <1>6 DEF Shape
<1>9. Shape'
  <2> HIDE DEF sample
  <2> QED
    BY <1>0, <1>1, <1>5, <1>6, <1>7, <1>8 DEF Shape
<1>10. BlocksFit' /\ InLockstep'
  BY <1>0, <1>1 DEF BlocksFit, InLockstep
<1>11. OneAhead'
  <2>1. BlockOf(Len(out))' = Len(calib)
    BY <1>1, <1>2 DEF BlockOf, BlockFromLengths
  <2>2. Decoded' = sample
    <3>1. Decoded' = Plus(PredictedFrom(c, out), Times(StepOf(Len(out)), index))
      BY <1>1, <1>7, <2>1
         DEF Decoded, PredictedFrom, MulRound, StepOf, IsResync, Plus, Times, Zero
    <3> QED
      BY <1>2, <3>1 DEF pred, q
  <2>3. Origin(outPos)' = origin
    BY <1>1, <1>2, <1>7 DEF Origin
  <2> HIDE DEF sample
  <2>4. rec' = Append(out', Decoded')
    BY <1>1, <1>2, <2>2
  <2>5. recPos' = Plus(Origin(outPos), Decoded)'
    BY <1>1, <1>7, <2>2, <2>3 DEF Plus
  <2> QED
    BY <2>4, <2>5 DEF OneAhead
<1>12. ASSUME NEW k \in Axes
       PROVE  Abs(recPos'[k] - origin[k] - target[k]) <= q \div 2
  <2>1. pred[k] \in Int /\ target[k] \in Int /\ origin[k] \in Int /\ raw[k] \in Int
        /\ raw[k] = target[k] - pred[k]
    BY <1>3, <1>4 DEF Vector, raw, Minus
  <2>2. index[k] = QuantRoundDiv(raw[k], q) /\ index[k] \in Int
    BY <1>5 DEF index, Vector
  <2>3. q * index[k] \in Int
    BY <1>3, <2>2
  <2>4. recPos'[k] = origin[k] + (pred[k] + q * index[k])
    BY <1>1 DEF Plus, Times
  <2>5. Abs(q * index[k] - raw[k]) <= q \div 2
    BY <1>3, <2>1, <2>2, Rounding
  <2>6. recPos'[k] - origin[k] - target[k] = q * index[k] - raw[k]
    BY <2>1, <2>3, <2>4
  <2> QED
    BY <2>5, <2>6
<1> QED
  BY <1>1, <1>3, <1>8, <1>9, <1>10, <1>11, <1>12 DEF q

\* One coordinate of the drift: an error of at most h on top of at most n * h.
LEMMA DriftAdds ==
  ASSUME NEW a \in Int, NEW e \in Int, NEW n \in Nat, NEW h \in Nat,
         Abs(a) <= n * h, Abs(e) <= h
  PROVE  Abs(a + e) <= (n + 1) * h
<1>1. (n + 1) * h = n * h + h /\ n * h \in Nat
  OBVIOUS
<1>2. Abs(a + e) <= n * h + h
  BY <1>1 DEF Abs
<1> QED
  BY <1>1, <1>2

\* How many samples there are since the last exact one, after one more.
LEMMA SinceExactAdds ==
  ASSUME Shape, NEW i \in Nat
  PROVE  /\ SinceExact(i) \in Nat
         /\ IsResync(i) => SinceExact(i + 1) = 0
         /\ ~IsResync(i) => SinceExact(i + 1) = IF joint = "quat" THEN 1 ELSE SinceExact(i) + 1
<1>1. CASE resync = 0
  BY <1>1 DEF SinceExact, IsResync
<1>2. CASE resync # 0
  <2>1. resync \in Nat \ {0} /\ i % resync \in Nat
    BY <1>2 DEF Shape
  <2>2. (i + 1) % resync # 0 => (i + 1) % resync = (i % resync) + 1
    BY <2>1, Successor
  <2> QED
    BY <1>2, <2>1, <2>2 DEF SinceExact, IsResync
<1> QED
  BY <1>1, <1>2

LEMMA ForwardIInv == IInv /\ ForwardSample => IInv'
<1> SUFFICES ASSUME IInv, NEW p \in Samples[joint],
                    Encode2D(p) \/ EncodeBlock3D(p) \/ EncodeBlockQuat(p)
             PROVE  IInv'
  BY DEF ForwardSample
<1> DEFINE i == Len(rec)
           quaternion == joint = "quat"
           origin == IF quaternion THEN Zero ELSE recPos
           target == IF quaternion THEN p ELSE RodTarget(p)
<1>0. Shape /\ Drift /\ i \in Nat /\ resync \in Nat /\ quant \in Nat \ {0} /\ joint \in Joints
  BY DEF IInv, Shape
<1>1. p \in Vector /\ Zero \in Vector
  BY <1>0 DEF Vector, Axes, Zero
<1>2. origin \in Vector /\ target \in Vector
  BY <1>0, <1>1, VectorSums DEF RodTarget, Shape
<1>3. Encode(p, target, origin) /\ origin = Origin(recPos)
  BY DEF Encode2D, EncodeBlock3D, EncodeBlockQuat, Origin
<1> HIDE DEF origin, target
<1>4. /\ Shape' /\ BlocksFit' /\ InLockstep' /\ OneAhead'
      /\ Len(rec') = i + 1 /\ point' = p /\ UNCHANGED <<joint, quant, resync>>
      /\ \A k \in Axes : Abs(recPos'[k] - origin[k] - target[k]) <= StepOf(i) \div 2
  BY <1>1, <1>2, <1>3, EncodeStep
<1>5. ASSUME NEW k \in Axes
      PROVE  Abs(recPos'[k] - p[k]) <= SinceExact(i + 1) * (quant \div 2)
  <2> DEFINE e == recPos'[k] - origin[k] - target[k]
             h == quant \div 2
  <2>1. /\ recPos'[k] \in Int /\ origin[k] \in Int /\ target[k] \in Int /\ p[k] \in Int
        /\ recPos[k] \in Int /\ point[k] \in Int
    <3>1. recPos' \in [Axes -> Int]
      BY <1>4 DEF Shape, Vector, Axes
    <3> QED
      BY <1>0, <1>1, <1>2, <3>1 DEF Shape, Vector
  <2>2. e \in Int /\ Abs(e) <= StepOf(i) \div 2 /\ h \in Nat
    BY <1>0, <1>4, <2>1
  <2>3. /\ SinceExact(i) \in Nat
        /\ IsResync(i) => SinceExact(i + 1) = 0
        /\ ~IsResync(i) => SinceExact(i + 1) = IF quaternion THEN 1 ELSE SinceExact(i) + 1
    BY <1>0, SinceExactAdds
  <2>4. CASE IsResync(i)
    <3>1. StepOf(i) \div 2 = 0
      BY <2>4 DEF StepOf
    <3>2. origin[k] + target[k] = p[k]
      <4>1. quaternion => origin[k] = 0 /\ target[k] = p[k]
        BY DEF origin, target, Zero
      <4>2. ~quaternion => origin[k] = recPos[k] /\ target[k] = p[k] - recPos[k]
        BY <2>4 DEF origin, target, RodTarget, Minus
      <4> QED
        BY <2>1, <4>1, <4>2
    <3>3. e = recPos'[k] - p[k]
      BY <2>1, <3>2
    <3> HIDE DEF e
    <3>4. Abs(recPos'[k] - p[k]) <= 0
      BY <2>2, <3>1, <3>3
    <3> QED
      BY <2>2, <2>3, <2>4, <3>4
  <2>5. CASE ~IsResync(i) /\ quaternion
    <3>1. origin[k] = 0 /\ target[k] = p[k] /\ StepOf(i) = quant
      BY <2>5 DEF origin, target, Zero, StepOf
    <3>2. e = recPos'[k] - p[k]
      BY <2>1, <3>1
    <3> HIDE DEF e
    <3>3. Abs(recPos'[k] - p[k]) <= 1 * h
      BY <2>2, <3>1, <3>2
    <3> QED
      BY <2>3, <2>5, <3>3
  <2>6. CASE ~IsResync(i) /\ ~quaternion
    <3>1. origin[k] = recPos[k] /\ target[k] = p[k] - point[k] /\ StepOf(i) = quant
      BY <2>6 DEF origin, target, RodTarget, Minus, StepOf
    <3> DEFINE a == recPos[k] - point[k]
    <3>2. a \in Int /\ recPos'[k] - p[k] = a + e
      BY <2>1, <3>1
    <3>3. Abs(a) <= SinceExact(i) * h /\ Abs(e) <= h
      BY <1>0, <2>2, <3>1 DEF Drift
    <3> HIDE DEF a, e, h
    <3>4. Abs(a + e) <= (SinceExact(i) + 1) * h
      BY <2>2, <2>3, <3>2, <3>3, DriftAdds
    <3> QED
      BY <2>3, <2>6, <3>2, <3>4 DEF h
  <2> QED
    BY <2>4, <2>5, <2>6
<1>6. Drift'
  <2>1. Axes' = Axes /\ SinceExact(Len(rec))' = SinceExact(i + 1)
    BY <1>4 DEF Axes, SinceExact
  <2> QED
    BY <1>4, <1>5, <2>1 DEF Drift
<1> QED
  BY <1>4, <1>6 DEF IInv

LEMMA InverseIInv == IInv /\ InverseSample => IInv'
<1> SUFFICES ASSUME IInv, InverseSample PROVE IInv'
  OBVIOUS
<1> DEFINE last == Len(ends)
<1>0. Shape /\ BlocksFit /\ OneAhead /\ Drift
  BY DEF IInv
<1>1. /\ pc = "inverse"
      /\ out' = Append(out, Decoded) /\ outPos' = Plus(Origin(outPos), Decoded)
      /\ pc' = IF Len(out) + 1 = ends[last] THEN "calibrate" ELSE "forward"
      /\ UNCHANGED <<joint, adaptive, quant, resync, calib, ends, point, rec, recPos, residual>>
  BY DEF InverseSample, Inverse2D, Inverse3D, InverseQuat, Decode, Origin, setup
<1>2. out' = rec /\ outPos' = recPos
  BY <1>0, <1>1 DEF OneAhead
<1>3. Vector' = Vector /\ Calibration' = Calibration /\ Axes' = Axes
  BY <1>1 DEF Vector, Calibration, Axes
<1>4. Shape'
  BY <1>0, <1>1, <1>2, <1>3 DEF Shape
<1>5. Len(out') = Len(out) + 1 /\ Len(out) \in Nat /\ last \in Nat
  BY <1>0, <1>1 DEF Shape
<1>6. BlocksFit'
  <2>1. /\ ends # <<>> /\ Len(out) < ends[last] /\ ends[last] \in Nat
        /\ last > 1 => ends[last - 1] <= Len(out) /\ ends[last - 1] \in Nat
    <3>1. ends # <<>> /\ Len(out) < ends[last] /\ (last > 1 => ends[last - 1] <= Len(out))
      BY <1>0, <1>1 DEF BlocksFit
    <3>2. last \in 1 .. Len(ends) /\ (last > 1 => last - 1 \in 1 .. Len(ends))
      BY <1>0, <1>5, <3>1 DEF Shape
    <3> QED
      BY <1>0, <3>1, <3>2 DEF Shape
  <2>2. CASE Len(out) + 1 = ends[last]
    BY <1>0, <1>1, <1>5, <2>1, <2>2 DEF BlocksFit
  <2>3. CASE Len(out) + 1 # ends[last]
    BY <1>0, <1>1, <1>5, <2>1, <2>3 DEF BlocksFit
  <2> QED
    BY <2>2, <2>3
<1>7. InLockstep' /\ OneAhead'
  BY <1>1, <1>2 DEF InLockstep, OneAhead
<1>8. Drift'
  BY <1>0, <1>1, <1>3 DEF Drift, SinceExact
<1> QED
  BY <1>4, <1>6, <1>7, <1>8 DEF IInv

LEMMA StutterIInv == IInv /\ UNCHANGED vars => IInv'
<1> SUFFICES ASSUME IInv, UNCHANGED vars PROVE IInv'
  OBVIOUS
<1>1. UNCHANGED <<joint, adaptive, quant, resync, pc, calib, ends, point, rec, recPos,
                  residual, out, outPos>>
  BY DEF vars, setup
<1>2. Shape'
  BY <1>1 DEF IInv, Shape, Vector, Calibration, Axes
<1>3. BlocksFit' /\ InLockstep' /\ Drift'
  BY <1>1 DEF IInv, BlocksFit, InLockstep, Drift, Axes, SinceExact
<1>4. OneAhead'
  <2>1. Decoded' = Decoded /\ Plus(Origin(outPos), Decoded)' = Plus(Origin(outPos), Decoded)
    BY <1>1 DEF Decoded, BlockOf, BlockFromLengths, PredictedFrom, MulRound, StepOf,
                IsResync, Plus, Times, Zero, Axes, Origin
  <2> QED
    BY <1>1, <2>1 DEF IInv, OneAhead
<1> QED
  BY <1>2, <1>3, <1>4 DEF IInv

\* The invariant holds of every path of every joint.
THEOREM Invariance == Spec => []IInv
<1>1. IInv /\ [Next]_vars => IInv'
  BY CalibrateIInv, ForwardIInv, InverseIInv, StutterIInv DEF Next
<1> QED
  BY InitIInv, <1>1, PTL DEF Spec

\* The decoder has the samples the encoder predicted from: prediction is closed-loop
\* whatever the coefficients, the lag, the step and the placement of the blocks.
THEOREM Lockstep == Spec => []InLockstep
<1>1. IInv => InLockstep
  BY DEF IInv
<1> QED
  BY Invariance, <1>1, PTL

\* A lossy path drifts by at most half a step per rod since the last resync, an
\* orientation is never off by more than half a step.
THEOREM BoundedDrift == Spec => []DriftBounded
<1>1. IInv => DriftBounded
  BY DEF IInv, InLockstep, Drift, DriftBounded
<1> QED
  BY Invariance, <1>1, PTL

\* With a step of one every path is reproduced exactly, however bad the fit.
THEOREM LosslessPath == Spec => []Lossless
<1>1. IInv => Lossless
  <2> SUFFICES ASSUME IInv, pc # "inverse", quant = 1 PROVE outPos = point
    BY DEF Lossless
  <2>1. outPos = recPos /\ Drift /\ Shape
    BY DEF IInv, InLockstep
  <2>2. SinceExact(Len(rec)) \in Nat /\ quant \div 2 = 0
    <3>1. Len(rec) \in Nat
      BY <2>1 DEF Shape
    <3> QED
      BY <2>1, <3>1, SinceExactAdds
  <2>3. SinceExact(Len(rec)) * (quant \div 2) = 0
    BY <2>2
  <2>4. recPos \in Vector /\ point \in Vector
    BY <2>1 DEF Shape
  <2>5. \A k \in Axes : recPos[k] = point[k]
    BY <2>1, <2>3, <2>4 DEF Drift, Abs, Vector
  <2> QED
    BY <2>1, <2>4, <2>5 DEF Vector
<1> QED
  BY Invariance, <1>1, PTL
-----------------------------------------------------------------------------
\* What counts up from zero reaches every number: the induction that the facts about
\* the recursive functions rest on.
LEMMA Least ==
  ASSUME NEW S, S \subseteq Nat, S # {}
  PROVE  \E m \in S : \A n \in S : m <= n
<1>1. PICK m \in S : \A n \in S : <<n, m>> \notin OpToRel(<, Nat)
  BY NatLessThanWellFounded, WFMin, Zenon
<1>2. ASSUME NEW n \in S PROVE m <= n
  <2>1. n \in Nat /\ m \in Nat
    OBVIOUS
  <2>2. ~ (n < m)
    BY <1>1, <2>1 DEF OpToRel
  <2> QED BY <2>1, <2>2
<1> QED BY <1>2

\* Induction over 0 .. n.
LEMMA Climb ==
  ASSUME NEW n \in Nat, NEW S, 0 \in S, \A l \in 1 .. n : l - 1 \in S => l \in S
  PROVE  \A l \in 0 .. n : l \in S
<1> DEFINE Out == {l \in 0 .. n : l \notin S}
<1> SUFFICES ASSUME Out # {} PROVE FALSE
  OBVIOUS
<1>1. PICK m \in Out : \A l \in Out : m <= l
  <2>1. Out \subseteq Nat
    OBVIOUS
  <2> HIDE DEF Out
  <2> QED BY <2>1, Least
<1>2. m \in 1 .. n /\ m - 1 \in 0 .. n /\ ~ (m <= m - 1)
  OBVIOUS
<1>3. m - 1 \in S
  BY <1>1, <1>2
<1> QED BY <1>1, <1>2, <1>3

\* What starts at c and goes from each value to the next by G.
Follows(f, n, c, G) == f[0] = c /\ \A l \in 1 .. n : f[l] = G[<<l, f[l - 1]>>]

\* A function on 0 .. n may be given by its first value and the step from one value to
\* the next.
LEMMA Recursion ==
  ASSUME NEW n \in Nat, NEW S, NEW c \in S, NEW G \in [(1 .. n) \X S -> S]
  PROVE  \E f \in [0 .. n -> S] : Follows(f, n, c, G)
<1> DEFINE Upto(m, f) == f \in [0 .. m -> S] /\ f[0] = c
                         /\ \A l \in 1 .. m : f[l] = G[<<l, f[l - 1]>>]
           T == {m \in 0 .. n : \E f : Upto(m, f)}
<1>1. 0 \in T
  <2>1. Upto(0, [l \in 0 .. 0 |-> c])
    OBVIOUS
  <2> HIDE DEF Upto
  <2> QED BY <2>1
<1>2. ASSUME NEW m \in 1 .. n, m - 1 \in T PROVE m \in T
  <2>1. PICK f : Upto(m - 1, f)
    BY <1>2
  <2>2. m - 1 \in 0 .. m - 1 /\ m \in Nat /\ m # 0
    OBVIOUS
  <2> DEFINE g == [l \in 0 .. m |-> IF l = m THEN G[<<m, f[m - 1]>>] ELSE f[l]]
  <2>3. f[m - 1] \in S
    BY <2>1, <2>2
  <2>4. G[<<m, f[m - 1]>>] \in S
    BY <2>3
  <2>5. \A l \in 0 .. m : l # m => l \in 0 .. m - 1
    BY <2>2
  <2>6. g \in [0 .. m -> S]
    BY <2>1, <2>4, <2>5
  <2>7. g[0] = c
    BY <2>1, <2>2
  <2>8. ASSUME NEW l \in 1 .. m PROVE g[l] = G[<<l, g[l - 1]>>]
    <3>1. l - 1 \in 0 .. m /\ l - 1 # m /\ l \in 0 .. m
      BY <2>2
    <3>2. g[l - 1] = f[l - 1]
      BY <3>1
    <3>3. CASE l = m
      BY <3>1, <3>2, <3>3
    <3>4. CASE l # m
      <4>1. l \in 1 .. m - 1
        BY <2>2, <3>4
      <4> QED BY <2>1, <3>1, <3>2, <3>4, <4>1
    <3> QED BY <3>3, <3>4
  <2>9. Upto(m, g)
    <3> HIDE DEF g
    <3> QED BY <2>6, <2>7, <2>8
  <2> HIDE DEF Upto, g
  <2> QED BY <2>9
<1>3. n \in T
  <2> HIDE DEF T
  <2>1. \A l \in 0 .. n : l \in T
    BY <1>1, <1>2, Climb
  <2> QED BY <2>1
<1> QED BY <1>3 DEF Follows
-----------------------------------------------------------------------------
\* The running totals.
LEMMA TotalsAre ==
  ASSUME NEW n \in Nat, NEW f \in [1 .. n -> Nat]
  PROVE  /\ \A l \in 0 .. n : Totals(f, n)[l] \in Nat
         /\ \A l \in 1 .. n : Totals(f, n)[l] = Totals(f, n)[l - 1] + f[l]
         /\ \A k, l \in 0 .. n : k <= l => Totals(f, n)[k] <= Totals(f, n)[l]
<1> DEFINE Eq(t) == t = [l \in 0 .. n |-> IF l = 0 THEN 0 ELSE t[l - 1] + f[l]]
           total == CHOOSE t : Eq(t)
<1>1. Totals(f, n) = total
  BY Zenon DEF Totals
<1>2. Eq(total)
  <2> DEFINE G == [x \in (1 .. n) \X Nat |-> x[2] + f[x[1]]]
  <2>1. G \in [(1 .. n) \X Nat -> Nat]
    OBVIOUS
  <2>2. \A l \in 1 .. n, v \in Nat : G[<<l, v>>] = v + f[l]
    OBVIOUS
  <2> HIDE DEF G
  <2>3. PICK t \in [0 .. n -> Nat] : Follows(t, n, 0, G)
    <3>1. 0 \in Nat
      OBVIOUS
    <3> QED BY <2>1, <3>1, Recursion, Zenon
  <2>4. ASSUME NEW l \in 0 .. n PROVE t[l] = IF l = 0 THEN 0 ELSE t[l - 1] + f[l]
    <3>1. CASE l # 0
      <4>1. l \in 1 .. n /\ l - 1 \in 0 .. n
        BY <3>1
      <4>2. t[l - 1] \in Nat
        BY <4>1
      <4> QED BY <2>2, <2>3, <3>1, <4>1, <4>2 DEF Follows
    <3> QED BY <2>3, <3>1 DEF Follows
  <2>5. Eq(t)
    BY <2>4
  <2> QED BY <2>5, Zenon
<1> HIDE DEF total
<1>3. total[0] = 0 /\ \A l \in 1 .. n : total[l] = total[l - 1] + f[l]
  <2>1. \A l \in 0 .. n : total[l] = IF l = 0 THEN 0 ELSE total[l - 1] + f[l]
    BY <1>2
  <2> QED BY <2>1
<1>4. \A l \in 0 .. n : total[l] \in Nat
  <2> DEFINE S == {l \in 0 .. n : total[l] \in Nat}
  <2>1. 0 \in S
    BY <1>3
  <2>2. \A l \in 1 .. n : l - 1 \in S => l \in S
    BY <1>3
  <2> HIDE DEF S
  <2>3. \A l \in 0 .. n : l \in S
    BY <2>1, <2>2, Climb
  <2> QED BY <2>3 DEF S
<1>5. ASSUME NEW k \in 0 .. n PROVE \A l \in 0 .. n : k <= l => total[k] <= total[l]
  <2> DEFINE S == {l \in 0 .. n : k <= l => total[k] <= total[l]}
  <2>1. 0 \in S
    BY <1>4
  <2>2. ASSUME NEW l \in 1 .. n, l - 1 \in S PROVE l \in S
    <3>1. l - 1 \in 0 .. n /\ l \in 0 .. n
      OBVIOUS
    <3>2. total[k] \in Nat /\ total[l] \in Nat /\ total[l - 1] \in Nat /\ f[l] \in Nat
      BY <1>4, <3>1
    <3>3. CASE k <= l - 1
      BY <1>3, <2>2, <3>1, <3>2, <3>3
    <3>4. CASE k = l
      BY <3>1, <3>2, <3>4
    <3>5. CASE k > l
      BY <3>1, <3>5
    <3> QED BY <3>1, <3>3, <3>4, <3>5
  <2> HIDE DEF S
  <2>3. \A l \in 0 .. n : l \in S
    BY <2>1, <2>2, Climb
  <2> QED BY <2>3 DEF S
<1> QED BY <1>1, <1>3, <1>4, <1>5

\* The running maxima.
LEMMA MaximaAre ==
  ASSUME NEW n \in Nat, NEW f \in [1 .. n -> Nat]
  PROVE  /\ \A l \in 0 .. n : Maxima(f, n)[l] \in Nat
         /\ \A l \in 0 .. n : \A k \in 1 .. l : f[k] <= Maxima(f, n)[l]
<1> DEFINE Eq(t) == t = [l \in 0 .. n |-> IF l = 0 THEN 0 ELSE IF f[l] > t[l - 1] THEN f[l] ELSE t[l - 1]]
           most == CHOOSE t : Eq(t)
<1>1. Maxima(f, n) = most
  BY Zenon DEF Maxima
<1>2. Eq(most)
  <2> DEFINE G == [x \in (1 .. n) \X Nat |-> IF f[x[1]] > x[2] THEN f[x[1]] ELSE x[2]]
  <2>1. G \in [(1 .. n) \X Nat -> Nat]
    OBVIOUS
  <2>2. \A l \in 1 .. n, v \in Nat : G[<<l, v>>] = IF f[l] > v THEN f[l] ELSE v
    OBVIOUS
  <2> HIDE DEF G
  <2>3. PICK t \in [0 .. n -> Nat] : Follows(t, n, 0, G)
    <3>1. 0 \in Nat
      OBVIOUS
    <3> QED BY <2>1, <3>1, Recursion, Zenon
  <2>4. ASSUME NEW l \in 0 .. n
        PROVE  t[l] = IF l = 0 THEN 0 ELSE IF f[l] > t[l - 1] THEN f[l] ELSE t[l - 1]
    <3>1. CASE l # 0
      <4>1. l \in 1 .. n /\ l - 1 \in 0 .. n
        BY <3>1
      <4>2. t[l - 1] \in Nat
        BY <4>1
      <4> QED BY <2>2, <2>3, <3>1, <4>1, <4>2 DEF Follows
    <3> QED BY <2>3, <3>1 DEF Follows
  <2>5. Eq(t)
    BY <2>4
  <2> QED BY <2>5, Zenon
<1> HIDE DEF most
<1>3. /\ most[0] = 0
      /\ \A l \in 1 .. n : most[l] = IF f[l] > most[l - 1] THEN f[l] ELSE most[l - 1]
  <2>1. \A l \in 0 .. n :
          most[l] = IF l = 0 THEN 0 ELSE IF f[l] > most[l - 1] THEN f[l] ELSE most[l - 1]
    BY <1>2
  <2>2. 0 \in 0 .. n /\ \A l \in 1 .. n : l \in 0 .. n /\ l # 0
    OBVIOUS
  <2>3. most[0] = 0
    BY <2>1, <2>2
  <2>4. ASSUME NEW l \in 1 .. n PROVE most[l] = IF f[l] > most[l - 1] THEN f[l] ELSE most[l - 1]
    <3>1. l \in 0 .. n /\ l # 0
      BY <2>2
    <3> HIDE DEF most
    <3> QED BY <2>1, <3>1, Zenon
  <2> QED BY <2>3, <2>4
<1> DEFINE S == {l \in 0 .. n : most[l] \in Nat /\ \A k \in 1 .. l : f[k] <= most[l]}
<1>4. 0 \in S
  BY <1>3
<1>5. ASSUME NEW l \in 1 .. n, l - 1 \in S PROVE l \in S
  <2>1. most[l - 1] \in Nat /\ f[l] \in Nat /\ l \in 0 .. n
    BY <1>5
  <2>2. most[l] = IF f[l] > most[l - 1] THEN f[l] ELSE most[l - 1]
    BY <1>3
  <2>3. most[l] \in Nat /\ most[l - 1] <= most[l] /\ f[l] <= most[l]
    BY <2>1, <2>2
  <2>4. ASSUME NEW k \in 1 .. l PROVE f[k] <= most[l]
    <3>1. CASE k = l
      BY <2>3, <3>1
    <3>2. CASE k # l
      <4>1. k \in 1 .. l - 1 /\ k \in 1 .. n
        BY <3>2
      <4>2. f[k] <= most[l - 1] /\ f[k] \in Nat
        BY <1>5, <4>1
      <4> QED BY <2>1, <2>3, <4>2
    <3> QED BY <3>1, <3>2
  <2> QED BY <2>1, <2>3, <2>4
<1> HIDE DEF S
<1>6. \A l \in 0 .. n : l \in S
  BY <1>4, <1>5, Climb
<1> QED BY <1>1, <1>6 DEF S
-----------------------------------------------------------------------------
\* The lengths of the levels: f doubles from 1 to p.
Doubles(f, k, p) ==
  f \in [0 .. k -> Nat \ {0}] /\ f[0] = 1 /\ f[k] = p /\ \A l \in 1 .. k : f[l] = 2 * f[l - 1]

IsPower(p) == \E k \in Nat : \E f : Doubles(f, k, p)

\* One is a power, and powers are closed under doubling and halving.
LEMMA PowerOne == IsPower(1)
<1>1. Doubles([l \in 0 .. 0 |-> 1], 0, 1)
  BY DEF Doubles
<1> QED BY <1>1 DEF IsPower

LEMMA PowerPositive ==
  ASSUME NEW p, IsPower(p)
  PROVE  p \in Nat /\ p >= 1
<1>1. PICK k \in Nat : \E f : Doubles(f, k, p)
  BY DEF IsPower
<1> QED BY <1>1 DEF Doubles

LEMMA PowerDouble ==
  ASSUME NEW p, IsPower(p)
  PROVE  IsPower(2 * p)
<1>0. PICK k \in Nat : \E f : Doubles(f, k, p)
  BY DEF IsPower
<1>1. PICK f : Doubles(f, k, p)
  BY <1>0
<1> DEFINE g == [l \in 0 .. k + 1 |-> IF l = k + 1 THEN 2 * p ELSE f[l]]
<1>2. p \in Nat /\ p >= 1
  BY PowerPositive
<1>3. \A l \in 0 .. k : l \in 0 .. k + 1 /\ l # k + 1
  OBVIOUS
<1>4. \A l \in 0 .. k + 1 : l # k + 1 => l \in 0 .. k
  OBVIOUS
<1>5. g \in [0 .. k + 1 -> Nat \ {0}]
  BY <1>1, <1>2, <1>4 DEF Doubles
<1>6. g[0] = 1 /\ g[k + 1] = 2 * p
  BY <1>1 DEF Doubles
<1>7. ASSUME NEW l \in 1 .. k + 1 PROVE g[l] = 2 * g[l - 1]
  <2>1. l - 1 \in 0 .. k /\ l \in 0 .. k + 1
    OBVIOUS
  <2>2. g[l - 1] = f[l - 1]
    BY <1>3, <2>1
  <2>3. CASE l = k + 1
    <3>1. l - 1 = k
      BY <2>3
    <3> QED BY <1>1, <2>1, <2>2, <2>3, <3>1 DEF Doubles
  <2>4. CASE l # k + 1
    <3>1. l \in 1 .. k
      BY <2>4
    <3> QED BY <1>1, <2>1, <2>2, <2>4, <3>1 DEF Doubles
  <2> QED BY <2>3, <2>4
<1> HIDE DEF g
<1>8. Doubles(g, k + 1, 2 * p)
  BY <1>5, <1>6, <1>7 DEF Doubles
<1> QED BY <1>8 DEF IsPower

LEMMA PowerHalf ==
  ASSUME NEW p, IsPower(p), p # 1
  PROVE  p = 2 * (p \div 2) /\ IsPower(p \div 2)
<1>0. PICK k \in Nat : \E f : Doubles(f, k, p)
  BY DEF IsPower
<1>1. PICK f : Doubles(f, k, p)
  BY <1>0
<1>2. k # 0
  BY <1>1 DEF Doubles
<1> DEFINE h == f[k - 1]
           g == [l \in 0 .. k - 1 |-> f[l]]
<1>3. k - 1 \in Nat /\ k - 1 \in 0 .. k /\ k \in 1 .. k
  BY <1>2
<1>4. h \in Nat /\ p = 2 * h
  BY <1>1, <1>3 DEF Doubles
<1>5. h = p \div 2
  <2> HIDE DEF h
  <2> QED BY <1>4
<1>6. Doubles(g, k - 1, h)
  <2>1. \A l \in 0 .. k - 1 : l \in 0 .. k
    OBVIOUS
  <2>2. g \in [0 .. k - 1 -> Nat \ {0}]
    BY <1>1, <2>1 DEF Doubles
  <2>3. g[0] = 1 /\ g[k - 1] = h
    BY <1>1, <1>3 DEF Doubles
  <2>4. ASSUME NEW l \in 1 .. k - 1 PROVE g[l] = 2 * g[l - 1]
    <3>1. l \in 1 .. k /\ l - 1 \in 0 .. k - 1 /\ l \in 0 .. k - 1
      OBVIOUS
    <3> QED BY <1>1, <3>1 DEF Doubles
  <2> HIDE DEF g
  <2> QED BY <2>2, <2>3, <2>4 DEF Doubles
<1>7. IsPower(h)
  BY <1>3, <1>6 DEF IsPower
<1> HIDE DEF h
<1> QED BY <1>4, <1>5, <1>7

\* next_pow2 finds a power of two that is long enough.
LEMMA NextPow2Is ==
  ASSUME NEW n \in Nat
  PROVE  IsPower(NextPow2(n)) /\ NextPow2(n) >= n
<1> DEFINE Eq(p) == p = [k \in 0 .. n |-> IF k = 0 THEN 1 ELSE IF p[k - 1] < n THEN 2 * p[k - 1] ELSE p[k - 1]]
           p == CHOOSE x : Eq(x)
<1>1. NextPow2(n) = p[n]
  BY Zenon DEF NextPow2
<1>2. Eq(p)
  <2> DEFINE G == [x \in (1 .. n) \X Nat |-> IF x[2] < n THEN 2 * x[2] ELSE x[2]]
  <2>1. G \in [(1 .. n) \X Nat -> Nat]
    OBVIOUS
  <2>2. \A l \in 1 .. n, v \in Nat : G[<<l, v>>] = IF v < n THEN 2 * v ELSE v
    OBVIOUS
  <2> HIDE DEF G
  <2>3. PICK t \in [0 .. n -> Nat] : Follows(t, n, 1, G)
    <3>1. 1 \in Nat
      OBVIOUS
    <3> QED BY <2>1, <3>1, Recursion, Zenon
  <2>4. ASSUME NEW l \in 0 .. n
        PROVE  t[l] = IF l = 0 THEN 1 ELSE IF t[l - 1] < n THEN 2 * t[l - 1] ELSE t[l - 1]
    <3>1. CASE l # 0
      <4>1. l \in 1 .. n /\ l - 1 \in 0 .. n
        BY <3>1
      <4>2. t[l - 1] \in Nat
        BY <4>1
      <4> QED BY <2>2, <2>3, <3>1, <4>1, <4>2 DEF Follows
    <3> QED BY <2>3, <3>1 DEF Follows
  <2>5. Eq(t)
    BY <2>4
  <2> QED BY <2>5, Zenon
<1> HIDE DEF p
<1>3. p[0] = 1 /\ \A l \in 1 .. n : p[l] = IF p[l - 1] < n THEN 2 * p[l - 1] ELSE p[l - 1]
  <2>1. \A l \in 0 .. n : p[l] = IF l = 0 THEN 1 ELSE IF p[l - 1] < n THEN 2 * p[l - 1] ELSE p[l - 1]
    BY <1>2
  <2> QED BY <2>1
<1> DEFINE S == {l \in 0 .. n : IsPower(p[l]) /\ (p[l] >= n \/ p[l] > l)}
<1>4. 0 \in S
  BY <1>3, PowerOne
<1>5. ASSUME NEW l \in 1 .. n, l - 1 \in S PROVE l \in S
  <2>1. IsPower(p[l - 1]) /\ (p[l - 1] >= n \/ p[l - 1] > l - 1) /\ l \in 0 .. n
    BY <1>5
  <2>2. p[l - 1] \in Nat /\ p[l - 1] >= 1
    BY <2>1, PowerPositive
  <2>3. CASE p[l - 1] < n
    <3>1. p[l] = 2 * p[l - 1]
      BY <1>3, <2>3
    <3>2. IsPower(p[l])
      BY <2>1, <3>1, PowerDouble
    <3>3. p[l] > l
      BY <2>1, <2>2, <2>3, <3>1
    <3> QED BY <2>1, <3>2, <3>3
  <2>4. CASE ~ (p[l - 1] < n)
    <3>1. p[l] = p[l - 1] /\ p[l] >= n
      BY <1>3, <2>2, <2>4
    <3> QED BY <2>1, <3>1
  <2> QED BY <2>3, <2>4
<1>6. IsPower(p[n]) /\ (p[n] >= n \/ p[n] > n)
  <2> HIDE DEF S
  <2>1. \A l \in 0 .. n : l \in S
    BY <1>4, <1>5, Climb
  <2> QED BY <2>1 DEF S
<1>7. p[n] \in Nat
  BY <1>6, PowerPositive
<1> QED BY <1>1, <1>6, <1>7

\* Every pair has its block.
LEMMA BlocksFor ==
  ASSUME NEW h \in Nat
  PROVE  /\ NumBlocksFor(h) \in Nat
         /\ \A i \in 1 .. h : BlockOfPair(i) \in 1 .. NumBlocksFor(h)
<1> DEFINE b == PantographBlockSize
<1>1. b \in Nat \ {0}
  BY LiftAssumption
<1> HIDE DEF b
<1>2. ASSUME NEW m \in Nat PROVE m \div b \in Nat
  BY <1>1
<1>3. (h + b - 1) \div b \in Nat
  <2>1. h + b - 1 \in Nat
    BY <1>1
  <2> QED BY <1>2, <2>1
<1>4. ASSUME NEW i \in 1 .. h PROVE (i - 1) \div b + 1 \in 1 .. (h + b - 1) \div b
  <2> DEFINE q == (i - 1) \div b
             r == (h + b - 1) \div b
             u == (i - 1) % b
             v == (h + b - 1) % b
  <2>1. i - 1 \in Int /\ h + b - 1 \in Int /\ i - 1 \in Nat
    BY <1>1
  <2>2. q \in Nat /\ u \in 0 .. b - 1 /\ i - 1 = b * q + u
    BY <1>1, <1>2, <2>1, DivMod
  <2>3. r \in Nat /\ v \in 0 .. b - 1 /\ h + b - 1 = b * r + v
    BY <1>1, <1>3, <2>1, DivMod
  <2> HIDE DEF q, r, u, v
  <2>4. ASSUME r <= q PROVE FALSE
    <3>1. PICK k \in Nat : q = r + k
      <4>1. q - r \in Nat /\ q = r + (q - r)
        BY <2>2, <2>3, <2>4
      <4> QED BY <4>1
    <3>2. b * q = b * r + b * k /\ b * k \in Nat /\ b * r \in Nat
      BY <1>1, <2>3, <3>1
    <3>3. PICK x \in Nat : x = b * r
      BY <3>2
    <3>4. PICK y \in Nat : y = b * k
      BY <3>2
    <3> QED BY <1>1, <2>2, <2>3, <3>2, <3>3, <3>4
  <2>5. q + 1 \in 1 .. r
    BY <2>2, <2>3, <2>4
  <2> QED BY <2>5 DEF q, r
<1> QED BY <1>3, <1>4 DEF NumBlocksFor, BlockOfPair, b
-----------------------------------------------------------------------------
\* What the plan of a padded length promises: each level halves the one before it, and
\* the results of a level lie behind those of the levels before it, within the totals.
Halvings(pairs, P) ==
  /\ pairs \in [1 .. P -> Nat]
  /\ pairs[1] = P \div 2
  /\ \A l \in 2 .. P : pairs[l] = pairs[l - 1] \div 2
  /\ \A l \in 1 .. P : 2 * pairs[l] <= P

LevelFits(p, P, l) ==
  /\ l \in 1 .. P
  /\ p.pairs[l] \in Nat /\ 2 * p.pairs[l] <= P
  /\ p.blocks[l] \in Nat /\ p.blocks[l] <= p.maxBlocks
  /\ p.paramOff[l] \in Nat /\ p.paramOff[l] + p.blocks[l] <= p.totalBlocks
  /\ p.residOff[l] \in Nat /\ p.residOff[l] + p.pairs[l] <= p.totalResiduals

IsPlan(p, P) ==
  /\ Halvings(p.pairs, P)
  /\ p.numLevels = Cardinality({l \in 1 .. P : p.pairs[l] > 0}) /\ p.numLevels \in 0 .. P
  /\ p.gpuLevels \in 0 .. p.numLevels
  /\ p.totalResiduals \in Nat /\ p.totalBlocks \in Nat /\ p.maxBlocks \in Nat
  /\ \A l \in 1 .. p.gpuLevels : LevelFits(p, P, l)

\* A part of 1 .. n has no more than n elements.
LEMMA PartOfInterval ==
  ASSUME NEW n \in Nat, NEW S, S \subseteq 1 .. n
  PROVE  Cardinality(S) \in 0 .. n
<1>1. IsFiniteSet(1 .. n) /\ Cardinality(1 .. n) = n
  BY FS_Interval
<1>2. IsFiniteSet(S) /\ Cardinality(S) <= Cardinality(1 .. n)
  BY <1>1, FS_Subset, Zenon
<1>3. Cardinality(S) \in Nat
  BY <1>2, FS_CardinalityType
<1> QED BY <1>1, <1>2, <1>3

\* compute_level_plan keeps these promises for every padded length.
LEMMA PlanIs ==
  ASSUME NEW P \in Nat, P >= 1
  PROVE  IsPlan(LevelPlan(P), P)
<1> DEFINE Eq(f) == f = [l \in 1 .. P |-> (IF l = 1 THEN P ELSE f[l - 1]) \div 2]
           pairs == CHOOSE f : Eq(f)
           blocks == [l \in 1 .. P |-> NumBlocksFor(pairs[l])]
           numLevels == Cardinality({l \in 1 .. P : pairs[l] > 0})
           gpuLevels == Cardinality({l \in 1 .. numLevels : pairs[l] * 2 > TailCutoff})
           residEnd == Totals(pairs, P)
           paramEnd == Totals(blocks, P)
           plan == [numLevels |-> numLevels, gpuLevels |-> gpuLevels, pairs |-> pairs, blocks |-> blocks,
                    residOff |-> [l \in 1 .. gpuLevels |-> residEnd[l - 1]],
                    paramOff |-> [l \in 1 .. gpuLevels |-> paramEnd[l - 1]],
                    totalResiduals |-> residEnd[gpuLevels],
                    totalBlocks |-> paramEnd[gpuLevels],
                    maxBlocks |-> Maxima(blocks, P)[gpuLevels]]
<1>1. LevelPlan(P) = plan
  BY Zenon DEF LevelPlan
<1>2. Eq(pairs)
  <2> DEFINE G == [x \in (1 .. P) \X Nat |-> x[2] \div 2]
  <2>1. G \in [(1 .. P) \X Nat -> Nat]
    OBVIOUS
  <2>2. \A l \in 1 .. P, v \in Nat : G[<<l, v>>] = v \div 2
    OBVIOUS
  <2> HIDE DEF G
  <2>3. PICK t \in [0 .. P -> Nat] : Follows(t, P, P, G)
    BY <2>1, Recursion, Zenon
  <2> DEFINE f == [l \in 1 .. P |-> t[l]]
  <2>4. ASSUME NEW l \in 1 .. P PROVE f[l] = (IF l = 1 THEN P ELSE f[l - 1]) \div 2
    <3>1. l \in 0 .. P /\ l - 1 \in 0 .. P
      OBVIOUS
    <3>2. t[l - 1] \in Nat /\ f[l] = t[l]
      BY <3>1
    <3>3. t[l] = t[l - 1] \div 2
      BY <2>2, <2>3, <3>2 DEF Follows
    <3>4. l = 1 => t[l - 1] = P
      BY <2>3 DEF Follows
    <3>5. l # 1 => l - 1 \in 1 .. P
      OBVIOUS
    <3> QED BY <3>2, <3>3, <3>4, <3>5
  <2>5. f = [l \in 1 .. P |-> f[l]]
    OBVIOUS
  <2> HIDE DEF f
  <2>6. Eq(f)
    BY <2>4, <2>5
  <2> QED BY <2>6, Zenon
<1> HIDE DEF pairs
<1>3. \A l \in 1 .. P : pairs[l] = (IF l = 1 THEN P ELSE pairs[l - 1]) \div 2
  BY <1>2
<1>4. pairs[1] = P \div 2 /\ \A l \in 2 .. P : pairs[l] = pairs[l - 1] \div 2
  <2>1. 1 \in 1 .. P
    OBVIOUS
  <2>2. \A l \in 2 .. P : l \in 1 .. P /\ l # 1
    OBVIOUS
  <2> QED BY <1>3, <2>1, <2>2
<1>5. \A l \in 1 .. P : pairs[l] \in Nat /\ 2 * pairs[l] <= P
  <2> DEFINE S == {l \in 0 .. P : l # 0 => pairs[l] \in Nat /\ 2 * pairs[l] <= P}
  <2>1. 0 \in S
    OBVIOUS
  <2>2. ASSUME NEW l \in 1 .. P, l - 1 \in S PROVE l \in S
    <3>1. CASE l = 1
      BY <1>4, <3>1
    <3>2. CASE l # 1
      <4>1. l - 1 \in 1 .. P /\ l \in 2 .. P /\ l - 1 # 0
        BY <3>2
      <4>2. pairs[l - 1] \in Nat /\ 2 * pairs[l - 1] <= P
        BY <2>2, <4>1
      <4>3. pairs[l] = pairs[l - 1] \div 2
        BY <1>4, <4>1
      <4> QED BY <4>2, <4>3
    <3> QED BY <3>1, <3>2
  <2> HIDE DEF S
  <2>3. \A l \in 0 .. P : l \in S
    BY <2>1, <2>2, Climb
  <2>4. \A l \in 1 .. P : l \in 0 .. P /\ l # 0
    OBVIOUS
  <2> QED BY <2>3, <2>4 DEF S
<1>6. pairs \in [1 .. P -> Nat]
  <2>1. pairs = [l \in 1 .. P |-> pairs[l]]
    BY <1>2
  <2> QED BY <1>5, <2>1
<1>7. blocks \in [1 .. P -> Nat]
  BY <1>5, BlocksFor
<1>8. Halvings(pairs, P)
  BY <1>4, <1>5, <1>6 DEF Halvings
<1>9. numLevels \in 0 .. P
  BY PartOfInterval
<1> HIDE DEF numLevels
<1>10. gpuLevels \in 0 .. numLevels
  BY <1>9, PartOfInterval
<1> HIDE DEF gpuLevels, blocks
<1>11. /\ \A l \in 0 .. P : residEnd[l] \in Nat
       /\ \A l \in 1 .. P : residEnd[l] = residEnd[l - 1] + pairs[l]
       /\ \A k, l \in 0 .. P : k <= l => residEnd[k] <= residEnd[l]
  BY <1>6, TotalsAre
<1>12. /\ \A l \in 0 .. P : paramEnd[l] \in Nat
       /\ \A l \in 1 .. P : paramEnd[l] = paramEnd[l - 1] + blocks[l]
       /\ \A k, l \in 0 .. P : k <= l => paramEnd[k] <= paramEnd[l]
  BY <1>7, TotalsAre
<1> HIDE DEF residEnd, paramEnd
<1>13. /\ \A l \in 0 .. P : Maxima(blocks, P)[l] \in Nat
       /\ \A l \in 0 .. P : \A k \in 1 .. l : blocks[k] <= Maxima(blocks, P)[l]
  BY <1>7, MaximaAre
<1>14. gpuLevels \in 0 .. P
  BY <1>9, <1>10
<1>15. /\ plan.numLevels = numLevels /\ plan.gpuLevels = gpuLevels
       /\ plan.pairs = pairs /\ plan.blocks = blocks
       /\ plan.totalResiduals = residEnd[gpuLevels] /\ plan.totalBlocks = paramEnd[gpuLevels]
       /\ plan.maxBlocks = Maxima(blocks, P)[gpuLevels]
       /\ \A l \in 1 .. gpuLevels : /\ plan.residOff[l] = residEnd[l - 1]
                                    /\ plan.paramOff[l] = paramEnd[l - 1]
  OBVIOUS
<1> HIDE DEF plan
<1>16. ASSUME NEW l \in 1 .. gpuLevels PROVE LevelFits(plan, P, l)
  <2>1. l \in 1 .. P /\ l \in 0 .. P /\ l - 1 \in 0 .. P /\ l <= gpuLevels
    BY <1>14
  <2>2. residEnd[l] <= residEnd[gpuLevels] /\ paramEnd[l] <= paramEnd[gpuLevels]
    BY <1>11, <1>12, <1>14, <2>1
  <2>3. blocks[l] <= Maxima(blocks, P)[gpuLevels] /\ blocks[l] \in Nat
    BY <1>7, <1>13, <1>14, <2>1
  <2>4. residEnd[l - 1] \in Nat /\ paramEnd[l - 1] \in Nat
    BY <1>11, <1>12, <2>1
  <2>5. residEnd[l] = residEnd[l - 1] + pairs[l] /\ paramEnd[l] = paramEnd[l - 1] + blocks[l]
    BY <1>11, <1>12, <2>1
  <2>6. pairs[l] \in Nat /\ 2 * pairs[l] <= P
    BY <1>5, <2>1
  <2> QED BY <1>15, <2>1, <2>2, <2>3, <2>4, <2>5, <2>6 DEF LevelFits
<1>17. /\ residEnd[gpuLevels] \in Nat /\ paramEnd[gpuLevels] \in Nat
       /\ Maxima(blocks, P)[gpuLevels] \in Nat
  BY <1>11, <1>12, <1>13, <1>14
<1>18. numLevels = Cardinality({l \in 1 .. P : pairs[l] > 0})
  BY DEF numLevels
<1>19. IsPlan(plan, P)
  BY <1>8, <1>9, <1>10, <1>15, <1>16, <1>17, <1>18 DEF IsPlan
<1> QED BY <1>1, <1>19
-----------------------------------------------------------------------------
\* The groups of buffers are disjoint, and the buffers are those of the groups.
LEMMA GroupFacts ==
  /\ DOMAIN Groups = 1 .. 9
  /\ \A g \in 1 .. 9 : Groups[g] \subseteq Buffers
  /\ \A g, h \in 1 .. 9 : \A b : b \in Groups[g] /\ b \in Groups[h] => g = h
  /\ IsFiniteSet(Buffers)
  /\ \A g \in 1 .. 9 : \A got \in Given(g) : got \subseteq Groups[g]
<1>1. DOMAIN Groups = 1 .. 9
  BY DEF Groups
<1>2. ASSUME NEW g \in 1 .. 9 PROVE Groups[g] \subseteq Buffers
  BY <1>1 DEF Buffers
<1>3. /\ Groups[1] = {"bufA"} /\ Groups[2] = {"bufB"}
      /\ Groups[3] = {"sum_a", "sum_b", "sum_ab", "sum_aa"}
      /\ Groups[4] = {"ratios"} /\ Groups[5] = {"offsets"} /\ Groups[6] = {"residual"}
      /\ Groups[7] = {"residual_pinned"} /\ Groups[8] = {"ratios_pinned"}
      /\ Groups[9] = {"offsets_pinned"}
  BY DEF Groups
<1>4. ASSUME NEW g \in 1 .. 9
      PROVE  g = 1 \/ g = 2 \/ g = 3 \/ g = 4 \/ g = 5 \/ g = 6 \/ g = 7 \/ g = 8 \/ g = 9
  OBVIOUS
<1>5. ASSUME NEW g \in 1 .. 9, NEW h \in 1 .. 9, NEW b, b \in Groups[g], b \in Groups[h]
      PROVE  g = h
  BY <1>3, <1>4, <1>5
<1>6. IsFiniteSet(Buffers)
  <2>1. Buffers = ((((((((((({"bufA"} \cup {"bufB"}) \cup {"sum_a"}) \cup {"sum_b"}) \cup {"sum_ab"})
                     \cup {"sum_aa"}) \cup {"ratios"}) \cup {"offsets"}) \cup {"residual"})
                     \cup {"residual_pinned"}) \cup {"ratios_pinned"}) \cup {"offsets_pinned"})
    <3> DEFINE All == {"bufA", "bufB", "sum_a", "sum_b", "sum_ab", "sum_aa", "ratios", "offsets",
                       "residual", "residual_pinned", "ratios_pinned", "offsets_pinned"}
    <3>1. \A g \in 1 .. 9 : \A b \in Groups[g] : b \in All
      BY <1>3, <1>4
    <3>2. Buffers \subseteq All
      <4> HIDE DEF All
      <4> QED BY <1>1, <3>1 DEF Buffers
    <3>3. /\ Groups[1] \subseteq Buffers /\ Groups[2] \subseteq Buffers /\ Groups[3] \subseteq Buffers
          /\ Groups[4] \subseteq Buffers /\ Groups[5] \subseteq Buffers /\ Groups[6] \subseteq Buffers
          /\ Groups[7] \subseteq Buffers /\ Groups[8] \subseteq Buffers /\ Groups[9] \subseteq Buffers
      BY <1>2
    <3>4. All \subseteq Buffers
      BY <1>3, <3>3
    <3>5. Buffers = All
      BY <3>2, <3>4
    <3> HIDE DEF Buffers
    <3> QED BY <3>5
  <2> HIDE DEF Buffers
  <2>2. \A S, x : IsFiniteSet(S) => IsFiniteSet(S \cup {x})
    BY FS_AddElement
  <2>3. IsFiniteSet({"bufA"})
    BY FS_Singleton
  <2> QED BY <2>1, <2>2, <2>3
<1>7. ASSUME NEW g \in 1 .. 9, NEW got \in Given(g) PROVE got \subseteq Groups[g]
  BY <1>3 DEF Given
<1> QED BY <1>1, <1>2, <1>5, <1>6, <1>7

\* What is allocated, for all owners and for one.
Held(mem) == {h \in Owners \X Buffers : mem[h[1]][h[2]] > 0}
Mine(o, S) == {h \in Owners \X Buffers : h[1] = o /\ h[2] \in S}

\* So much can be counted: all of it, and one owner's part of it.
LEMMA HeldFinite == IsFiniteSet(Owners \X Buffers) /\ \A mem : IsFiniteSet(Held(mem))
<1>1. IsFiniteSet(Owners)
  <2>1. Owners = {"session"} \cup {"oneshot"}
    BY DEF Owners
  <2> QED BY <2>1, FS_Singleton, FS_AddElement
<1>2. IsFiniteSet(Owners \X Buffers)
  BY <1>1, GroupFacts, FS_Product
<1>3. ASSUME NEW mem PROVE IsFiniteSet(Held(mem))
  <2>1. Held(mem) \in SUBSET (Owners \X Buffers)
    BY DEF Held
  <2> QED BY <1>2, <2>1, FS_Subset
<1> QED BY <1>2, <1>3

LEMMA CountMine ==
  ASSUME NEW o \in Owners, NEW S, S \subseteq Buffers
  PROVE  IsFiniteSet(Mine(o, S)) /\ Cardinality(Mine(o, S)) = Cardinality(S) /\ IsFiniteSet(S)
         /\ Cardinality(S) \in Nat
<1> DEFINE f == [b \in S |-> <<o, b>>]
<1>1. IsFiniteSet(S)
  BY GroupFacts, FS_Subset
<1>2. \A b \in S : f[b] = <<o, b>> /\ f[b] \in Mine(o, S)
  BY DEF Mine
<1>3. f \in [S -> Mine(o, S)]
  BY <1>2
<1>4. \A b, c \in S : f[b] = f[c] => b = c
  BY <1>2
<1>5. \A h \in Mine(o, S) : \E b \in S : f[b] = h
  <2> SUFFICES ASSUME NEW h \in Mine(o, S) PROVE \E b \in S : f[b] = h
    OBVIOUS
  <2>1. h \in Owners \X Buffers /\ h[1] = o /\ h[2] \in S
    BY DEF Mine
  <2>2. h = <<o, h[2]>>
    BY <2>1
  <2> QED BY <1>2, <2>1, <2>2
<1> HIDE DEF f
<1>6. f \in Bijection(S, Mine(o, S))
  BY <1>3, <1>4, <1>5 DEF Bijection, Injection, Surjection, IsInjective
<1>7. ExistsBijection(S, Mine(o, S))
  BY <1>6 DEF ExistsBijection
<1> QED BY <1>1, <1>7, FS_Bijection, FS_CardinalityType

\* Of one owner's buffers those in D are given back and those in A, a part of them, are
\* there anew.
Renewed(mem, new, o, D, A) ==
  /\ mem \in [Owners -> [Buffers -> Nat]] /\ new \in [Owners -> [Buffers -> Nat]]
  /\ o \in Owners /\ D \subseteq Buffers /\ A \subseteq D
  /\ \A p \in Owners : p # o => new[p] = mem[p]
  /\ \A b \in Buffers : IF b \in A THEN new[o][b] > 0
                        ELSE IF b \in D THEN new[o][b] = 0 ELSE new[o][b] = mem[o][b]

\* What an owner frees and allocates changes the count by as much.
LEMMA CountRenewed ==
  ASSUME NEW mem, NEW new, NEW o, NEW D, NEW A, Renewed(mem, new, o, D, A)
  PROVE  Cardinality(Held(new))
           = Cardinality(Held(mem)) + Cardinality(A) - Cardinality({b \in D : mem[o][b] > 0})
<1> DEFINE F == {b \in D : mem[o][b] > 0}
           H == Held(mem)
<1>1. o \in Owners /\ D \subseteq Buffers /\ A \subseteq Buffers /\ F \subseteq Buffers
  BY DEF Renewed
<1>2. Held(new) = (H \ Mine(o, F)) \cup Mine(o, A)
  <2>1. ASSUME NEW h \in Owners \X Buffers
        PROVE  h \in Held(new) <=> (h \in H /\ h \notin Mine(o, F)) \/ h \in Mine(o, A)
    <3>1. h[1] \in Owners /\ h[2] \in Buffers
      OBVIOUS
    <3>2. CASE h[1] # o
      BY <3>1, <3>2 DEF Held, Mine, Renewed
    <3>3. CASE h[1] = o
      <4>1. CASE h[2] \in A
        BY <3>1, <3>3, <4>1 DEF Held, Mine, Renewed
      <4>2. CASE h[2] \notin A /\ h[2] \in D
        BY <3>1, <3>3, <4>2 DEF Held, Mine, Renewed
      <4>3. CASE h[2] \notin A /\ h[2] \notin D
        BY <3>1, <3>3, <4>3 DEF Held, Mine, Renewed
      <4> QED BY <4>1, <4>2, <4>3
    <3> QED BY <3>2, <3>3
  <2>2. Held(new) \subseteq Owners \X Buffers /\ H \subseteq Owners \X Buffers
        /\ Mine(o, A) \subseteq Owners \X Buffers
    BY DEF Held, Mine
  <2> HIDE DEF H, F
  <2> QED BY <2>1, <2>2
<1>3. H \cap Mine(o, F) = Mine(o, F)
  BY DEF Held, Mine, Renewed
<1>4. (H \ Mine(o, F)) \cap Mine(o, A) = {}
  <2> SUFFICES ASSUME NEW h \in H, h \notin Mine(o, F), h \in Mine(o, A) PROVE FALSE
    OBVIOUS
  <2>1. h \in Owners \X Buffers /\ h[1] = o /\ h[2] \in A /\ h[2] \in D /\ mem[h[1]][h[2]] > 0
    BY DEF Held, Mine, Renewed
  <2>2. h[2] \in F
    BY <2>1
  <2> QED BY <2>1, <2>2 DEF Mine
<1>5. IsFiniteSet(H) /\ Cardinality(H) \in Nat
  BY HeldFinite, FS_CardinalityType
<1>6. /\ Cardinality(Mine(o, F)) = Cardinality(F) /\ Cardinality(F) \in Nat
      /\ Cardinality(Mine(o, A)) = Cardinality(A) /\ Cardinality(A) \in Nat
      /\ IsFiniteSet(Mine(o, A))
  BY <1>1, CountMine
<1> HIDE DEF H, F
<1>7. IsFiniteSet(H \ Mine(o, F)) /\ Cardinality(H \ Mine(o, F)) = Cardinality(H) - Cardinality(F)
  <2>1. /\ IsFiniteSet(H \ Mine(o, F))
        /\ Cardinality(H \ Mine(o, F)) = Cardinality(H) - Cardinality(H \cap Mine(o, F))
    BY <1>5, FS_Difference, Zenon
  <2> QED BY <1>3, <1>6, <2>1
<1>8. Cardinality((H \ Mine(o, F)) \cup Mine(o, A))
        = Cardinality(H \ Mine(o, F)) + Cardinality(Mine(o, A)) - Cardinality({})
  BY <1>4, <1>6, <1>7, FS_Union
<1>9. Cardinality({}) = 0
  BY FS_EmptySet
<1>10. Cardinality(Held(new)) = Cardinality(H) - Cardinality(F) + Cardinality(A)
  BY <1>2, <1>5, <1>6, <1>7, <1>8, <1>9
<1> QED BY <1>5, <1>6, <1>10 DEF H, F
-----------------------------------------------------------------------------
\* The memory of the device.
OnDevice == stage \in {"ensure", "pipeline", "tail", "download"}

MemShape ==
  /\ call \in {"session", "oneshot", "cpu"}
  /\ stage \in {"idle", "ensure", "pipeline", "tail", "download", "cpu", "inverse", "ended"}
  /\ group \in 1 .. 10
  /\ input \in Seq(Int)
  /\ alloc \in [Owners -> [Buffers -> Nat]]
  /\ cap \in [Owners -> [1 .. 9 -> Nat]]

\* A capacity is there in every buffer it stands for.
Backed == \A o \in Owners, g \in 1 .. 9 : \A b \in Groups[g] : cap[o][g] <= alloc[o][b]

Counted == live = Cardinality(Held(alloc))

\* A one-shot call holds memory as long as it is on the device, the session as long as
\* the thread runs.
Released1 == \/ OnDevice /\ call = "oneshot"
             \/ \A b \in Buffers : alloc["oneshot"][b] = 0
Released2 == stage = "ended" => \A b \in Buffers : alloc["session"][b] = 0

\* The groups a call has ensured are large enough for it.
Ensured ==
  /\ OnDevice => call \in Owners
  /\ stage = "ensure" => group \in 1 .. 9
  /\ stage \in {"pipeline", "tail"} => group = 7
  /\ stage = "download" => group = 10
  /\ OnDevice => \A g \in 1 .. 9 : g < group => Need(g) <= cap[call][g]

\* The inductive invariant of the memory.
MemInv == MemShape /\ Backed /\ Counted /\ Released1 /\ Released2 /\ Ensured

\* The plan of a call, and what it asks for.
LEMMA PlanOfInput ==
  ASSUME input \in Seq(Int)
  PROVE  LET P == NextPow2(Len(input))
         IN  P \in Nat /\ P >= 1 /\ P >= Len(input) /\ IsPower(P) /\ IsPlan(Plan, P)
<1> DEFINE P == NextPow2(Len(input))
<1>1. Len(input) \in Nat
  OBVIOUS
<1>2. IsPower(P) /\ P >= Len(input)
  BY <1>1, NextPow2Is
<1>3. P \in Nat /\ P >= 1
  BY <1>2, PowerPositive
<1>4. IsPlan(Plan, P)
  BY <1>3, PlanIs DEF Plan
<1> QED BY <1>2, <1>3, <1>4

LEMMA NeedIs ==
  ASSUME input \in Seq(Int), NEW g \in 1 .. 9
  PROVE  Need(g) \in Nat /\ Need(g) > 0
<1>1. NextPow2(Len(input)) \in Nat /\ NextPow2(Len(input)) >= 1
  BY PlanOfInput
<1>2. Plan.totalResiduals \in Nat /\ Plan.totalBlocks \in Nat /\ Plan.maxBlocks \in Nat
  BY PlanOfInput DEF IsPlan
<1>3. \A n \in Nat : AllocN(n) \in Nat /\ AllocN(n) > 0
  BY DEF AllocN
<1>4. /\ Need(g) = NextPow2(Len(input)) \/ Need(g) = AllocN(Plan.maxBlocks)
         \/ Need(g) = AllocN(Plan.totalResiduals) \/ Need(g) = AllocN(Plan.totalBlocks)
  BY DEF Need
<1>5. \A n \in Nat : n >= 1 => n > 0
  OBVIOUS
<1>6. NextPow2(Len(input)) > 0
  BY <1>1, <1>5
<1>7. AllocN(Plan.maxBlocks) \in Nat /\ AllocN(Plan.maxBlocks) > 0
  BY <1>2, <1>3
<1>8. AllocN(Plan.totalBlocks) \in Nat /\ AllocN(Plan.totalBlocks) > 0
  BY <1>2, <1>3
<1>9. AllocN(Plan.totalResiduals) \in Nat /\ AllocN(Plan.totalResiduals) > 0
  BY <1>2, <1>3
<1> QED BY <1>1, <1>4, <1>6, <1>7, <1>8, <1>9

\* The invariant holds at the start.
LEMMA MemInit == LiftInit => MemInv
<1> SUFFICES ASSUME LiftInit PROVE MemInv
  OBVIOUS
<1> USE DEF LiftInit
<1>1. DOMAIN Groups = 1 .. 9 /\ "session" \in Owners /\ "oneshot" \in Owners
  BY GroupFacts DEF Owners
<1>2. MemShape
  BY <1>1 DEF MemShape
<1>3. Backed
  <2> SUFFICES ASSUME NEW o \in Owners, NEW g \in 1 .. 9, NEW b \in Groups[g]
               PROVE  cap[o][g] <= alloc[o][b]
    BY DEF Backed
  <2>1. b \in Buffers
    BY GroupFacts
  <2> QED BY <1>1, <2>1
<1>4. Counted
  <2>1. Held(alloc) = {}
    BY DEF Held
  <2> QED BY <2>1, FS_EmptySet DEF Counted
<1>5. Released1 /\ Released2 /\ Ensured
  BY <1>1 DEF Released1, Released2, Ensured, OnDevice
<1> QED BY <1>2, <1>3, <1>4, <1>5 DEF MemInv

\* A step that leaves the memory and the call alone.
LEMMA MemKept ==
  ASSUME MemInv, UNCHANGED <<memory, call, input>>,
         stage' \in {"idle", "ensure", "pipeline", "tail", "download", "cpu", "inverse"},
         group' \in 1 .. 10,
         OnDevice' => OnDevice /\ group' <= group,
         OnDevice /\ call = "oneshot" => OnDevice' \/ \A b \in Buffers : alloc["oneshot"][b] = 0,
         stage' = "ensure" => group' \in 1 .. 9,
         stage' \in {"pipeline", "tail"} => group' = 7,
         stage' = "download" => group' = 10
  PROVE  MemInv'
<1>1. UNCHANGED <<alloc, cap, live, call, input>>
  BY DEF memory
<1>2. MemShape'
  BY <1>1 DEF MemInv, MemShape
<1>3. Backed' /\ Counted'
  BY <1>1 DEF MemInv, Backed, Counted
<1>4. Released1'
  BY <1>1 DEF MemInv, Released1
<1>5. Released2'
  BY <1>1 DEF MemInv, Released2
<1>6. Ensured'
  <2>1. \A g : Need(g)' = Need(g)
    BY <1>1 DEF Need, Plan
  <2>2. ASSUME OnDevice', NEW g \in 1 .. 9, g < group' PROVE Need(g)' <= cap'[call'][g]
    <3>1. g < group
      BY <2>2 DEF MemInv, MemShape
    <3> QED BY <1>1, <2>1, <2>2, <3>1 DEF MemInv, Ensured
  <2>3. OnDevice' => call' \in Owners
    BY <1>1 DEF MemInv, Ensured
  <2> QED BY <1>1, <2>2, <2>3 DEF Ensured
<1> QED BY <1>2, <1>3, <1>4, <1>5, <1>6 DEF MemInv

\* Giving back all that an owner holds.
LEMMA MemReleased ==
  ASSUME MemInv, NEW o \in Owners, Released(o)
  PROVE  /\ alloc' \in [Owners -> [Buffers -> Nat]] /\ cap' \in [Owners -> [1 .. 9 -> Nat]]
         /\ Backed' /\ Counted'
         /\ \A b \in Buffers : alloc'[o][b] = 0
         /\ \A p \in Owners : p # o => alloc'[p] = alloc[p] /\ cap'[p] = cap[p]
<1>1. DOMAIN Groups = 1 .. 9
  BY GroupFacts
<1>2. /\ alloc' = [alloc EXCEPT ![o] = [b \in Buffers |-> 0]]
      /\ cap' = [cap EXCEPT ![o] = [g \in 1 .. 9 |-> 0]]
      /\ live' = live - Cardinality({b \in Buffers : alloc[o][b] > 0})
  BY <1>1 DEF Released
<1>3. alloc \in [Owners -> [Buffers -> Nat]] /\ cap \in [Owners -> [1 .. 9 -> Nat]]
  BY DEF MemInv, MemShape
<1>4. alloc' \in [Owners -> [Buffers -> Nat]] /\ cap' \in [Owners -> [1 .. 9 -> Nat]]
  BY <1>2, <1>3
<1>5. /\ \A b \in Buffers : alloc'[o][b] = 0
      /\ \A g \in 1 .. 9 : cap'[o][g] = 0
      /\ \A p \in Owners : p # o => alloc'[p] = alloc[p] /\ cap'[p] = cap[p]
  BY <1>2, <1>3
<1>6. Backed'
  <2> SUFFICES ASSUME NEW p \in Owners, NEW g \in 1 .. 9, NEW b \in Groups[g]
               PROVE  cap'[p][g] <= alloc'[p][b]
    BY DEF Backed
  <2>1. b \in Buffers
    BY GroupFacts
  <2> QED BY <1>5, <2>1 DEF MemInv, Backed
<1>7. Counted'
  <2>1. Renewed(alloc, alloc', o, Buffers, {})
    BY <1>3, <1>4, <1>5 DEF Renewed
  <2>2. Cardinality(Held(alloc'))
          = Cardinality(Held(alloc)) + Cardinality({}) - Cardinality({b \in Buffers : alloc[o][b] > 0})
    BY <2>1, CountRenewed
  <2>3. Cardinality({}) = 0 /\ Cardinality(Held(alloc)) \in Nat
    BY FS_EmptySet, HeldFinite, FS_CardinalityType
  <2>4. Cardinality({b \in Buffers : alloc[o][b] > 0}) \in Nat
    BY CountMine
  <2>5. Cardinality(Held(alloc')) = live'
    BY <1>2, <2>2, <2>3, <2>4 DEF MemInv, Counted
  <2> QED BY <2>5 DEF Counted
<1> QED BY <1>4, <1>5, <1>6, <1>7

\* Growing a group, as far as the device gives memory.
LEMMA MemGrown ==
  ASSUME MemInv, call \in Owners, NEW g \in 1 .. 9, NEW got \in Given(g), Grow(g, got)
  PROVE  /\ alloc' \in [Owners -> [Buffers -> Nat]] /\ cap' \in [Owners -> [1 .. 9 -> Nat]]
         /\ Backed' /\ Counted'
         /\ \A p \in Owners : p # call => alloc'[p] = alloc[p] /\ cap'[p] = cap[p]
         /\ \A h \in 1 .. 9 : h # g => cap'[call][h] = cap[call][h]
         /\ got = Groups[g] => cap'[call][g] = Need(g)
<1>1. got \subseteq Groups[g] /\ Groups[g] \subseteq Buffers
  BY GroupFacts
<1>2. Need(g) \in Nat /\ Need(g) > 0
  BY NeedIs DEF MemInv, MemShape
<1>3. alloc \in [Owners -> [Buffers -> Nat]] /\ cap \in [Owners -> [1 .. 9 -> Nat]]
  BY DEF MemInv, MemShape
<1> DEFINE n == Need(g)
           mine == [b \in Buffers |-> IF b \in got THEN n ELSE IF b \in Groups[g] THEN 0 ELSE alloc[call][b]]
           room == IF got = Groups[g] THEN n ELSE 0
<1>4. /\ alloc' = [alloc EXCEPT ![call] = mine]
      /\ cap' = [cap EXCEPT ![call] = [cap[call] EXCEPT ![g] = room]]
      /\ live' = live + Cardinality(got) - Cardinality({b \in Groups[g] : alloc[call][b] > 0})
  BY <1>3 DEF Grow
<1>5. n \in Nat /\ n > 0
  BY <1>2
<1> HIDE DEF n
<1>6. mine \in [Buffers -> Nat] /\ room \in Nat
  BY <1>3, <1>5
<1>7. \A b \in Buffers : mine[b] = IF b \in got THEN n ELSE IF b \in Groups[g] THEN 0 ELSE alloc[call][b]
  OBVIOUS
<1> HIDE DEF mine
<1>8. alloc' \in [Owners -> [Buffers -> Nat]] /\ cap' \in [Owners -> [1 .. 9 -> Nat]]
  BY <1>3, <1>4, <1>6
<1>9. /\ alloc'[call] = mine
      /\ cap'[call][g] = room
      /\ \A h \in 1 .. 9 : h # g => cap'[call][h] = cap[call][h]
      /\ \A p \in Owners : p # call => alloc'[p] = alloc[p] /\ cap'[p] = cap[p]
  BY <1>3, <1>4
<1>10. Backed'
  <2> SUFFICES ASSUME NEW p \in Owners, NEW h \in 1 .. 9, NEW b \in Groups[h]
               PROVE  cap'[p][h] <= alloc'[p][b]
    BY DEF Backed
  <2>1. b \in Buffers
    BY GroupFacts
  <2>2. cap[p][h] <= alloc[p][b]
    BY DEF MemInv, Backed
  <2>3. CASE p # call
    BY <1>9, <2>2, <2>3
  <2>4. CASE p = call /\ h = g
    <3>1. CASE got = Groups[g]
      <4>1. b \in got
        BY <2>4, <3>1
      <4> QED BY <1>5, <1>7, <1>9, <2>1, <2>4, <3>1, <4>1
    <3>2. CASE got # Groups[g]
      <4>1. mine[b] \in Nat
        BY <1>6, <2>1
      <4> QED BY <1>9, <2>4, <3>2, <4>1
    <3> QED BY <3>1, <3>2
  <2>5. CASE p = call /\ h # g
    <3>1. b \notin Groups[g] /\ b \notin got
      BY <1>1, <2>5, GroupFacts
    <3>2. mine[b] = alloc[call][b]
      BY <1>7, <2>1, <3>1
    <3> QED BY <1>9, <2>2, <2>5, <3>2
  <2> QED BY <2>3, <2>4, <2>5
<1>11. Counted'
  <2>1. Renewed(alloc, alloc', call, Groups[g], got)
    BY <1>1, <1>3, <1>5, <1>7, <1>8, <1>9 DEF Renewed
  <2>2. Cardinality(Held(alloc'))
          = Cardinality(Held(alloc)) + Cardinality(got) - Cardinality({b \in Groups[g] : alloc[call][b] > 0})
    BY <2>1, CountRenewed
  <2>3. Cardinality(Held(alloc')) = live'
    BY <1>4, <2>2 DEF MemInv, Counted
  <2> QED BY <2>3 DEF Counted
<1> QED BY <1>8, <1>9, <1>10, <1>11 DEF n
\* A new call finds the memory that the calls before it left.
LEMMA MemStart ==
  ASSUME MemInv, NEW c \in {"session", "oneshot", "cpu"}, NEW i \in Inputs, NEW q \in LiftSteps,
         Start(c, i, q)
  PROVE  MemInv'
<1> USE DEF Start
<1>1. UNCHANGED <<alloc, cap, live>> /\ call' = c /\ input' = i /\ group' = 1 /\ stage = "idle"
      /\ stage' \in {"inverse", "cpu", "ensure"} /\ (c = "cpu" => stage' # "ensure")
  BY DEF memory
<1>2. i \in Seq(Int)
  BY SessionAssumption
<1>3. MemShape'
  BY <1>1, <1>2 DEF MemInv, MemShape
<1>4. Backed' /\ Counted'
  BY <1>1 DEF MemInv, Backed, Counted
<1>5. Released1' /\ Released2'
  BY <1>1 DEF MemInv, Released1, Released2, OnDevice
<1>6. Ensured'
  BY <1>1 DEF Ensured, OnDevice, Owners
<1> QED BY <1>3, <1>4, <1>5, <1>6 DEF MemInv

\* A call that ends early goes on without the device, and without what only it holds.
LEMMA MemGivenUp ==
  ASSUME MemInv, OnDevice, GiveUp,
         alloc' \in [Owners -> [Buffers -> Nat]], cap' \in [Owners -> [1 .. 9 -> Nat]],
         Backed', Counted',
         \A b \in Buffers : alloc'["oneshot"][b] = 0
  PROVE  MemInv'
<1>1. UNCHANGED <<call, input, group>> /\ stage' = "cpu"
  BY DEF GiveUp, request
<1>2. MemShape'
  BY <1>1 DEF MemInv, MemShape
<1>3. Released1' /\ Released2' /\ Ensured'
  BY <1>1 DEF Released1, Released2, Ensured, OnDevice
<1> QED BY <1>2, <1>3 DEF MemInv

\* ensure_device_capacity, whether it succeeds, fails midway or has nothing to do.
LEMMA MemEnsure ==
  ASSUME MemInv, EnsureCapacity
  PROVE  MemInv'
<1>1. stage = "ensure" /\ OnDevice /\ call \in Owners /\ group \in 1 .. 9
  BY DEF EnsureCapacity, MemInv, Ensured, OnDevice
<1> DEFINE enough == Need(group) <= cap[call][group]
<1>2. PICK got \in Given(group) :
        LET whole == enough \/ got = Groups[group]
        IN  /\ enough => got = {} /\ UNCHANGED memory
            /\ ~enough /\ (call = "session" \/ whole) => Grow(group, got)
            /\ ~whole /\ call = "oneshot" => Released("oneshot")
            /\ ~whole => GiveUp
            /\ whole => /\ stage' = IF group = 6 THEN "pipeline" ELSE IF group = 9 THEN "download"
                                    ELSE "ensure"
                        /\ group' = group + 1
                        /\ UNCHANGED <<request, cur, levels>>
  BY DEF EnsureCapacity
<1>3. "session" \in Owners /\ "oneshot" \in Owners /\ (call = "session" \/ call = "oneshot")
  BY <1>1 DEF Owners
<1>4. /\ Need(group) \in Nat /\ cap[call][group] \in Nat
      /\ alloc \in [Owners -> [Buffers -> Nat]] /\ cap \in [Owners -> [1 .. 9 -> Nat]]
  <2>1. input \in Seq(Int) /\ group \in 1 .. 9
    BY <1>1 DEF MemInv, MemShape
  <2>2. Need(group) \in Nat
    BY <2>1, NeedIs
  <2>3. alloc \in [Owners -> [Buffers -> Nat]] /\ cap \in [Owners -> [1 .. 9 -> Nat]]
    BY DEF MemInv, MemShape
  <2>4. cap[call][group] \in Nat
    BY <1>1, <2>3
  <2> QED BY <2>2, <2>3, <2>4
<1> HIDE DEF enough
<1>5. CASE enough \/ got = Groups[group]
  <2>1. /\ UNCHANGED <<call, input>> /\ group' = group + 1
        /\ stage' = IF group = 6 THEN "pipeline" ELSE IF group = 9 THEN "download" ELSE "ensure"
    BY <1>2, <1>5 DEF request
  <2>2. /\ alloc' \in [Owners -> [Buffers -> Nat]] /\ cap' \in [Owners -> [1 .. 9 -> Nat]]
        /\ Backed' /\ Counted'
        /\ \A p \in Owners : p # call => alloc'[p] = alloc[p]
        /\ \A h \in 1 .. 9 : h # group => cap'[call][h] = cap[call][h]
        /\ Need(group) <= cap'[call][group]
    <3>1. CASE enough
      <4>1. UNCHANGED <<alloc, cap, live>>
        BY <1>2, <3>1 DEF memory
      <4> QED BY <1>4, <3>1, <4>1 DEF MemInv, Backed, Counted, enough
    <3>2. CASE ~ enough
      <4>1. Grow(group, got) /\ got = Groups[group]
        BY <1>2, <1>5, <3>2
      <4>2. cap'[call][group] = Need(group)
        BY <1>1, <4>1, MemGrown
      <4>3. Need(group) <= cap'[call][group]
        BY <1>4, <4>2
      <4> QED BY <1>1, <4>1, <4>3, MemGrown
    <3> QED BY <3>1, <3>2
  <2>3. OnDevice' /\ group' \in 1 .. 10
    BY <1>1, <2>1 DEF OnDevice
  <2>4. MemShape'
    BY <2>1, <2>2, <2>3 DEF MemInv, MemShape
  <2>5. Released1'
    BY <1>1, <1>3, <2>1, <2>2, <2>3 DEF MemInv, Released1
  <2>6. Released2'
    BY <2>1 DEF Released2
  <2>7. Ensured'
    <3>1. \A g : Need(g)' = Need(g)
      BY <2>1 DEF Need, Plan
    <3>2. ASSUME NEW g \in 1 .. 9, g < group' PROVE Need(g)' <= cap'[call'][g]
      <4>1. CASE g = group
        BY <2>1, <2>2, <3>1, <4>1
      <4>2. CASE g # group
        <5>1. g < group
          BY <1>1, <2>1, <3>2, <4>2
        <5> QED BY <1>1, <2>1, <2>2, <3>1, <4>2, <5>1 DEF MemInv, Ensured
      <4> QED BY <4>1, <4>2
    <3> QED BY <1>1, <2>1, <3>2 DEF Ensured
  <2> QED BY <2>2, <2>4, <2>5, <2>6, <2>7 DEF MemInv
<1>6. CASE ~ (enough \/ got = Groups[group])
  <2>1. GiveUp
    BY <1>2, <1>6
  <2>2. CASE call = "session"
    <3>1. Grow(group, got)
      BY <1>2, <1>6, <2>2
    <3>2. /\ alloc' \in [Owners -> [Buffers -> Nat]] /\ cap' \in [Owners -> [1 .. 9 -> Nat]]
          /\ Backed' /\ Counted'
          /\ \A p \in Owners : p # call => alloc'[p] = alloc[p]
      BY <1>1, <3>1, MemGrown
    <3>3. \A b \in Buffers : alloc'["oneshot"][b] = 0
      BY <1>3, <2>2, <3>2 DEF MemInv, Released1
    <3> QED BY <1>1, <2>1, <3>2, <3>3, MemGivenUp
  <2>3. CASE call = "oneshot"
    <3>1. Released("oneshot")
      BY <1>2, <1>6, <2>3
    <3>2. /\ alloc' \in [Owners -> [Buffers -> Nat]] /\ cap' \in [Owners -> [1 .. 9 -> Nat]]
          /\ Backed' /\ Counted'
          /\ \A b \in Buffers : alloc'["oneshot"][b] = 0
      BY <1>3, <3>1, MemReleased
    <3> QED BY <1>1, <2>1, <3>2, MemGivenUp
  <2> QED BY <1>3, <2>2, <2>3
<1> QED BY <1>5, <1>6

\* Any other CUDA call fails.
LEMMA MemFails ==
  ASSUME MemInv, DeviceFails
  PROVE  MemInv'
<1>1. OnDevice /\ GiveUp /\ "oneshot" \in Owners
  BY DEF DeviceFails, OnDevice, Owners
<1>2. CASE call = "oneshot"
  <2>1. Released("oneshot")
    BY <1>2 DEF DeviceFails
  <2>2. /\ alloc' \in [Owners -> [Buffers -> Nat]] /\ cap' \in [Owners -> [1 .. 9 -> Nat]]
        /\ Backed' /\ Counted'
        /\ \A b \in Buffers : alloc'["oneshot"][b] = 0
    BY <1>1, <2>1, MemReleased
  <2> QED BY <1>1, <2>2, MemGivenUp
<1>3. CASE call # "oneshot"
  <2>1. UNCHANGED <<alloc, cap, live>>
    BY <1>3 DEF DeviceFails, memory
  <2>2. /\ alloc' \in [Owners -> [Buffers -> Nat]] /\ cap' \in [Owners -> [1 .. 9 -> Nat]]
        /\ Backed' /\ Counted'
    BY <2>1 DEF MemInv, MemShape, Backed, Counted
  <2>3. \A b \in Buffers : alloc'["oneshot"][b] = 0
    BY <1>3, <2>1 DEF MemInv, Released1
  <2> QED BY <1>1, <2>2, <2>3, MemGivenUp
<1> QED BY <1>2, <1>3

\* The end of the device's part.
LEMMA MemDownload ==
  ASSUME MemInv, Download
  PROVE  MemInv'
<1> USE DEF Download
<1>1. UNCHANGED <<call, input, group>> /\ stage' = "inverse" /\ OnDevice /\ "oneshot" \in Owners
  BY DEF request, OnDevice, Owners
<1>2. CASE call = "oneshot"
  <2>1. Released("oneshot")
    BY <1>2
  <2>2. /\ alloc' \in [Owners -> [Buffers -> Nat]] /\ cap' \in [Owners -> [1 .. 9 -> Nat]]
        /\ Backed' /\ Counted'
        /\ \A b \in Buffers : alloc'["oneshot"][b] = 0
    BY <1>1, <2>1, MemReleased
  <2>3. MemShape'
    BY <1>1, <2>2 DEF MemInv, MemShape
  <2>4. Released1' /\ Released2' /\ Ensured'
    BY <1>1, <2>2 DEF Released1, Released2, Ensured, OnDevice
  <2> QED BY <2>2, <2>3, <2>4 DEF MemInv
<1>3. CASE call # "oneshot"
  <2>1. UNCHANGED <<memory, call, input>>
    BY <1>1, <1>3
  <2>2. ~ OnDevice' /\ group' \in 1 .. 10
    BY <1>1 DEF OnDevice, MemInv, MemShape
  <2> QED BY <1>1, <1>3, <2>1, <2>2, MemKept
<1> QED BY <1>2, <1>3

\* The destructor.
LEMMA MemEnds ==
  ASSUME MemInv, ThreadEnds
  PROVE  MemInv'
<1> USE DEF ThreadEnds
<1>1. UNCHANGED <<call, input, group>> /\ stage' = "ended" /\ stage = "idle"
      /\ Released("session") /\ "session" \in Owners /\ "oneshot" \in Owners
  BY DEF request, Owners
<1>2. /\ alloc' \in [Owners -> [Buffers -> Nat]] /\ cap' \in [Owners -> [1 .. 9 -> Nat]]
      /\ Backed' /\ Counted'
      /\ \A b \in Buffers : alloc'["session"][b] = 0
      /\ \A p \in Owners : p # "session" => alloc'[p] = alloc[p] /\ cap'[p] = cap[p]
  BY <1>1, MemReleased
<1>3. MemShape'
  BY <1>1, <1>2 DEF MemInv, MemShape
<1>4. Released1'
  BY <1>1, <1>2 DEF MemInv, Released1, OnDevice
<1>5. Released2' /\ Ensured'
  BY <1>1, <1>2 DEF Released2, Ensured, OnDevice
<1> QED BY <1>2, <1>3, <1>4, <1>5 DEF MemInv

\* Every step keeps the invariant.
LEMMA MemStep == MemInv /\ [LiftNext]_liftVars => MemInv'
<1> SUFFICES ASSUME MemInv, [LiftNext]_liftVars PROVE MemInv'
  OBVIOUS
<1>0. stage \in {"idle", "ensure", "pipeline", "tail", "download", "cpu", "inverse", "ended"}
      /\ group \in 1 .. 10
  BY DEF MemInv, MemShape
<1>1. ASSUME NEW c \in {"session", "oneshot", "cpu"}, NEW i \in Inputs, NEW q \in LiftSteps,
             Start(c, i, q)
      PROVE  MemInv'
  BY <1>1, MemStart
<1>2. CASE EnsureCapacity
  BY <1>2, MemEnsure
<1>3. CASE DeviceFails
  BY <1>3, MemFails
<1>4. CASE GpuLevel \/ HandOff
  <2>1. /\ UNCHANGED <<memory, call, input, group>>
        /\ stage = "pipeline" /\ stage' \in {"pipeline", "tail"} /\ group = 7
    BY <1>4 DEF GpuLevel, HandOff, request, MemInv, Ensured
  <2>2. OnDevice /\ OnDevice' /\ group' <= group
    BY <2>1 DEF OnDevice
  <2> QED BY <1>0, <2>1, <2>2, MemKept
<1>5. CASE CpuLevel
  <2>1. UNCHANGED <<memory, call, input, group, stage>> /\ stage \in {"tail", "cpu"}
    BY <1>5 DEF CpuLevel, request
  <2>2. (OnDevice' <=> OnDevice) /\ group' <= group
    BY <1>0, <2>1 DEF OnDevice
  <2>3. stage = "tail" => group = 7
    BY DEF MemInv, Ensured
  <2> QED BY <1>0, <2>1, <2>2, <2>3, MemKept
<1>6. CASE BaseReached
  <2>1. /\ UNCHANGED <<memory, call, input, group>>
        /\ stage \in {"tail", "cpu"}
        /\ stage = "tail" => stage' = "ensure"
        /\ stage = "cpu" => stage' = "inverse"
    BY <1>6 DEF BaseReached, request
  <2>2. stage = "tail" => group = 7
    BY DEF MemInv, Ensured
  <2>3. CASE stage = "tail"
    <3>1. OnDevice /\ OnDevice' /\ group' <= group
      BY <1>0, <2>1, <2>3 DEF OnDevice
    <3> QED BY <1>0, <2>1, <2>2, <2>3, <3>1, MemKept
  <2>4. CASE stage = "cpu"
    <3>1. ~ OnDevice /\ ~ OnDevice'
      BY <2>1, <2>4 DEF OnDevice
    <3> QED BY <1>0, <2>1, <2>4, <3>1, MemKept
  <2> QED BY <2>1, <2>3, <2>4
<1>7. CASE Download
  BY <1>7, MemDownload
<1>8. CASE InverseLevel \/ InverseDone
  <2>1. UNCHANGED <<memory, call, input, group>> /\ stage = "inverse"
        /\ stage' \in {"inverse", "idle"}
    BY <1>8 DEF InverseLevel, InverseDone, request
  <2>2. ~ OnDevice /\ ~ OnDevice'
    BY <2>1 DEF OnDevice
  <2> QED BY <1>0, <2>1, <2>2, MemKept
<1>9. CASE ThreadEnds
  BY <1>9, MemEnds
<1>10. CASE UNCHANGED liftVars
  <2>1. UNCHANGED <<alloc, cap, live, call, input, group, stage>>
    BY <1>10 DEF liftVars, request, memory
  <2>2. \A g : Need(g)' = Need(g)
    BY <2>1 DEF Need, Plan
  <2> QED BY <2>1, <2>2 DEF MemInv, MemShape, Backed, Counted, Released1, Released2, Ensured, OnDevice
<1> QED BY <1>1, <1>2, <1>3, <1>4, <1>5, <1>6, <1>7, <1>8, <1>9, <1>10 DEF LiftNext

\* The inductive invariant of the session's memory, whatever sizes are asked for and
\* whichever allocation fails.
THEOREM SessionInvariant == LiftSpec => []MemInv
  BY MemInit, MemStep, PTL DEF LiftSpec

\* A recorded capacity is memory that is there, and every allocation is held by one
\* pointer until it is freed: nothing is leaked or freed twice by a call that fails in
\* the middle, and nothing is left when the thread ends (ensure_device_capacity, ~Impl).
THEOREM MemoryIsAccounted == LiftSpec => []MemoryAccounted
<1>1. MemInv => MemoryAccounted
  <2> SUFFICES ASSUME MemInv PROVE MemoryAccounted
    OBVIOUS
  <2>1. \A o \in Owners, g \in DOMAIN Groups : \A b \in Groups[g] : cap[o][g] <= alloc[o][b]
    BY GroupFacts DEF MemInv, Backed
  <2>2. live = Cardinality({h \in Owners \X Buffers : alloc[h[1]][h[2]] > 0})
    BY DEF MemInv, Counted, Held
  <2>3. stage \in {"idle", "ended"} => \A b \in Buffers : alloc["oneshot"][b] = 0
    BY DEF MemInv, Released1, OnDevice
  <2>4. stage = "ended" => live = 0
    <3> SUFFICES ASSUME stage = "ended" PROVE live = 0
      OBVIOUS
    <3>1. ASSUME NEW h \in Owners \X Buffers PROVE alloc[h[1]][h[2]] = 0
      <4>1. h[1] \in Owners /\ h[2] \in Buffers
        OBVIOUS
      <4>2. h[1] = "session" \/ h[1] = "oneshot"
        BY <4>1 DEF Owners
      <4> QED BY <2>3, <4>1, <4>2 DEF MemInv, Released2
    <3>2. Held(alloc) = {}
      BY <3>1 DEF Held
    <3> QED BY <3>2, FS_EmptySet DEF MemInv, Counted
  <2> QED BY <2>1, <2>2, <2>3, <2>4 DEF MemoryAccounted
<1> QED BY <1>1, SessionInvariant, PTL
-----------------------------------------------------------------------------
\* Products grow with their factors.
LEMMA ProductGrows ==
  ASSUME NEW a \in Nat, NEW b \in Nat, NEW c \in Nat, NEW d \in Nat, a <= b, c <= d
  PROVE  a * c \in Nat /\ b * d \in Nat /\ a * c <= b * d
<1>1. PICK k \in Nat : b = a + k
  <2>1. b - a \in Nat /\ b = a + (b - a)
    OBVIOUS
  <2> QED BY <2>1
<1>2. PICK j \in Nat : d = c + j
  <2>1. d - c \in Nat /\ d = c + (d - c)
    OBVIOUS
  <2> QED BY <2>1
<1>3. b * d = a * c + a * j + k * c + k * j
  BY <1>1, <1>2
<1>4. a * c \in Nat /\ a * j \in Nat /\ k * c \in Nat /\ k * j \in Nat
  OBVIOUS
<1> QED BY <1>3, <1>4

\* A product is bounded by the bounds of its factors, whatever their signs.
LEMMA ProductWithin ==
  ASSUME NEW d \in Int, NEW e \in Nat, NEW r \in Int, NEW m \in Nat,
         -e <= d, d <= e, -m <= r, r <= m
  PROVE  e * m \in Nat /\ d * r \in Int /\ d * r <= e * m /\ -(e * m) <= d * r
<1>1. e * m \in Nat /\ d * r \in Int
  OBVIOUS
<1>2. CASE d >= 0 /\ r >= 0
  <2>1. d * r \in Nat /\ d * r <= e * m
    BY <1>2, ProductGrows
  <2> QED BY <1>1, <2>1
<1>3. CASE d >= 0 /\ r < 0
  <2>1. PICK s \in Nat : s = -r
    BY <1>3
  <2>2. d * s \in Nat /\ d * s <= e * m
    BY <1>3, <2>1, ProductGrows
  <2>3. d * r = -(d * s)
    BY <2>1
  <2> QED BY <1>1, <2>2, <2>3
<1>4. CASE d < 0 /\ r >= 0
  <2>1. PICK c \in Nat : c = -d
    BY <1>4
  <2>2. c * r \in Nat /\ c * r <= e * m
    BY <1>4, <2>1, ProductGrows
  <2>3. d * r = -(c * r)
    BY <2>1
  <2> QED BY <1>1, <2>2, <2>3
<1>5. CASE d < 0 /\ r < 0
  <2>1. PICK c \in Nat : c = -d
    BY <1>5
  <2>2. PICK s \in Nat : s = -r
    BY <1>5
  <2>3. c * s \in Nat /\ c * s <= e * m
    BY <1>5, <2>1, <2>2, ProductGrows
  <2>4. d * r = c * s
    BY <2>1, <2>2
  <2> QED BY <1>1, <2>3, <2>4
<1> QED BY <1>2, <1>3, <1>4, <1>5

\* Below one times b there is no multiple of b but those up to zero.
LEMMA NoMultiple ==
  ASSUME NEW b \in Nat \ {0}, NEW k \in Int, b * k <= b - 1
  PROVE  k <= 0
<1> SUFFICES ASSUME k >= 1 PROVE FALSE
  OBVIOUS
<1>1. PICK j \in Nat : k = 1 + j
  <2>1. k - 1 \in Nat /\ k = 1 + (k - 1)
    OBVIOUS
  <2> QED BY <2>1
<1>2. b * k = b + b * j /\ b * j \in Nat
  BY <1>1
<1> QED BY <1>2

\* How a product is rounded, and how far two are apart once they are.
Rounded(p) == (IF p >= 0 THEN p + (FixedOne \div 2) ELSE p - (FixedOne \div 2)) \div FixedOne

\* Rounding keeps the order, and adds at most one to a distance counted in FixedOne.
LEMMA RoundedApart ==
  ASSUME NEW p \in Int, NEW s \in Int, NEW c \in Nat, s <= p, p - s <= FixedOne * c
  PROVE  Rounded(p) \in Int /\ Rounded(s) \in Int /\ Rounded(p) - Rounded(s) \in 0 .. c + 1
<1> DEFINE F == FixedOne
           h == F \div 2
           x == IF p >= 0 THEN p + h ELSE p - h
           y == IF s >= 0 THEN s + h ELSE s - h
           g == x \div F
           k == y \div F
           t == x % F
           u == y % F
<1>1. F \in Nat \ {0}
  BY LiftAssumption
<1>2. h \in Nat /\ 2 * h <= F
  BY <1>1
<1>3. x \in Int /\ y \in Int
  BY <1>2
<1>4. g \in Int /\ t \in 0 .. F - 1 /\ x = F * g + t
  BY <1>1, <1>3, DivMod
<1>5. k \in Int /\ u \in 0 .. F - 1 /\ y = F * k + u
  BY <1>1, <1>3, DivMod
<1>6. y <= x /\ x <= y + F * c + F
  <2> HIDE DEF h
  <2>1. F * c \in Nat
    BY <1>1
  <2> QED BY <1>1, <1>2, <2>1
<1>7. Rounded(p) = g /\ Rounded(s) = k
  BY DEF Rounded
<1> HIDE DEF g, k, t, u, x, y, h, F
<1>8. k - g <= 0
  <2>1. F * (k - g) = F * k - F * g /\ F * k \in Int /\ F * g \in Int
    BY <1>1, <1>4, <1>5
  <2>2. F * (k - g) <= F - 1
    BY <1>1, <1>4, <1>5, <1>6, <2>1
  <2>3. k - g \in Int
    BY <1>4, <1>5
  <2> QED BY <1>1, <2>2, <2>3, NoMultiple
<1>9. g - k - c - 1 <= 0
  <2>1. F * (g - k - c - 1) = F * g - F * k - F * c - F
    BY <1>1, <1>4, <1>5
  <2>2. F * k \in Int /\ F * g \in Int /\ F * c \in Int
    BY <1>1, <1>4, <1>5
  <2>3. F * (g - k - c - 1) <= F - 1
    BY <1>1, <1>4, <1>5, <1>6, <2>1, <2>2
  <2>4. g - k - c - 1 \in Int
    BY <1>4, <1>5
  <2> QED BY <1>1, <2>3, <2>4, NoMultiple
<1> QED BY <1>4, <1>5, <1>7, <1>8, <1>9

\* An error in the value a prediction is made from, scaled by the ratio and rounded.
Steep == IF MaxRatio > FixedOne THEN MaxRatio ELSE FixedOne
Scaled(e) == (Steep * e + FixedOne - 1) \div FixedOne

\* What Scaled is used for: it covers the error itself and the error times the ratio.
LEMMA ScaledIs ==
  ASSUME NEW e \in Nat
  PROVE  /\ Steep \in Nat /\ Steep >= MaxRatio /\ Steep >= FixedOne
         /\ Scaled(e) \in Nat /\ e <= Scaled(e) /\ Steep * e <= FixedOne * Scaled(e)
<1> DEFINE F == FixedOne
           M == Steep * e
           C == (M + F - 1) \div F
           w == (M + F - 1) % F
<1>1. F \in Nat \ {0} /\ MaxRatio \in Nat
  BY LiftAssumption
<1>2. Steep \in Nat /\ Steep >= MaxRatio /\ Steep >= F
  BY <1>1 DEF Steep
<1>3. M \in Nat /\ F * e \in Nat /\ F * e <= M
  <2>1. F \in Nat /\ e <= e
    BY <1>1
  <2> QED BY <1>2, <2>1, ProductGrows
<1> HIDE DEF M
<1>4. M + F - 1 \in Int
  BY <1>1, <1>3
<1>5. C \in Int /\ w \in 0 .. F - 1 /\ M + F - 1 = F * C + w
  BY <1>1, <1>4, DivMod
<1>6. Scaled(e) = C
  BY DEF Scaled, M
<1> HIDE DEF C, w, F
<1>7. F * C \in Int /\ M <= F * C
  BY <1>1, <1>3, <1>5
<1>8. e - C <= 0
  <2>1. F * (e - C) = F * e - F * C /\ e - C \in Int
    BY <1>1, <1>5
  <2>2. F * (e - C) <= F - 1
    BY <1>1, <1>3, <1>7, <2>1
  <2> QED BY <1>1, <2>1, <2>2, NoMultiple
<1>9. C \in Nat
  BY <1>5, <1>8
<1> QED BY <1>2, <1>6, <1>7, <1>8, <1>9 DEF M, F

\* Predictions from two values that are e apart.
LEMMA PredictionsApart ==
  ASSUME NEW x \in Int, NEW y \in Int, NEW r \in -MaxRatio .. MaxRatio, NEW e \in Nat,
         Abs(x - y) <= e
  PROVE  /\ FixedMulRound(x, r) \in Int /\ FixedMulRound(y, r) \in Int
         /\ Abs(FixedMulRound(x, r) - FixedMulRound(y, r)) <= Scaled(e) + 1
<1>1. FixedMulRound(x, r) = Rounded(x * r) /\ FixedMulRound(y, r) = Rounded(y * r)
  BY DEF FixedMulRound, Rounded
<1>2. MaxRatio \in Nat /\ FixedOne \in Nat \ {0} /\ r \in Int
  BY LiftAssumption
<1>3. PICK d \in Int : d = x - y /\ -e <= d /\ d <= e
  BY DEF Abs
<1>4. e * MaxRatio \in Nat /\ d * r \in Int /\ d * r <= e * MaxRatio /\ -(e * MaxRatio) <= d * r
  <2>1. -MaxRatio <= r /\ r <= MaxRatio
    BY <1>2
  <2> QED BY <1>2, <1>3, <2>1, ProductWithin
<1>5. /\ Scaled(e) \in Nat /\ Steep \in Nat /\ MaxRatio <= Steep
      /\ Steep * e <= FixedOne * Scaled(e)
  BY ScaledIs
<1>6. e * MaxRatio <= Steep * e /\ Steep * e \in Nat
  <2>1. e <= e
    OBVIOUS
  <2>2. e * MaxRatio <= e * Steep /\ e * Steep \in Nat
    BY <1>2, <1>5, <2>1, ProductGrows
  <2> QED BY <1>5, <2>2
<1>7. x * r \in Int /\ y * r \in Int /\ x * r - y * r = d * r
  BY <1>2, <1>3
<1>8. PICK p \in Int : p = x * r
  BY <1>7
<1>9. PICK s \in Int : s = y * r
  BY <1>7
<1>10. PICK m \in Int : m = FixedOne * Scaled(e)
  BY <1>2, <1>5
<1>11. p - s <= m /\ s - p <= m
  <2>1. PICK t \in Int : t = d * r
    BY <1>4
  <2>2. PICK u \in Nat : u = e * MaxRatio
    BY <1>4
  <2>3. u <= m
    <3>1. PICK v \in Nat : v = Steep * e
      BY <1>6
    <3> QED BY <1>5, <1>6, <1>10, <2>2, <3>1
  <2>4. t <= u /\ -u <= t
    BY <1>4, <2>1, <2>2
  <2>5. p - s = t
    BY <1>7, <1>8, <1>9, <2>1
  <2> QED BY <2>3, <2>4, <2>5
<1>12. CASE s <= p
  <2>1. Rounded(p) \in Int /\ Rounded(s) \in Int /\ Rounded(p) - Rounded(s) \in 0 .. Scaled(e) + 1
    BY <1>5, <1>10, <1>11, <1>12, RoundedApart
  <2> QED BY <1>1, <1>5, <1>8, <1>9, <2>1 DEF Abs
<1>13. CASE p < s
  <2>1. Rounded(p) \in Int /\ Rounded(s) \in Int /\ Rounded(s) - Rounded(p) \in 0 .. Scaled(e) + 1
    BY <1>5, <1>10, <1>11, <1>13, RoundedApart
  <2> QED BY <1>1, <1>5, <1>8, <1>9, <2>1 DEF Abs
<1> QED BY <1>12, <1>13
-----------------------------------------------------------------------------
\* The places of a pair.
LEMMA PairPlaces ==
  ASSUME NEW h \in Nat
  PROVE  /\ \A i \in 1 .. h : 2 * i \in 1 .. 2 * h /\ 2 * i - 1 \in 1 .. 2 * h
         /\ \A k \in 1 .. 2 * h :
              IF k % 2 = 1 THEN \E i \in 1 .. h : i = (k + 1) \div 2 /\ k = 2 * i - 1
              ELSE \E i \in 1 .. h : i = k \div 2 /\ k = 2 * i
<1>1. ASSUME NEW i \in 1 .. h PROVE 2 * i \in 1 .. 2 * h /\ 2 * i - 1 \in 1 .. 2 * h
  OBVIOUS
<1>2. ASSUME NEW k \in 1 .. 2 * h, k % 2 = 1
      PROVE  \E i \in 1 .. h : i = (k + 1) \div 2 /\ k = 2 * i - 1
  BY <1>2
<1>3. ASSUME NEW k \in 1 .. 2 * h, k % 2 # 1
      PROVE  \E i \in 1 .. h : i = k \div 2 /\ k = 2 * i
  BY <1>3
<1> QED BY <1>1, <1>2, <1>3

\* One level: its shape, and what undoing it gives from values that are off by at most e.
Paired(orig, fits, q) ==
  /\ orig \in Seq(Int) /\ Len(orig) = 2 * (Len(orig) \div 2)
  /\ fits \in Fits(Len(orig) \div 2)
  /\ q \in Nat \ {0}

\* The fit of a pair is one of its level.
LEMMA FitOf ==
  ASSUME NEW h \in Nat, NEW fits \in Fits(h), NEW i \in 1 .. h, NEW a \in Int
  PROVE  /\ fits[BlockOfPair(i)].ratio \in -MaxRatio .. MaxRatio
         /\ fits[BlockOfPair(i)].offset \in Int
         /\ Predicted(fits[BlockOfPair(i)], a) \in Int
<1> DEFINE fit == fits[BlockOfPair(i)]
<1>1. BlockOfPair(i) \in 1 .. NumBlocksFor(h)
  BY BlocksFor
<1>2. fit \in [ratio : Ratios, offset : Offsets]
  BY <1>1 DEF Fits
<1>3. fit.ratio \in -MaxRatio .. MaxRatio /\ fit.offset \in Int
  BY <1>2, LiftAssumption
<1>4. Predicted(fit, a) = FixedMulRound(a, fit.ratio) + fit.offset
  BY DEF Predicted
<1> HIDE DEF fit
<1>5. FixedMulRound(a, fit.ratio) \in Int
  <2>1. Abs(a - a) <= 0
    BY DEF Abs
  <2> QED BY <1>3, <2>1, PredictionsApart
<1> QED BY <1>3, <1>4, <1>5 DEF fit

\* What a level is made of.
LEMMA LevelParts ==
  ASSUME NEW orig, NEW fits, NEW q, Paired(orig, fits, q)
  PROVE  LET h == Len(orig) \div 2
             level == Level(orig, fits, q)
         IN  /\ h \in Nat
             /\ level.fits = fits
             /\ level.residual \in [1 .. h -> Int] /\ level.low \in [1 .. h -> Int]
             /\ level.low \in Seq(Int) /\ Len(level.low) = h
             /\ \A i \in 1 .. h :
                  /\ level.residual[i]
                       = QuantRoundDiv(orig[2 * i] - Predicted(fits[BlockOfPair(i)], orig[2 * i - 1]), q)
                  /\ level.low[i] = orig[2 * i - 1] + Update(level.residual[i] * q)
<1> DEFINE h == Len(orig) \div 2
           raw(i) == orig[2 * i] - Predicted(fits[BlockOfPair(i)], orig[2 * i - 1])
           res == [i \in 1 .. h |-> QuantRoundDiv(raw(i), q)]
           low == [i \in 1 .. h |-> orig[2 * i - 1] + Update(res[i] * q)]
<1>1. /\ orig \in Seq(Int) /\ Len(orig) = 2 * h /\ fits \in Fits(h) /\ q \in Nat \ {0}
      /\ h \in Nat
  BY DEF Paired
<1>2. Level(orig, fits, q) = [low |-> low, residual |-> res, fits |-> fits]
  BY DEF Level
<1> HIDE DEF h
<1>3. ASSUME NEW i \in 1 .. h
      PROVE  res[i] \in Int /\ low[i] \in Int /\ res[i] = QuantRoundDiv(raw(i), q)
             /\ low[i] = orig[2 * i - 1] + Update(res[i] * q)
  <2>1. 2 * i \in 1 .. Len(orig) /\ 2 * i - 1 \in 1 .. Len(orig)
    <3>1. 2 * i \in 1 .. 2 * h /\ 2 * i - 1 \in 1 .. 2 * h
      BY <1>1, PairPlaces
    <3> QED BY <1>1, <3>1, Zenon
  <2>2. orig[2 * i] \in Int /\ orig[2 * i - 1] \in Int
    BY <1>1, <2>1
  <2>3. Predicted(fits[BlockOfPair(i)], orig[2 * i - 1]) \in Int
    BY <1>1, <2>2, FitOf
  <2>4. raw(i) \in Int
    BY <2>2, <2>3
  <2>5. res[i] = QuantRoundDiv(raw(i), q) /\ low[i] = orig[2 * i - 1] + Update(res[i] * q)
    OBVIOUS
  <2> HIDE DEF raw, res, low
  <2>6. res[i] \in Int
    BY <1>1, <2>4, <2>5, Rounding
  <2>7. res[i] * q \in Int
    BY <1>1, <2>6
  <2>8. Update(res[i] * q) \in Int
    BY <2>7 DEF Update
  <2> QED BY <2>2, <2>5, <2>6, <2>8
<1>4. res \in [1 .. h -> Int] /\ low \in [1 .. h -> Int]
  <2>1. res = [i \in 1 .. h |-> res[i]] /\ low = [i \in 1 .. h |-> low[i]]
    OBVIOUS
  <2> HIDE DEF res, low
  <2> QED BY <1>3, <2>1
<1>5. Level(orig, fits, q).low = low /\ Level(orig, fits, q).residual = res
      /\ Level(orig, fits, q).fits = fits
  BY <1>2
<1> HIDE DEF res, low
<1>6. low \in Seq(Int) /\ Len(low) = h
  BY <1>1, <1>4
<1> QED BY <1>1, <1>3, <1>4, <1>5, <1>6 DEF h, raw

\* Undoing a level scales the error below it, rounds, and adds the one of the residual.
LEMMA UnlevelNear ==
  ASSUME NEW orig, NEW fits, NEW q, Paired(orig, fits, q),
         NEW e \in Nat, q = 1 => e = 0,
         NEW low \in Seq(Int), Len(low) = Len(orig) \div 2,
         \A i \in 1 .. Len(low) : Abs(low[i] - Level(orig, fits, q).low[i]) <= e
  PROVE  LET back == Unlevel(low, Level(orig, fits, q), q)
         IN  /\ back \in Seq(Int) /\ Len(back) = Len(orig)
             /\ \A k \in 1 .. Len(orig) :
                  Abs(back[k] - orig[k]) <= IF q = 1 THEN 0 ELSE Scaled(e) + 1 + (q \div 2)
<1> DEFINE h == Len(orig) \div 2
           level == Level(orig, fits, q)
           back == Unlevel(low, level, q)
           A(i) == low[i] - Update(level.residual[i] * q)
           B(i) == Predicted(level.fits[BlockOfPair(i)], A(i)) + level.residual[i] * q
           top == IF q = 1 THEN 0 ELSE Scaled(e) + 1 + (q \div 2)
<1>1. /\ orig \in Seq(Int) /\ Len(orig) = 2 * h /\ fits \in Fits(h) /\ q \in Nat \ {0}
      /\ h \in Nat /\ Len(low) = h
  BY DEF Paired
<1>2. /\ level.fits = fits /\ level.residual \in [1 .. h -> Int] /\ level.low \in [1 .. h -> Int]
      /\ \A i \in 1 .. h :
           /\ level.residual[i]
                = QuantRoundDiv(orig[2 * i] - Predicted(fits[BlockOfPair(i)], orig[2 * i - 1]), q)
           /\ level.low[i] = orig[2 * i - 1] + Update(level.residual[i] * q)
  BY LevelParts
<1>3. back = [k \in 1 .. 2 * h |-> IF k % 2 = 1 THEN A((k + 1) \div 2) ELSE B(k \div 2)]
  BY <1>1 DEF Unlevel
<1>4. q \div 2 \in Nat /\ Scaled(e) \in Nat /\ e <= Scaled(e)
  <2>1. \A n \in Nat \ {0} : n \div 2 \in Nat
    OBVIOUS
  <2>2. q \in Nat \ {0}
    BY DEF Paired
  <2> HIDE DEF h, level, back
  <2>3. Scaled(e) \in Nat /\ e <= Scaled(e)
    BY ScaledIs
  <2> QED BY <2>1, <2>2, <2>3
<1> HIDE DEF h, level, back
<1>5. ASSUME NEW i \in 1 .. h
      PROVE  /\ A(i) \in Int /\ B(i) \in Int
             /\ Abs(A(i) - orig[2 * i - 1]) <= top /\ Abs(B(i) - orig[2 * i]) <= top
  <2>1. 2 * i \in 1 .. Len(orig) /\ 2 * i - 1 \in 1 .. Len(orig)
    <3>1. 2 * i \in 1 .. 2 * h /\ 2 * i - 1 \in 1 .. 2 * h
      BY <1>1, PairPlaces
    <3> QED BY <1>1, <3>1, Zenon
  <2>2. PICK a \in Int : a = orig[2 * i - 1]
    BY <1>1, <2>1
  <2>3. PICK b \in Int : b = orig[2 * i]
    BY <1>1, <2>1
  <2> DEFINE fit == fits[BlockOfPair(i)]
  <2>4. /\ fit.ratio \in -MaxRatio .. MaxRatio /\ fit.offset \in Int
        /\ Predicted(fit, a) \in Int
    BY <1>1, FitOf
  <2> HIDE DEF fit
  <2>5. PICK d \in Int : d = b - Predicted(fit, a)
    BY <2>4
  <2>6. level.residual[i] = QuantRoundDiv(d, q) /\ level.residual[i] \in Int
    BY <1>2, <2>2, <2>3, <2>5 DEF fit
  <2>7. PICK r \in Int : r = level.residual[i] * q
    BY <1>1, <2>6
  <2>8. Abs(r - d) <= q \div 2
    <3>1. Abs(q * QuantRoundDiv(d, q) - d) <= q \div 2 /\ QuantRoundDiv(d, q) \in Int
      BY <1>1, Rounding
    <3>2. q * QuantRoundDiv(d, q) = r
      BY <1>1, <2>6, <2>7, <3>1
    <3> QED BY <3>1, <3>2
  <2>9. PICK u \in Int : u = Update(r)
    BY DEF Update
  <2>10. level.low[i] = a + u
    BY <1>2, <2>2, <2>7, <2>9
  <2>11. PICK x \in Int : x = A(i)
    BY <1>1, <2>7, <2>9
  <2>12. Abs(x - a) <= e
    <3>1. low[i] \in Int /\ Abs(low[i] - level.low[i]) <= e
      BY <1>1 DEF level
    <3>2. x = low[i] - u
      BY <2>7, <2>9, <2>11
    <3> QED BY <2>10, <3>1, <3>2 DEF Abs
  <2>13. B(i) = Predicted(fit, x) + r
    BY <1>2, <2>7, <2>11 DEF fit
  <2>14. /\ FixedMulRound(x, fit.ratio) \in Int /\ FixedMulRound(a, fit.ratio) \in Int
         /\ Abs(FixedMulRound(x, fit.ratio) - FixedMulRound(a, fit.ratio)) <= Scaled(e) + 1
    BY <2>4, <2>12, PredictionsApart
  <2>15. /\ Predicted(fit, x) = FixedMulRound(x, fit.ratio) + fit.offset
         /\ Predicted(fit, a) = FixedMulRound(a, fit.ratio) + fit.offset
    BY DEF Predicted
  <2>16. PICK px \in Int : px = Predicted(fit, x)
    BY <2>4, <2>14, <2>15
  <2>17. PICK pa \in Int : pa = Predicted(fit, a)
    BY <2>4
  <2>18. Abs(px - pa) <= Scaled(e) + 1
    BY <2>4, <2>14, <2>15, <2>16, <2>17 DEF Abs
  <2>19. B(i) = px + r /\ d = b - pa
    BY <2>5, <2>13, <2>16, <2>17
  <2> HIDE DEF A, B
  <2>20. CASE q = 1
    <3>1. e = 0 /\ x = a
      BY <2>12, <2>20 DEF Abs
    <3>2. px = pa
      BY <2>16, <2>17, <3>1
    <3>3. r = d
      BY <2>8, <2>20 DEF Abs
    <3>4. B(i) = b
      BY <2>19, <3>2, <3>3
    <3> QED BY <2>2, <2>3, <2>11, <2>20, <3>1, <3>4 DEF Abs
  <2>21. CASE q # 1
    <3>1. Abs(x - a) <= Scaled(e) + 1 + (q \div 2)
      BY <1>4, <2>12 DEF Abs
    <3>2. PICK y \in Int : y = B(i)
      BY <2>19
    <3>3. Abs(y - b) <= Scaled(e) + 1 + (q \div 2)
      BY <1>4, <2>8, <2>18, <2>19, <3>2 DEF Abs
    <3> QED BY <2>2, <2>3, <2>11, <2>21, <3>1, <3>2, <3>3
  <2> QED BY <2>20, <2>21
<1> HIDE DEF A, B, top
<1>6. ASSUME NEW k \in 1 .. 2 * h
      PROVE  back[k] \in Int /\ Abs(back[k] - orig[k]) <= top
  <2>1. CASE k % 2 = 1
    <3>1. PICK i \in 1 .. h : i = (k + 1) \div 2 /\ k = 2 * i - 1
      BY <1>1, <2>1, PairPlaces
    <3> QED BY <1>3, <1>5, <2>1, <3>1
  <2>2. CASE k % 2 # 1
    <3>1. PICK i \in 1 .. h : i = k \div 2 /\ k = 2 * i
      BY <1>1, <2>2, PairPlaces
    <3> QED BY <1>3, <1>5, <2>2, <3>1
  <2> QED BY <2>1, <2>2
<1>7. back \in [1 .. 2 * h -> Int]
  <2>1. back = [k \in 1 .. 2 * h |-> back[k]]
    BY <1>3
  <2> QED BY <1>6, <2>1
<1>8. back \in Seq(Int) /\ Len(back) = Len(orig)
  BY <1>1, <1>7
<1> QED BY <1>1, <1>6, <1>8 DEF back, level, top

\* What the levels may lose.
LEMMA LossesAre ==
  ASSUME NEW n \in Nat, quantStep \in Nat \ {0}
  PROVE  /\ \A l \in 0 .. n : Losses(n)[l] \in Nat /\ (quantStep = 1 => Losses(n)[l] = 0)
         /\ quantStep # 1 => \A l \in 1 .. n :
              Losses(n)[l] = Scaled(Losses(n)[l - 1]) + 1 + (quantStep \div 2)
<1> DEFINE Eq(f) == f = [l \in 0 .. n |-> IF l = 0 \/ quantStep = 1 THEN 0
                              ELSE (Steep * f[l - 1] + FixedOne - 1) \div FixedOne + 1 + quantStep \div 2]
           loss == CHOOSE f : Eq(f)
<1>1. Losses(n) = loss
  BY Zenon DEF Losses, Steep
<1>2. Eq(loss)
  <2> DEFINE G == [x \in (1 .. n) \X Nat |-> IF quantStep = 1 THEN 0
                      ELSE Scaled(x[2]) + 1 + quantStep \div 2]
  <2>0. \A v \in Nat : IF quantStep = 1 THEN 0 \in Nat ELSE Scaled(v) + 1 + quantStep \div 2 \in Nat
    <3>1. quantStep \div 2 \in Nat
      OBVIOUS
    <3>2. \A v \in Nat : Scaled(v) \in Nat
      BY ScaledIs
    <3> QED BY <3>1, <3>2
  <2>1. G \in [(1 .. n) \X Nat -> Nat]
    <3>1. \A x \in (1 .. n) \X Nat : x[2] \in Nat
      OBVIOUS
    <3>2. \A x \in (1 .. n) \X Nat : (IF quantStep = 1 THEN 0 ELSE Scaled(x[2]) + 1 + quantStep \div 2) \in Nat
      BY <2>0, <3>1
    <3> QED BY <3>2
  <2>2. \A l \in 1 .. n, v \in Nat :
          G[<<l, v>>] = IF quantStep = 1 THEN 0 ELSE Scaled(v) + 1 + quantStep \div 2
    OBVIOUS
  <2> HIDE DEF G
  <2>3. PICK t \in [0 .. n -> Nat] : Follows(t, n, 0, G)
    <3>1. 0 \in Nat
      OBVIOUS
    <3> QED BY <2>1, <3>1, Recursion, Zenon
  <2>4. ASSUME NEW l \in 0 .. n
        PROVE  t[l] = IF l = 0 \/ quantStep = 1 THEN 0
                      ELSE (Steep * t[l - 1] + FixedOne - 1) \div FixedOne + 1 + quantStep \div 2
    <3>1. CASE l # 0
      <4>1. l \in 1 .. n /\ l - 1 \in 0 .. n
        BY <3>1
      <4>2. t[l - 1] \in Nat
        BY <4>1
      <4>3. t[l] = G[<<l, t[l - 1]>>]
        BY <2>3, <4>1 DEF Follows
      <4>4. t[l] = IF quantStep = 1 THEN 0 ELSE Scaled(t[l - 1]) + 1 + quantStep \div 2
        BY <2>2, <4>1, <4>2, <4>3
      <4> QED BY <3>1, <4>4 DEF Scaled
    <3> QED BY <2>3, <3>1 DEF Follows
  <2>5. Eq(t)
    BY <2>4
  <2> QED BY <2>5, Zenon
<1> HIDE DEF loss
<1>3. /\ loss[0] = 0
      /\ \A l \in 1 .. n : loss[l] = IF quantStep = 1 THEN 0
                             ELSE Scaled(loss[l - 1]) + 1 + quantStep \div 2
  <2>1. \A l \in 0 .. n : loss[l] = IF l = 0 \/ quantStep = 1 THEN 0
                             ELSE Scaled(loss[l - 1]) + 1 + quantStep \div 2
    BY <1>2 DEF Scaled
  <2>2. \A l \in 1 .. n : l \in 0 .. n /\ l # 0
    OBVIOUS
  <2> QED BY <2>1, <2>2
<1> DEFINE S == {l \in 0 .. n : loss[l] \in Nat /\ (quantStep = 1 => loss[l] = 0)}
<1>4. 0 \in S
  BY <1>3
<1>5. ASSUME NEW l \in 1 .. n, l - 1 \in S PROVE l \in S
  <2>1. loss[l - 1] \in Nat
    BY <1>5
  <2>2. Scaled(loss[l - 1]) \in Nat
    BY <2>1, ScaledIs
  <2>3. quantStep \div 2 \in Nat
    OBVIOUS
  <2> QED BY <1>3, <2>1, <2>2, <2>3
<1> HIDE DEF S
<1>6. \A l \in 0 .. n : l \in S
  BY <1>4, <1>5, Climb
<1> QED BY <1>1, <1>3, <1>6 DEF S

-----------------------------------------------------------------------------
\* The levels of a call: each undoes to the one before it, the first to the padded input.
LiftedLevel == [low : Seq(Int), residual : Seq(Int), fits : UNION {Fits(h) : h \in Nat}]

\* The operators of this section take their arguments explicitly: an input with values,
\* the array that level j is made from, and the level as it was made.
Data(in) == in \in Seq(Int) /\ in # <<>>

At(in, lv, j) == IF j = 1 THEN Padded(in) ELSE lv[j - 1].low

PairsOf(in) == LevelPlan(NextPow2(Len(in))).pairs

Lifted(in, lv, q, j) ==
  /\ j + PairsOf(in)[j] <= NextPow2(Len(in))
  /\ IsPower(PairsOf(in)[j])
  /\ Len(lv[j].low) = PairsOf(in)[j]
  /\ \E fits : Paired(At(in, lv, j), fits, q) /\ lv[j] = Level(At(in, lv, j), fits, q)

\* All of them, which is what the levels of a call are at any time.
Chain(in, lv, q) == lv \in Seq(LiftedLevel) /\ \A j \in 1 .. Len(lv) : Lifted(in, lv, q, j)

\* The padded input.
LEMMA PaddedIs ==
  ASSUME NEW in, Data(in)
  PROVE  LET P == NextPow2(Len(in))
         IN  /\ P \in Nat /\ P >= 1 /\ IsPower(P) /\ Len(in) \in 1 .. P
             /\ Padded(in) \in Seq(Int) /\ Len(Padded(in)) = P
             /\ \A i \in 1 .. Len(in) : Padded(in)[i] = in[i]
<1> DEFINE P == NextPow2(Len(in))
<1>1. in \in Seq(Int) /\ Len(in) \in Nat /\ Len(in) # 0
  BY DEF Data
<1>2. IsPower(P) /\ P >= Len(in)
  BY <1>1, NextPow2Is
<1>3. P \in Nat /\ P >= 1
  BY <1>2, PowerPositive
<1>4. Padded(in) = [i \in 1 .. P |-> in[IF i <= Len(in) THEN i ELSE Len(in)]]
  BY DEF Padded
<1> HIDE DEF P
<1>5. \A i \in 1 .. P : in[IF i <= Len(in) THEN i ELSE Len(in)] \in Int
  BY <1>1, <1>3
<1>6. Padded(in) \in Seq(Int) /\ Len(Padded(in)) = P
  BY <1>3, <1>4, <1>5
<1>7. \A i \in 1 .. Len(in) : Padded(in)[i] = in[i]
  BY <1>1, <1>2, <1>3, <1>4
<1> QED BY <1>1, <1>2, <1>3, <1>6, <1>7 DEF P

\* The levels of the plan are those that still have a pair.
LEMMA LevelsWithPairs ==
  ASSUME NEW P \in Nat, P >= 1, NEW p, IsPlan(p, P)
  PROVE  /\ \A l \in 1 .. p.numLevels : l \in 1 .. P /\ p.pairs[l] \in Nat /\ p.pairs[l] >= 1
         /\ \A n \in 0 .. P : (\A l \in 1 .. n : p.pairs[l] >= 1) => n <= p.numLevels
<1> DEFINE S == {l \in 1 .. P : p.pairs[l] > 0}
           f == p.pairs
<1>1. /\ f \in [1 .. P -> Nat] /\ \A l \in 2 .. P : f[l] = f[l - 1] \div 2
      /\ p.numLevels = Cardinality(S) /\ p.numLevels \in 0 .. P
  BY DEF IsPlan, Halvings
<1> HIDE DEF f
<1>2. ASSUME NEW l \in 1 .. p.numLevels PROVE l \in 1 .. P /\ f[l] \in Nat /\ f[l] >= 1
  <2>1. l \in 1 .. P /\ f[l] \in Nat
    BY <1>1
  <2> SUFFICES ASSUME f[l] = 0 PROVE FALSE
    BY <2>1
  <2> DEFINE Z == {k \in 0 .. P : k >= l => f[k] = 0}
  <2>2. 0 \in Z
    BY <2>1
  <2>3. ASSUME NEW k \in 1 .. P, k - 1 \in Z PROVE k \in Z
    <3>1. CASE k <= l
      BY <2>1, <3>1
    <3>2. CASE k > l
      <4>1. k \in 2 .. P /\ k - 1 >= l /\ k \in 0 .. P
        BY <2>1, <3>2
      <4>2. f[k] = f[k - 1] \div 2 /\ f[k - 1] = 0
        BY <1>1, <2>3, <4>1
      <4> QED BY <4>1, <4>2
    <3> QED BY <2>1, <3>1, <3>2
  <2> HIDE DEF Z
  <2>4. \A k \in 0 .. P : k \in Z
    BY <2>2, <2>3, Climb
  <2>5. S \subseteq 1 .. l - 1
    <3> SUFFICES ASSUME NEW k \in S PROVE k \in 1 .. l - 1
      OBVIOUS
    <3>1. k \in 1 .. P /\ k \in 0 .. P /\ f[k] > 0
      BY DEF f
    <3>2. ~ (k >= l)
      BY <2>4, <3>1 DEF Z
    <3> QED BY <2>1, <3>1, <3>2
  <2> HIDE DEF S
  <2>6. l - 1 \in Nat
    BY <2>1
  <2>7. Cardinality(S) \in 0 .. l - 1
    BY <2>5, <2>6, PartOfInterval
  <2> QED BY <1>1, <2>1, <2>7
<1>3. ASSUME NEW n \in 0 .. P, \A l \in 1 .. n : f[l] >= 1 PROVE n <= p.numLevels
  <2>1. 1 .. n \subseteq S
    <3> SUFFICES ASSUME NEW l \in 1 .. n PROVE l \in S
      OBVIOUS
    <3>1. l \in 1 .. P /\ f[l] >= 1 /\ f[l] \in Nat
      BY <1>1, <1>3
    <3> QED BY <3>1 DEF f
  <2>2. IsFiniteSet(S)
    <3>1. IsFiniteSet(1 .. P) /\ S \subseteq 1 .. P
      BY FS_Interval
    <3> QED BY <3>1, FS_Subset
  <2> HIDE DEF S
  <2>3. Cardinality(1 .. n) <= Cardinality(S)
    BY <2>1, <2>2, FS_Subset
  <2>4. n \in Nat /\ 1 \in Int /\ 1 <= n + 1
    OBVIOUS
  <2>5. Cardinality(1 .. n) = n
    <3>1. Cardinality(1 .. n) = IF 1 > n THEN 0 ELSE n - 1 + 1
      BY <2>4, FS_Interval
    <3> QED BY <2>4, <3>1
  <2> QED BY <1>1, <2>3, <2>5
<1> QED BY <1>2, <1>3 DEF f

\* The array below the last level: its length, and how many levels there can be.
LEMMA ChainAt ==
  ASSUME NEW in, Data(in), NEW q \in Nat \ {0}, NEW lv, Chain(in, lv, q)
  PROVE  LET P == NextPow2(Len(in))
             n == Len(lv)
             c == At(in, lv, n + 1)
         IN  /\ n \in Nat /\ c \in Seq(Int) /\ IsPower(Len(c)) /\ Len(c) \in Nat
             /\ n + Len(c) <= P
             /\ n = 0 => Len(c) = P
             /\ n > 0 => n \in 1 .. P /\ Len(c) = PairsOf(in)[n]
             /\ n <= LevelPlan(P).numLevels
<1> DEFINE P == NextPow2(Len(in))
           n == Len(lv)
           c == At(in, lv, n + 1)
           pairs == PairsOf(in)
<1>1. n \in Nat /\ lv \in Seq(LiftedLevel) /\ \A j \in 1 .. n : Lifted(in, lv, q, j)
  BY DEF Chain
<1>2. P \in Nat /\ P >= 1 /\ IsPower(P) /\ Padded(in) \in Seq(Int) /\ Len(Padded(in)) = P
  BY PaddedIs
<1>3. IsPlan(LevelPlan(P), P)
  BY <1>2, PlanIs
<1>4. ASSUME NEW j \in 1 .. n
      PROVE  j + pairs[j] <= P /\ pairs[j] \in Nat /\ pairs[j] >= 1 /\ IsPower(pairs[j])
             /\ Len(lv[j].low) = pairs[j] /\ j \in 1 .. P
  <2>1. Lifted(in, lv, q, j)
    BY <1>1
  <2>2. j + pairs[j] <= P /\ IsPower(pairs[j]) /\ Len(lv[j].low) = pairs[j]
    BY <2>1 DEF Lifted
  <2>3. pairs[j] \in Nat /\ pairs[j] >= 1
    BY <2>2, PowerPositive
  <2> HIDE DEF pairs, P
  <2> QED BY <1>2, <2>2, <2>3
<1>5. n <= LevelPlan(P).numLevels
  <2>1. n \in 0 .. P
    <3>1. CASE n = 0
      BY <1>2, <3>1
    <3>2. CASE n # 0
      <4>1. n \in 1 .. n
        BY <1>1, <3>2
      <4> QED BY <1>4, <4>1
    <3> QED BY <3>1, <3>2
  <2>2. \A l \in 1 .. n : LevelPlan(P).pairs[l] >= 1
    BY <1>4 DEF PairsOf
  <2> HIDE DEF P, n
  <2> QED BY <1>2, <1>3, <2>1, <2>2, LevelsWithPairs
<1>6. CASE n = 0
  <2>1. c = Padded(in)
    BY <1>6 DEF At
  <2> HIDE DEF c, n, P
  <2> QED BY <1>1, <1>2, <1>5, <1>6, <2>1 DEF c, n, P
<1>7. CASE n # 0
  <2>1. n \in 1 .. n /\ n + 1 # 1 /\ n + 1 - 1 = n
    BY <1>1, <1>7
  <2>2. c = lv[n].low
    BY <2>1 DEF At
  <2>3. lv[n] \in LiftedLevel
    BY <1>1, <2>1
  <2>4. c \in Seq(Int)
    BY <2>2, <2>3 DEF LiftedLevel
  <2>5. n + pairs[n] <= P /\ pairs[n] \in Nat /\ IsPower(pairs[n]) /\ Len(c) = pairs[n] /\ n \in 1 .. P
    BY <1>4, <2>1, <2>2
  <2> HIDE DEF c, n, P, pairs
  <2> QED BY <1>1, <1>5, <1>7, <2>4, <2>5 DEF c, n, P, pairs
<1> QED BY <1>6, <1>7

\* A level has half the pairs of the level before.
LEMMA NextPairs ==
  ASSUME NEW P \in Nat, NEW f, Halvings(f, P), NEW n \in 1 .. P, n + 1 <= P
  PROVE  f[n + 1] = f[n] \div 2
<1>1. \A l \in 2 .. P : f[l] = f[l - 1] \div 2
  BY DEF Halvings
<1>2. n + 1 \in 2 .. P /\ n + 1 - 1 = n
  OBVIOUS
<1>3. PICK m \in 2 .. P : m = n + 1 /\ m - 1 = n
  BY <1>2
<1> QED BY <1>1, <1>3

\* What the next level is made from.
Last(in, lv, c) == c = At(in, lv, Len(lv) + 1)

\* A level is added.
LEMMA ChainGrows ==
  ASSUME NEW in, Data(in), NEW q \in Nat \ {0}, NEW lv, Chain(in, lv, q),
         NEW c, Last(in, lv, c), Len(c) > 1, NEW fits \in Fits(Len(c) \div 2)
  PROVE  LET next == Append(lv, Level(c, fits, q))
         IN  /\ Chain(in, next, q)
             /\ Level(c, fits, q).low \in Seq(Int)
             /\ At(in, next, Len(next) + 1) = Level(c, fits, q).low
<1> DEFINE P == NextPow2(Len(in))
           n == Len(lv)
           pairs == PairsOf(in)
           level == Level(c, fits, q)
           next == Append(lv, level)
<1>1. /\ n \in Nat /\ c \in Seq(Int) /\ IsPower(Len(c)) /\ Len(c) \in Nat /\ n + Len(c) <= P
      /\ n = 0 => Len(c) = P
      /\ n > 0 => n \in 1 .. P /\ Len(c) = pairs[n]
  BY ChainAt DEF Last
<1>2. P \in Nat /\ P >= 1
  BY PaddedIs
<1>3. pairs[1] = P \div 2 /\ Halvings(pairs, P)
  BY <1>2, PlanIs DEF IsPlan, Halvings, PairsOf
<1>4. Len(c) = 2 * (Len(c) \div 2) /\ IsPower(Len(c) \div 2)
  <2>1. Len(c) # 1
    <3>1. PICK m \in Nat : m = Len(c)
      BY <1>1
    <3>2. m > 1
      BY <3>1
    <3> QED BY <3>1, <3>2
  <2> QED BY <1>1, <2>1, PowerHalf
<1>5. Paired(c, fits, q)
  BY <1>1, <1>4 DEF Paired
<1>6. /\ level.low \in Seq(Int) /\ Len(level.low) = Len(c) \div 2 /\ level.fits = fits
      /\ level.residual \in [1 .. Len(c) \div 2 -> Int]
  BY <1>5, LevelParts
<1>7. level \in LiftedLevel
  <2>1. level = [low |-> level.low, residual |-> level.residual, fits |-> level.fits]
    BY DEF Level
  <2>2. Len(c) \div 2 \in Nat
    BY <1>1
  <2>3. level.residual \in Seq(Int)
    <3>1. \A h \in Nat : \A f \in [1 .. h -> Int] : f \in Seq(Int)
      OBVIOUS
    <3> QED BY <1>6, <2>2, <3>1, Zenon
  <2>4. level.fits \in UNION {Fits(h) : h \in Nat}
    BY <1>6, <2>2
  <2> HIDE DEF level
  <2> QED BY <1>6, <2>1, <2>3, <2>4 DEF LiftedLevel
<1> HIDE DEF level
<1>8. lv \in Seq(LiftedLevel) /\ \A j \in 1 .. n : Lifted(in, lv, q, j)
  BY DEF Chain
<1>9. /\ next \in Seq(LiftedLevel) /\ Len(next) = n + 1 /\ next[n + 1] = level
      /\ \A j \in 1 .. n : next[j] = lv[j]
  BY <1>7, <1>8
<1> HIDE DEF next, n
<1>10. \A j \in 1 .. n + 1 : At(in, next, j) = At(in, lv, j)
  <2> SUFFICES ASSUME NEW j \in 1 .. n + 1 PROVE At(in, next, j) = At(in, lv, j)
    OBVIOUS
  <2>1. CASE j = 1
    BY <2>1 DEF At
  <2>2. CASE j # 1
    <3>1. j - 1 \in 1 .. n
      BY <1>1, <2>2
    <3>2. next[j - 1] = lv[j - 1]
      BY <1>9, <3>1
    <3> QED BY <2>2, <3>2 DEF At
  <2> QED BY <2>1, <2>2
<1>11. At(in, next, n + 1) = c
  <2>1. n + 1 \in 1 .. n + 1
    BY <1>1
  <2> QED BY <1>10, <2>1 DEF n, Last
<1>12. pairs[n + 1] = Len(c) \div 2 /\ n + 1 + (Len(c) \div 2) <= P
  <2> HIDE DEF pairs, P
  <2>1. Len(c) \div 2 \in Nat /\ Len(c) >= 1 + (Len(c) \div 2)
    BY <1>1
  <2>2. CASE n = 0
    BY <1>1, <1>2, <1>3, <2>1, <2>2
  <2>3. CASE n # 0
    <3>1. n + 1 \in 2 .. P /\ n + 1 - 1 = n
      BY <1>1, <1>2, <2>3
    <3>2. n \in 1 .. P /\ n + 1 <= P
      BY <1>1, <1>2, <2>3, <3>1
    <3>3. pairs[n + 1] = pairs[n] \div 2
      BY <1>2, <1>3, <3>2, NextPairs
    <3> QED BY <1>1, <1>2, <2>1, <2>3, <3>3
  <2> QED BY <2>2, <2>3
<1>13. ASSUME NEW j \in 1 .. n + 1 PROVE Lifted(in, next, q, j)
  <2>1. CASE j = n + 1
    <3>1. Len(next[j].low) = pairs[j] /\ j + pairs[j] <= P /\ IsPower(pairs[j])
      BY <1>4, <1>6, <1>9, <1>12, <2>1
    <3>2. Paired(At(in, next, j), fits, q) /\ next[j] = Level(At(in, next, j), fits, q)
      BY <1>5, <1>9, <1>11, <2>1 DEF level
    <3> QED BY <3>1, <3>2 DEF Lifted
  <2>2. CASE j # n + 1
    <3>1. j \in 1 .. n
      BY <1>1, <2>2
    <3>2. Lifted(in, lv, q, j) /\ next[j] = lv[j] /\ At(in, next, j) = At(in, lv, j)
      BY <1>8, <1>9, <1>10, <3>1
    <3> QED BY <3>2 DEF Lifted
  <2> QED BY <2>1, <2>2
<1>14. Chain(in, next, q)
  BY <1>9, <1>13 DEF Chain
<1>15. At(in, next, Len(next) + 1) = level.low
  <2>1. Len(next) + 1 # 1 /\ Len(next) + 1 - 1 = n + 1
    BY <1>1, <1>9
  <2> QED BY <1>9, <2>1 DEF At
<1> QED BY <1>6, <1>14, <1>15 DEF next, level

\* A level is taken away.
LEMMA ChainShrinks ==
  ASSUME NEW in, Data(in), NEW q \in Nat \ {0}, NEW lv, Chain(in, lv, q), lv # <<>>
  PROVE  LET rest == SubSeq(lv, 1, Len(lv) - 1)
         IN  /\ Chain(in, rest, q) /\ Len(rest) = Len(lv) - 1 /\ Len(lv) \in Nat \ {0}
             /\ At(in, rest, Len(rest) + 1) = At(in, lv, Len(lv))
             /\ At(in, lv, Len(lv) + 1) = lv[Len(lv)].low
             /\ \E fits : /\ Paired(At(in, lv, Len(lv)), fits, q)
                          /\ lv[Len(lv)] = Level(At(in, lv, Len(lv)), fits, q)
<1> DEFINE n == Len(lv)
           rest == SubSeq(lv, 1, n - 1)
<1>1. lv \in Seq(LiftedLevel) /\ n \in Nat \ {0} /\ \A j \in 1 .. n : Lifted(in, lv, q, j)
  BY DEF Chain
<1>2. rest \in Seq(LiftedLevel) /\ Len(rest) = n - 1 /\ \A j \in 1 .. n - 1 : rest[j] = lv[j]
  <2>1. lv \in Seq(LiftedLevel) /\ n - 1 \in Nat /\ n - 1 <= Len(lv)
    BY <1>1
  <2> HIDE DEF n
  <2> QED BY <2>1
<1> HIDE DEF rest, n
<1>3. ASSUME NEW j \in 1 .. n PROVE At(in, rest, j) = At(in, lv, j)
  <2>1. CASE j = 1
    BY <2>1 DEF At
  <2>2. CASE j # 1
    <3>1. j - 1 \in 1 .. n - 1
      BY <1>1, <2>2
    <3>2. rest[j - 1] = lv[j - 1]
      BY <1>2, <3>1
    <3> QED BY <2>2, <3>2 DEF At
  <2> QED BY <2>1, <2>2
<1>4. ASSUME NEW j \in 1 .. n - 1 PROVE Lifted(in, rest, q, j)
  <2>1. j \in 1 .. n
    BY <1>1
  <2>2. Lifted(in, lv, q, j) /\ rest[j] = lv[j] /\ At(in, rest, j) = At(in, lv, j)
    BY <1>1, <1>2, <1>3, <2>1
  <2> QED BY <2>2 DEF Lifted
<1>5. Chain(in, rest, q)
  BY <1>2, <1>4 DEF Chain
<1>6. n \in 1 .. n /\ Len(rest) + 1 = n /\ n + 1 # 1 /\ n + 1 - 1 = n
  BY <1>1, <1>2
<1>7. Lifted(in, lv, q, n)
  BY <1>1, <1>6
<1>8. At(in, rest, Len(rest) + 1) = At(in, lv, n)
  BY <1>3, <1>6
<1>9. At(in, lv, n + 1) = lv[n].low
  BY <1>6 DEF At
<1> QED BY <1>1, <1>2, <1>5, <1>7, <1>8, <1>9 DEF Lifted, rest, n
-----------------------------------------------------------------------------
\* The values of the lift. On the way down the array is what the last level left, on
\* the way back it is close to it.
Down == stage \in {"ensure", "pipeline", "tail", "cpu", "download"}

NoData == input = <<>> => levels = <<>> /\ cur = <<>> /\ ~Down

\* The error that n levels still to be undone leave room for.
Allowed(n) == Losses(NextPow2(Len(input)))[Plan.numLevels - n]

Close(a, b, e) == Len(a) = Len(b) /\ \A i \in 1 .. Len(b) : Abs(a[i] - b[i]) <= e

\* The inductive invariant of the values.
ValueInv ==
  /\ input \in Seq(Int) /\ cur \in Seq(Int)
  /\ quantStep \in Nat \ {0} /\ (call # "cpu" => quantStep = 1)
  /\ NoData
  /\ input # <<>> => Chain(input, levels, quantStep)
  /\ Down => cur = At(input, levels, Len(levels) + 1)
  /\ stage = "inverse" /\ input # <<>> =>
       Close(cur, At(input, levels, Len(levels) + 1), Allowed(Len(levels)))
  /\ LiftRoundTrip

\* The bound depends on the step and on the length alone.
LEMMA SameBounds ==
  ASSUME UNCHANGED <<input, quantStep>>
  PROVE  /\ Plan' = Plan /\ LossBound(NextPow2(Len(input)))' = LossBound(NextPow2(Len(input)))
         /\ \A n : Losses(n)' = Losses(n)
         /\ \A n : Allowed(n)' = Allowed(n)
<1>1. Plan' = Plan
  BY DEF Plan
<1>2. ASSUME NEW n PROVE Losses(n)' = Losses(n)
  BY DEF Losses
<1> QED BY <1>1, <1>2 DEF LossBound, Allowed

\* The room grows by what one level may lose.
LEMMA AllowedIs ==
  ASSUME Data(input), quantStep \in Nat \ {0}, Chain(input, levels, quantStep)
  PROVE  /\ Len(levels) \in Nat /\ Allowed(Len(levels)) \in Nat
         /\ quantStep = 1 => Allowed(Len(levels)) = 0
         /\ Len(levels) > 0 =>
              Allowed(Len(levels) - 1) = IF quantStep = 1 THEN 0
                 ELSE Scaled(Allowed(Len(levels))) + 1 + (quantStep \div 2)
         /\ Allowed(0) = LossBound(NextPow2(Len(input)))
<1> DEFINE P == NextPow2(Len(input))
           n == Len(levels)
           loss == Losses(P)
<1>1. n \in Nat /\ n <= Plan.numLevels
  BY ChainAt DEF Plan
<1>2. P \in Nat /\ P >= 1
  BY PaddedIs
<1>3. Plan.numLevels \in 0 .. P
  BY <1>2, PlanIs DEF IsPlan, Plan
<1>4. /\ \A l \in 0 .. P : loss[l] \in Nat /\ (quantStep = 1 => loss[l] = 0)
      /\ quantStep # 1 => \A l \in 1 .. P : loss[l] = Scaled(loss[l - 1]) + 1 + (quantStep \div 2)
  BY <1>2, LossesAre
<1>5. \A k : Allowed(k) = loss[Plan.numLevels - k]
  BY DEF Allowed
<1>6. Allowed(0) = LossBound(P)
  <2>1. Plan.numLevels - 0 = Plan.numLevels
    BY <1>3
  <2> QED BY <1>5, <2>1 DEF LossBound, Plan
<1> HIDE DEF P, n, loss
<1>7. PICK m \in 0 .. P : m = Plan.numLevels
  BY <1>3
<1>8. m - n \in 0 .. P
  BY <1>1, <1>2, <1>7
<1>9. Allowed(n) = loss[m - n]
  BY <1>5, <1>7
<1>10. Allowed(n) \in Nat /\ (quantStep = 1 => Allowed(n) = 0)
  BY <1>4, <1>8, <1>9
<1>11. ASSUME n > 0
       PROVE  Allowed(n - 1) = IF quantStep = 1 THEN 0
                ELSE Scaled(Allowed(n)) + 1 + (quantStep \div 2)
  <2>1. PICK l \in 1 .. P : l = m - (n - 1) /\ l - 1 = m - n
    BY <1>1, <1>2, <1>7, <1>11
  <2>2. Allowed(n - 1) = loss[l]
    BY <1>5, <1>7, <2>1
  <2>3. l \in 0 .. P
    BY <1>2, <2>1
  <2>4. Allowed(n) = loss[l - 1]
    BY <1>9, <2>1
  <2> QED BY <1>4, <2>1, <2>2, <2>3, <2>4
<1> QED BY <1>1, <1>6, <1>10, <1>11 DEF n, P

\* No levels yet.
LEMMA ChainEmpty ==
  ASSUME NEW in, NEW q
  PROVE  /\ Chain(in, <<>>, q) /\ At(in, <<>>, Len(<<>>) + 1) = Padded(in)
         /\ Len(<<>>) = 0
<1>1. Len(<<>>) = 0 /\ <<>> \in Seq(LiftedLevel) /\ Len(<<>>) + 1 = 1
  OBVIOUS
<1> QED BY <1>1 DEF Chain, At

\* The invariant holds at the start, and each action keeps it.
LEMMA ValueInit == LiftInit => ValueInv
<1> SUFFICES ASSUME LiftInit PROVE ValueInv
  OBVIOUS
<1>1. /\ input = <<>> /\ cur = <<>> /\ levels = <<>> /\ quantStep = 1 /\ stage = "idle" /\ call = "cpu"
      /\ input \in Seq(Int) /\ cur \in Seq(Int) /\ Len(input) = 0 /\ Len(cur) = 0
  BY DEF LiftInit
<1>2. LiftRoundTrip
  <2>1. DOMAIN input = {}
    BY <1>1
  <2> QED BY <1>1, <2>1 DEF LiftRoundTrip
<1>3. ~Down /\ stage # "inverse"
  BY <1>1 DEF Down
<1> QED BY <1>1, <1>2, <1>3 DEF ValueInv, NoData

LEMMA ValueStart ==
  ASSUME ValueInv, NEW c \in {"session", "oneshot", "cpu"}, NEW i \in Inputs, NEW q \in LiftSteps,
         Start(c, i, q)
  PROVE  ValueInv'
<1>1. i \in Seq(Int) /\ q \in Nat
  BY SessionAssumption
<1>2. /\ input' = i /\ levels' = <<>> /\ call' = c /\ quantStep' = (IF q = 0 THEN 1 ELSE q)
      /\ c # "cpu" => q = 1
      /\ cur' = IF i = <<>> THEN <<>> ELSE Padded(i)
      /\ stage' = IF i = <<>> THEN "inverse" ELSE IF c = "cpu" THEN "cpu" ELSE "ensure"
  BY DEF Start
<1>3. quantStep' \in Nat \ {0} /\ (call' # "cpu" => quantStep' = 1)
  BY <1>1, <1>2
<1>4. LiftRoundTrip'
  <2>1. stage' # "idle"
    BY <1>2
  <2> QED BY <2>1 DEF LiftRoundTrip
<1>5. CASE i = <<>>
  <2>1. cur' = <<>> /\ stage' = "inverse" /\ cur' \in Seq(Int)
    BY <1>2, <1>5
  <2>2. ~Down'
    BY <2>1 DEF Down
  <2> QED BY <1>1, <1>2, <1>3, <1>4, <1>5, <2>1, <2>2 DEF ValueInv, NoData
<1>6. CASE i # <<>>
  <2>1. cur' = Padded(i) /\ stage' # "inverse"
    BY <1>2, <1>6
  <2>2. cur' \in Seq(Int)
    BY <1>1, <1>6, <2>1, PaddedIs DEF Data
  <2>3. Chain(input', levels', quantStep') /\ cur' = At(input', levels', Len(levels') + 1)
    BY <1>2, <2>1, ChainEmpty
  <2> QED BY <1>1, <1>2, <1>3, <1>4, <1>6, <2>1, <2>2, <2>3 DEF ValueInv, NoData
<1> QED BY <1>5, <1>6

\* Nothing of what the device left is used when it gave up.
LEMMA ValueGivenUp ==
  ASSUME ValueInv, Down, GiveUp
  PROVE  ValueInv'
<1>1. /\ stage' = "cpu" /\ cur' = Padded(input) /\ levels' = <<>>
      /\ UNCHANGED <<call, input, quantStep>>
  BY DEF GiveUp, request
<1>2. input \in Seq(Int) /\ input # <<>> /\ Data(input)
  BY DEF ValueInv, NoData, Data
<1>3. cur' \in Seq(Int)
  BY <1>1, <1>2, PaddedIs
<1>4. Chain(input', levels', quantStep') /\ cur' = At(input', levels', Len(levels') + 1)
  BY <1>1, ChainEmpty
<1>5. stage' # "inverse" /\ stage' # "idle"
  BY <1>1
<1>6. LiftRoundTrip'
  BY <1>5 DEF LiftRoundTrip
<1>7. quantStep' \in Nat \ {0} /\ (call' # "cpu" => quantStep' = 1)
  BY <1>1 DEF ValueInv
<1> QED BY <1>1, <1>2, <1>3, <1>4, <1>5, <1>6, <1>7 DEF ValueInv, NoData

\* A step on the way down that computes nothing, or the last of them.
LEMMA ValueMoves ==
  ASSUME ValueInv, Down, UNCHANGED <<request, cur, levels>>, Down' \/ stage' = "inverse"
  PROVE  ValueInv'
<1>1. UNCHANGED <<call, input, quantStep, cur, levels>>
  BY DEF request
<1>2. Data(input) /\ Chain(input, levels, quantStep) /\ quantStep \in Nat \ {0}
      /\ cur = At(input, levels, Len(levels) + 1) /\ cur \in Seq(Int) /\ input # <<>>
  BY DEF ValueInv, NoData, Data
<1>3. stage' # "idle"
  BY DEF Down
<1>4. LiftRoundTrip'
  BY <1>3 DEF LiftRoundTrip
<1>5. Close(cur, At(input, levels, Len(levels) + 1), Allowed(Len(levels)))
  <2>1. Allowed(Len(levels)) \in Nat
    BY <1>2, AllowedIs
  <2>2. ASSUME NEW k \in 1 .. Len(cur) PROVE Abs(cur[k] - cur[k]) <= Allowed(Len(levels))
    <3>1. cur[k] \in Int
      BY <1>2
    <3> QED BY <2>1, <3>1 DEF Abs
  <2> QED BY <1>2, <2>2 DEF Close
<1>6. Allowed(Len(levels))' = Allowed(Len(levels))
  <2>1. \A n : Allowed(n)' = Allowed(n)
    BY <1>1, SameBounds
  <2> QED BY <1>1 DEF Allowed, Plan, Losses
<1>7. (stage = "inverse" /\ input # <<>> =>
         Close(cur, At(input, levels, Len(levels) + 1), Allowed(Len(levels))))'
  BY <1>1, <1>5, <1>6
<1>8. NoData' /\ (input # <<>> => Chain(input, levels, quantStep))'
      /\ (Down => cur = At(input, levels, Len(levels) + 1))'
  BY <1>1, <1>2 DEF NoData
<1> QED BY <1>1, <1>4, <1>7, <1>8 DEF ValueInv

\* Memory is ensured, or the device gives up.
LEMMA ValueEnsure ==
  ASSUME ValueInv, MemInv, EnsureCapacity
  PROVE  ValueInv'
<1>1. stage = "ensure" /\ Down
  BY DEF EnsureCapacity, Down
<1>2. PICK got \in Given(group) :
        LET enough == Need(group) <= cap[call][group]
            whole == enough \/ got = Groups[group]
        IN  /\ ~whole => GiveUp
            /\ whole => /\ stage' = IF group = 6 THEN "pipeline" ELSE IF group = 9 THEN "download"
                                 ELSE "ensure"
                        /\ UNCHANGED <<request, cur, levels>>
  BY DEF EnsureCapacity
<1> DEFINE whole == Need(group) <= cap[call][group] \/ got = Groups[group]
<1>3. CASE whole
  <2>1. UNCHANGED <<request, cur, levels>>
    BY <1>2, <1>3
  <2>2. stage' = IF group = 6 THEN "pipeline" ELSE IF group = 9 THEN "download" ELSE "ensure"
    BY <1>2, <1>3
  <2>3. Down'
    <3>1. stage' = "pipeline" \/ stage' = "download" \/ stage' = "ensure"
      BY <2>2, Zenon
    <3> QED BY <3>1 DEF Down
  <2> QED BY <1>1, <2>1, <2>3, ValueMoves
<1>4. CASE ~whole
  <2>1. GiveUp
    BY <1>2, <1>4
  <2> QED BY <1>1, <2>1, ValueGivenUp
<1> QED BY <1>3, <1>4

\* One more level, on either device.
LEMMA ValueLevel ==
  ASSUME ValueInv, Down, Down', UNCHANGED request, Len(cur) > 1,
         NEW fits \in Fits(Len(cur) \div 2),
         levels' = Append(levels, Level(cur, fits, quantStep)),
         cur' = Level(cur, fits, quantStep).low
  PROVE  ValueInv'
<1>1. UNCHANGED <<call, input, quantStep>>
  BY DEF request
<1>2. Data(input) /\ Chain(input, levels, quantStep) /\ quantStep \in Nat \ {0}
      /\ cur = At(input, levels, Len(levels) + 1) /\ cur \in Seq(Int) /\ input # <<>>
  BY DEF ValueInv, NoData, Data
<1>3. Last(input, levels, cur)
  BY <1>2 DEF Last
<1> DEFINE next == Append(levels, Level(cur, fits, quantStep))
           low == Level(cur, fits, quantStep).low
<1>4. Chain(input, next, quantStep) /\ low \in Seq(Int) /\ At(input, next, Len(next) + 1) = low
  BY <1>2, <1>3, ChainGrows
<1>5. levels' = next /\ cur' = low
  OBVIOUS
<1> HIDE DEF next, low
<1>6. stage' # "idle" /\ stage' # "inverse"
  BY DEF Down
<1>7. LiftRoundTrip'
  BY <1>6 DEF LiftRoundTrip
<1> QED BY <1>1, <1>2, <1>4, <1>5, <1>6, <1>7 DEF ValueInv, NoData

\* On the device, where the plan says how many levels have a pair.
LEMMA ValueGpuLevel ==
  ASSUME ValueInv, MemInv, GpuLevel
  PROVE  ValueInv'
<1>1. /\ stage = "pipeline" /\ Len(levels) < Plan.gpuLevels /\ UNCHANGED <<request, stage>>
      /\ \E fits \in Fits(Len(cur) \div 2) :
           /\ levels' = Append(levels, Level(cur, fits, 1)) /\ cur' = Level(cur, fits, 1).low
  BY DEF GpuLevel
<1>2. Down /\ Down' /\ OnDevice
  BY <1>1 DEF Down, OnDevice
<1>3. quantStep = 1
  <2>1. call \in Owners
    BY <1>2 DEF MemInv, Ensured
  <2>2. call # "cpu"
    BY <2>1 DEF Owners
  <2> QED BY <2>2 DEF ValueInv
<1>4. Data(input) /\ Chain(input, levels, quantStep) /\ quantStep \in Nat \ {0}
      /\ cur = At(input, levels, Len(levels) + 1) /\ cur \in Seq(Int)
  BY <1>2 DEF ValueInv, NoData, Data
<1>5. Len(cur) > 1
  <2> DEFINE P == NextPow2(Len(input))
             n == Len(levels)
  <2>1. /\ n \in Nat /\ Len(cur) \in Nat
        /\ n = 0 => Len(cur) = P
        /\ n > 0 => n \in 1 .. P /\ Len(cur) = Plan.pairs[n]
    BY <1>4, ChainAt DEF PairsOf, Plan
  <2>2. P \in Nat /\ P >= 1
    BY <1>4, PaddedIs
  <2>3. IsPlan(Plan, P)
    BY <2>2, PlanIs DEF Plan
  <2>4. Plan.gpuLevels \in 0 .. Plan.numLevels /\ Plan.numLevels \in 0 .. P
        /\ Halvings(Plan.pairs, P) /\ Plan.pairs[1] = P \div 2
    BY <2>3 DEF IsPlan, Halvings
  <2>5. /\ \A l \in 1 .. Plan.numLevels : l \in 1 .. P /\ Plan.pairs[l] \in Nat /\ Plan.pairs[l] >= 1
    BY <2>2, <2>3, LevelsWithPairs
  <2> HIDE DEF P, n
  <2>6. n + 1 \in 1 .. Plan.numLevels
    <3>1. n < Plan.gpuLevels
      BY <1>1 DEF n
    <3>2. PICK a \in Nat : a = Plan.numLevels
      BY <2>4
    <3>3. PICK b \in 0 .. a : b = Plan.gpuLevels
      BY <2>4, <3>2
    <3> QED BY <2>1, <3>1, <3>2, <3>3
  <2>7. Plan.pairs[n + 1] \in Nat /\ Plan.pairs[n + 1] >= 1 /\ n + 1 \in 1 .. P
    BY <2>5, <2>6
  <2>8. CASE n = 0
    <3>1. Plan.pairs[1] >= 1
      BY <2>7, <2>8
    <3> QED BY <2>1, <2>2, <2>4, <2>8, <3>1
  <2>9. CASE n # 0
    <3>1. n \in 1 .. P /\ n + 1 <= P
      BY <2>1, <2>2, <2>7, <2>9
    <3>2. Plan.pairs[n + 1] = Plan.pairs[n] \div 2
      BY <2>2, <2>4, <3>1, NextPairs
    <3> QED BY <2>1, <2>7, <2>9, <3>2
  <2> QED BY <2>8, <2>9
<1>6. PICK fits \in Fits(Len(cur) \div 2) :
        /\ levels' = Append(levels, Level(cur, fits, quantStep))
        /\ cur' = Level(cur, fits, quantStep).low
  BY <1>1, <1>3
<1>7. UNCHANGED request
  BY <1>1
<1> QED BY <1>2, <1>5, <1>6, <1>7, ValueLevel

\* On the CPU.
LEMMA ValueCpuLevel ==
  ASSUME ValueInv, CpuLevel
  PROVE  ValueInv'
<1>1. /\ stage \in {"tail", "cpu"} /\ Len(cur) > 1 /\ UNCHANGED request /\ UNCHANGED stage
      /\ \E fits \in Fits(Len(cur) \div 2) :
           /\ levels' = Append(levels, Level(cur, fits, quantStep))
           /\ cur' = Level(cur, fits, quantStep).low
  BY DEF CpuLevel
<1>2. Down /\ Down'
  BY <1>1 DEF Down
<1> QED BY <1>1, <1>2, ValueLevel

\* A level of the inverse.
LEMMA ValueInverse ==
  ASSUME ValueInv, InverseLevel
  PROVE  ValueInv'
<1> DEFINE n == Len(levels)
           back == At(input, levels, n)
           rest == SubSeq(levels, 1, n - 1)
<1>1. /\ stage = "inverse" /\ levels # <<>> /\ UNCHANGED <<call, input, quantStep, stage>>
      /\ cur' = Unlevel(cur, levels[n], quantStep) /\ levels' = rest
  BY DEF InverseLevel, request
<1>2. input # <<>> /\ Data(input) /\ Chain(input, levels, quantStep) /\ quantStep \in Nat \ {0}
      /\ Close(cur, At(input, levels, n + 1), Allowed(n)) /\ cur \in Seq(Int)
  BY <1>1 DEF ValueInv, NoData, Data
<1>3. /\ Chain(input, rest, quantStep) /\ Len(rest) = n - 1 /\ n \in Nat \ {0}
      /\ At(input, rest, Len(rest) + 1) = back
      /\ At(input, levels, n + 1) = levels[n].low
      /\ \E fits : Paired(back, fits, quantStep) /\ levels[n] = Level(back, fits, quantStep)
  BY <1>1, <1>2, ChainShrinks
<1>4. PICK fits : Paired(back, fits, quantStep) /\ levels[n] = Level(back, fits, quantStep)
  BY <1>3
<1>5. /\ Allowed(n) \in Nat /\ (quantStep = 1 => Allowed(n) = 0)
      /\ Allowed(n - 1) = IF quantStep = 1 THEN 0 ELSE Scaled(Allowed(n)) + 1 + (quantStep \div 2)
  BY <1>2, <1>3, AllowedIs
<1> DEFINE level == Level(back, fits, quantStep)
           next == Unlevel(cur, level, quantStep)
<1>6. level.low \in Seq(Int) /\ Len(level.low) = Len(back) \div 2
  BY <1>4, LevelParts
<1>7. Len(cur) = Len(back) \div 2 /\ \A i \in 1 .. Len(cur) : Abs(cur[i] - level.low[i]) <= Allowed(n)
  BY <1>2, <1>3, <1>4, <1>6 DEF Close
<1> HIDE DEF n, back, rest
<1>8. /\ next \in Seq(Int) /\ Len(next) = Len(back)
      /\ \A k \in 1 .. Len(back) : Abs(next[k] - back[k])
           <= IF quantStep = 1 THEN 0 ELSE Scaled(Allowed(n)) + 1 + (quantStep \div 2)
  BY <1>2, <1>4, <1>5, <1>7, UnlevelNear
<1>9. Close(next, back, Allowed(n - 1))
  BY <1>5, <1>8 DEF Close
<1>10. cur' = next /\ levels' = rest
  BY <1>1, <1>4
<1> HIDE DEF next
<1>12. Close(cur', At(input', levels', Len(levels') + 1), Allowed(Len(levels))')
  <2>1. At(input', levels', Len(levels') + 1) = back
    BY <1>1, <1>3, <1>10
  <2>2. Allowed(Len(levels))' = Allowed(n - 1)
    BY <1>1, <1>3, <1>10 DEF Allowed, Plan, Losses
  <2> QED BY <1>9, <1>10, <2>1, <2>2
<1>13. LiftRoundTrip'
  <2>1. stage' # "idle"
    BY <1>1
  <2> QED BY <2>1 DEF LiftRoundTrip
<1>14. ~Down'
  BY <1>1 DEF Down
<1> QED BY <1>1, <1>2, <1>3, <1>8, <1>10, <1>12, <1>13, <1>14 DEF ValueInv, NoData

\* The padding is cut off.
LEMMA ValueDone ==
  ASSUME ValueInv, InverseDone
  PROVE  ValueInv'
<1>1. /\ stage = "inverse" /\ levels = <<>> /\ UNCHANGED <<call, input, quantStep, levels>>
      /\ cur' = SubSeq(cur, 1, Len(input)) /\ stage' = "idle"
  BY DEF InverseDone, request
<1>2. ~Down' /\ stage' # "inverse"
  BY <1>1 DEF Down
<1>3. input \in Seq(Int) /\ cur \in Seq(Int) /\ quantStep \in Nat \ {0}
  BY DEF ValueInv
<1>4. cur' \in Seq(Int) /\ LiftRoundTrip' /\ (input = <<>> => cur' = <<>>)
  <2>1. CASE input = <<>>
    <3>1. cur = <<>> /\ Len(input) = 0 /\ DOMAIN input = {}
      BY <2>1 DEF ValueInv, NoData
    <3>2. cur' = <<>>
      BY <1>1, <3>1
    <3>3. Len(cur') = Len(input') /\ DOMAIN input' = {}
      BY <1>1, <2>1, <3>1, <3>2
    <3>4. LiftRoundTrip'
      BY <3>3 DEF LiftRoundTrip
    <3>5. cur' \in Seq(Int)
      BY <3>2
    <3> QED BY <3>2, <3>4, <3>5
  <2>2. CASE input # <<>>
    <3> DEFINE P == NextPow2(Len(input))
    <3>1. Data(input) /\ Chain(input, levels, quantStep)
          /\ Close(cur, At(input, levels, Len(levels) + 1), Allowed(Len(levels)))
      BY <1>1, <2>2 DEF ValueInv, Data
    <3>2. Len(levels) = 0 /\ At(input, levels, Len(levels) + 1) = Padded(input)
      BY <1>1, ChainEmpty
    <3>3. Allowed(0) = LossBound(P)
      BY <1>3, <3>1, AllowedIs
    <3>4. /\ P \in Nat /\ Len(input) \in 1 .. P /\ Len(Padded(input)) = P
          /\ \A i \in 1 .. Len(input) : Padded(input)[i] = input[i]
      BY <3>1, PaddedIs
    <3>5. Len(cur) = P /\ \A i \in 1 .. P : Abs(cur[i] - Padded(input)[i]) <= LossBound(P)
      BY <3>1, <3>2, <3>3, <3>4 DEF Close
    <3>6. LossBound(P)' = LossBound(P)
      BY <1>1, SameBounds
    <3> HIDE DEF P
    <3>7. /\ cur' \in Seq(Int) /\ Len(cur') = Len(input)
          /\ \A i \in 1 .. Len(input) : cur'[i] = cur[i]
      BY <1>1, <1>3, <3>4, <3>5
    <3>8. \A i \in 1 .. Len(input) : Abs(cur'[i] - input[i]) <= LossBound(P)
      BY <3>4, <3>5, <3>7
    <3>9. DOMAIN input = 1 .. Len(input)
      BY <1>3
    <3>10. LiftRoundTrip'
      BY <1>1, <3>6, <3>7, <3>8, <3>9 DEF LiftRoundTrip, P
    <3> QED BY <2>2, <3>7, <3>10
  <2> QED BY <2>1, <2>2
<1> QED BY <1>1, <1>2, <1>3, <1>4 DEF ValueInv, NoData

\* Every step keeps the invariant.
LEMMA ValueStep == ValueInv /\ MemInv /\ [LiftNext]_liftVars => ValueInv'
<1> SUFFICES ASSUME ValueInv, MemInv, [LiftNext]_liftVars PROVE ValueInv'
  OBVIOUS
<1>1. ASSUME NEW c \in {"session", "oneshot", "cpu"}, NEW i \in Inputs, NEW q \in LiftSteps,
             Start(c, i, q)
      PROVE  ValueInv'
  BY <1>1, ValueStart
<1>2. CASE EnsureCapacity
  BY <1>2, ValueEnsure
<1>3. CASE DeviceFails
  <2>1. GiveUp /\ Down
    BY <1>3 DEF DeviceFails, Down
  <2> QED BY <2>1, ValueGivenUp
<1>4. CASE GpuLevel
  BY <1>4, ValueGpuLevel
<1>5. CASE HandOff
  <2>1. UNCHANGED <<request, cur, levels>> /\ stage = "pipeline" /\ stage' = "tail"
    BY <1>5 DEF HandOff
  <2>2. Down /\ Down'
    BY <2>1 DEF Down
  <2> QED BY <2>1, <2>2, ValueMoves
<1>6. CASE CpuLevel
  BY <1>6, ValueCpuLevel
<1>7. CASE BaseReached
  <2>1. /\ UNCHANGED <<request, cur, levels>> /\ stage \in {"tail", "cpu"}
        /\ stage' = IF stage = "tail" THEN "ensure" ELSE "inverse"
    BY <1>7 DEF BaseReached
  <2>2. stage' = "ensure" \/ stage' = "inverse"
    BY <2>1, Zenon
  <2>3. Down /\ (Down' \/ stage' = "inverse")
    BY <2>1, <2>2 DEF Down
  <2> QED BY <2>1, <2>3, ValueMoves
<1>8. CASE Download
  <2>1. UNCHANGED <<request, cur, levels>> /\ stage = "download" /\ stage' = "inverse"
    BY <1>8 DEF Download
  <2>2. Down
    BY <2>1 DEF Down
  <2> QED BY <2>1, <2>2, ValueMoves
<1>9. CASE InverseLevel
  BY <1>9, ValueInverse
<1>10. CASE InverseDone
  BY <1>10, ValueDone
<1>11. CASE ThreadEnds
  <2>1. UNCHANGED <<call, input, quantStep, cur, levels>> /\ stage = "idle" /\ stage' = "ended"
    BY <1>11 DEF ThreadEnds, request
  <2>2. ~Down' /\ stage' # "inverse" /\ stage' # "idle"
    BY <2>1 DEF Down
  <2>3. LiftRoundTrip'
    BY <2>2 DEF LiftRoundTrip
  <2> QED BY <2>1, <2>2, <2>3 DEF ValueInv, NoData
<1>12. CASE UNCHANGED liftVars
  <2>1. UNCHANGED <<call, input, quantStep, cur, levels, stage>>
    BY <1>12 DEF liftVars, request
  <2>2. LossBound(NextPow2(Len(input)))' = LossBound(NextPow2(Len(input)))
    BY <2>1, SameBounds
  <2>3. LiftRoundTrip'
    BY <2>1, <2>2 DEF LiftRoundTrip, ValueInv
  <2>4. Allowed(Len(levels))' = Allowed(Len(levels))
    BY <2>1 DEF Allowed, Plan, Losses
  <2>5. (stage = "inverse" /\ input # <<>> =>
           Close(cur, At(input, levels, Len(levels) + 1), Allowed(Len(levels))))'
    BY <2>1, <2>4 DEF ValueInv
  <2> QED BY <2>1, <2>3, <2>5 DEF ValueInv, NoData, Down
<1> QED BY <1>1, <1>2, <1>3, <1>4, <1>5, <1>6, <1>7, <1>8, <1>9, <1>10, <1>11, <1>12 DEF LiftNext

\* The inductive invariant of the lift's values: each level undoes to the one before it.
THEOREM ValuesInvariant == LiftSpec => []ValueInv
  BY ValueInit, ValueStep, SessionInvariant, PTL DEF LiftSpec

\* What pantograph_lift and its inverse promise, for inputs of every length and any fits.
THEOREM LiftComesBack == LiftSpec => []LiftRoundTrip
<1>1. ValueInv => LiftRoundTrip
  BY DEF ValueInv
<1> QED BY <1>1, ValuesInvariant, PTL

\* No kernel and no copy reaches past a buffer, whatever the length and whichever call
\* the buffer was made for (run_level_pipeline, copy_results_to_host).
THEOREM KernelsStayInBounds == LiftSpec => []KernelsInBounds
<1>1. MemInv /\ ValueInv => KernelsInBounds
  <2> SUFFICES ASSUME MemInv, ValueInv PROVE KernelsInBounds
    OBVIOUS
  <2> DEFINE P == NextPow2(Len(input))
  <2>1. P \in Nat /\ P >= 1 /\ IsPlan(Plan, P)
    BY PlanOfInput DEF MemInv, MemShape
  <2>2. ASSUME stage \in {"pipeline", "download"}, NEW g \in 1 .. 9, g < group, NEW b \in Groups[g]
        PROVE  Need(g) <= alloc[call][b]
    <3>1. call \in Owners /\ b \in Buffers
      BY <2>2, GroupFacts DEF MemInv, Ensured, OnDevice
    <3>2. Need(g) <= cap[call][g] /\ cap[call][g] <= alloc[call][b]
      BY <2>2, <3>1 DEF MemInv, Ensured, OnDevice, Backed
    <3>3. Need(g) \in Nat /\ cap[call][g] \in Nat /\ alloc[call][b] \in Nat
      <4>1. Need(g) \in Nat
        BY NeedIs DEF MemInv, MemShape
      <4>2. alloc \in [Owners -> [Buffers -> Nat]] /\ cap \in [Owners -> [1 .. 9 -> Nat]]
        BY DEF MemInv, MemShape
      <4> QED BY <3>1, <4>1, <4>2
    <3> QED BY <3>2, <3>3
  <2>3. ASSUME stage \in {"pipeline", "download"}, NEW g \in 1 .. 9, g < group, NEW b \in Groups[g],
               NEW n \in Nat, n <= Need(g)
        PROVE  n <= alloc[call][b]
    <3>1. call \in Owners /\ b \in Buffers
      BY <2>3, GroupFacts DEF MemInv, Ensured, OnDevice
    <3>2. Need(g) \in Nat /\ alloc[call][b] \in Nat
      <4>1. Need(g) \in Nat
        BY NeedIs DEF MemInv, MemShape
      <4>2. alloc \in [Owners -> [Buffers -> Nat]]
        BY DEF MemInv, MemShape
      <4> QED BY <3>1, <4>1, <4>2
    <3> QED BY <2>2, <2>3, <3>2
  <2>4. /\ Need(1) = P /\ Need(2) = P /\ Need(3) = AllocN(Plan.maxBlocks)
        /\ Need(4) = AllocN(Plan.totalBlocks) /\ Need(5) = AllocN(Plan.totalBlocks)
        /\ Need(6) = AllocN(Plan.totalResiduals) /\ Need(7) = AllocN(Plan.totalResiduals)
        /\ Need(8) = AllocN(Plan.totalBlocks) /\ Need(9) = AllocN(Plan.totalBlocks)
    BY DEF Need
  <2>5. \A n \in Nat : n <= AllocN(n) /\ AllocN(n) \in Nat
    BY DEF AllocN
  <2>6. /\ "bufA" \in Groups[1] /\ "bufB" \in Groups[2] /\ "ratios" \in Groups[4]
        /\ "offsets" \in Groups[5] /\ "residual" \in Groups[6] /\ "residual_pinned" \in Groups[7]
        /\ "ratios_pinned" \in Groups[8] /\ "offsets_pinned" \in Groups[9]
    BY DEF Groups
  <2>7. Plan.totalResiduals \in Nat /\ Plan.totalBlocks \in Nat /\ Plan.maxBlocks \in Nat
    BY <2>1 DEF IsPlan
  <2>8. /\ Plan.totalBlocks <= Need(4) /\ Plan.totalBlocks <= Need(5)
        /\ Plan.totalBlocks <= Need(8) /\ Plan.totalBlocks <= Need(9)
        /\ Plan.totalResiduals <= Need(6) /\ Plan.totalResiduals <= Need(7)
        /\ Plan.maxBlocks <= Need(3)
    BY <2>4, <2>5, <2>7
  <2> HIDE DEF P
  <2>9. ASSUME stage = "pipeline", Len(levels) < Plan.gpuLevels
        PROVE  LET l == Len(levels) + 1
                   Holds(b, n) == n <= alloc[call][b]
               IN  /\ Holds("bufA", 2 * Plan.pairs[l]) /\ Holds("bufB", 2 * Plan.pairs[l])
                   /\ \A b \in Groups[3] : Holds(b, Plan.blocks[l])
                   /\ Holds("ratios", Plan.paramOff[l] + Plan.blocks[l])
                   /\ Holds("offsets", Plan.paramOff[l] + Plan.blocks[l])
                   /\ Holds("residual", Plan.residOff[l] + Plan.pairs[l])
    <3> DEFINE l == Len(levels) + 1
    <3>1. Len(levels) \in Nat
      <4>1. Down /\ input # <<>>
        BY <2>9 DEF Down, ValueInv, NoData
      <4> QED BY <4>1 DEF ValueInv, Chain
    <3>2. Plan.gpuLevels \in Nat
      BY <2>1 DEF IsPlan
    <3>3. l \in 1 .. Plan.gpuLevels
      BY <2>9, <3>1, <3>2
    <3> HIDE DEF l
    <3>4. LevelFits(Plan, P, l)
      BY <2>1, <3>3 DEF IsPlan
    <3>5. group = 7
      BY <2>9 DEF MemInv, Ensured
    <3>6. PICK pairs \in Nat : pairs = Plan.pairs[l] /\ 2 * pairs <= P
      BY <3>4 DEF LevelFits
    <3>7. PICK blocks \in Nat : blocks = Plan.blocks[l] /\ blocks <= Plan.maxBlocks
      BY <3>4 DEF LevelFits
    <3>8. PICK after \in Nat : after = Plan.paramOff[l] + Plan.blocks[l] /\ after <= Plan.totalBlocks
      BY <3>4 DEF LevelFits
    <3>9. PICK past \in Nat : past = Plan.residOff[l] + Plan.pairs[l] /\ past <= Plan.totalResiduals
      BY <3>4 DEF LevelFits
    <3>10. 2 * pairs <= alloc[call]["bufA"] /\ 2 * pairs <= alloc[call]["bufB"]
      <4>1. 2 * pairs \in Nat /\ 2 * pairs <= Need(1) /\ 2 * pairs <= Need(2)
        BY <2>4, <3>6
      <4>2. 1 \in 1 .. 9 /\ 2 \in 1 .. 9 /\ 1 < group /\ 2 < group
        BY <3>5
      <4> QED BY <2>3, <2>6, <2>9, <4>1, <4>2
    <3>11. \A b \in Groups[3] : blocks <= alloc[call][b]
      <4>1. blocks <= Need(3) /\ 3 \in 1 .. 9 /\ 3 < group
        <5>1. Need(3) \in Nat
          BY NeedIs DEF MemInv, MemShape
        <5> QED BY <2>7, <2>8, <3>5, <3>7, <5>1
      <4> QED BY <2>3, <2>9, <3>7, <4>1
    <3>12. after <= alloc[call]["ratios"] /\ after <= alloc[call]["offsets"]
      <4>1. after <= Need(4) /\ after <= Need(5) /\ 4 \in 1 .. 9 /\ 5 \in 1 .. 9
            /\ 4 < group /\ 5 < group
        <5>1. Need(4) \in Nat /\ Need(5) \in Nat
          BY NeedIs DEF MemInv, MemShape
        <5> QED BY <2>7, <2>8, <3>5, <3>8, <5>1
      <4> QED BY <2>3, <2>6, <2>9, <3>8, <4>1
    <3>13. past <= alloc[call]["residual"]
      <4>1. past <= Need(6) /\ 6 \in 1 .. 9 /\ 6 < group
        <5>1. Need(6) \in Nat
          BY NeedIs DEF MemInv, MemShape
        <5> QED BY <2>7, <2>8, <3>5, <3>9, <5>1
      <4> QED BY <2>3, <2>6, <2>9, <3>9, <4>1
    <3> QED BY <3>6, <3>7, <3>8, <3>9, <3>10, <3>11, <3>12, <3>13 DEF l
  <2>10. ASSUME stage = "download"
         PROVE  /\ \A b \in {"residual", "residual_pinned"} : Plan.totalResiduals <= alloc[call][b]
                /\ \A b \in {"ratios", "offsets", "ratios_pinned", "offsets_pinned"} :
                     Plan.totalBlocks <= alloc[call][b]
    <3>1. group = 10
      BY <2>10 DEF MemInv, Ensured
    <3>2. Plan.totalResiduals <= alloc[call]["residual"] /\ Plan.totalResiduals <= alloc[call]["residual_pinned"]
      BY <2>3, <2>6, <2>7, <2>8, <2>10, <3>1
    <3>3. Plan.totalBlocks <= alloc[call]["ratios"] /\ Plan.totalBlocks <= alloc[call]["offsets"]
      BY <2>3, <2>6, <2>7, <2>8, <2>10, <3>1
    <3>4. Plan.totalBlocks <= alloc[call]["ratios_pinned"] /\ Plan.totalBlocks <= alloc[call]["offsets_pinned"]
      BY <2>3, <2>6, <2>7, <2>8, <2>10, <3>1
    <3> QED BY <3>2, <3>3, <3>4
  <2> QED BY <2>9, <2>10 DEF KernelsInBounds
<1> QED BY <1>1, SessionInvariant, ValuesInvariant, PTL
=============================================================================
