----------------------------- MODULE RansCoder -----------------------------
(***************************************************************************)
(* encode_interleaved_rans and decode_interleaved_rans (rans_coder.cpp):   *)
(* a histogram of the data is scaled to frequencies that add up to M, the  *)
(* data is cut into lanes that are coded with one state each, last symbol  *)
(* first, and decoded first symbol first. The lanes run on parallel_for,   *)
(* so that their steps interleave; one symbol is one step.                 *)
(***************************************************************************)
EXTENDS ByteWord, Sequences, FiniteSets

CONSTANTS
  RansL,         \* kRansL, 2^23
  MaxScale,      \* the largest scale_bits that is taken: 16
  DefaultScale,  \* what stands in for one that is not: 14
  Slack,         \* bytes of a lane's buffer beyond two for each symbol: 64
  LaneChoices,   \* bound: values of num_lanes
  ScaleChoices,  \* bound: values of scale_bits
  RansInputs     \* bound: the inputs, sequences of bytes

\* 1u << bits
PowerOfTwo[bits \in 0 .. MaxScale] == IF bits = 0 THEN 1 ELSE 2 * PowerOfTwo[bits - 1]

ASSUME RansAssumption ==
  /\ MaxScale \in Nat /\ DefaultScale \in 1 .. MaxScale
  /\ \A bits \in 1 .. MaxScale :
       PowerOfTwo[bits] <= Base * Base /\ RansL % PowerOfTwo[bits] = 0
  /\ RansL \in Nat \ {0} /\ RansL * Base < Word
  /\ Slack \in Nat /\ 4 <= Slack
  /\ LaneChoices \subseteq Int /\ ScaleChoices \subseteq Int
  /\ RansInputs \subseteq Seq(ByteValues)

VARIABLES
  ransData,  \* the input
  numLanes,  \* num_lanes as it is used
  M,         \* 2^scale_bits as it is used
  ransPc,    \* "quantize", "normalize", "encode", "decode", "done" or "overrun"
  ransFreq,  \* normalize_histogram: freq
  diff,      \* normalize_histogram: what is still missing from M
  lane,      \* the state of each lane
  ransOut    \* what was decoded, -1 where nothing was yet

ransVars == <<ransData, numLanes, M, ransPc, ransFreq, diff, lane, ransOut>>

Lanes == 1 .. numLanes
Count(s) == Cardinality({j \in DOMAIN ransData : ransData[j] = s})
Occurring == {s \in ByteValues : Count(s) > 0}

\* lane_starts: lanes of as equal a size as possible, the larger ones first.
LaneStart(l) ==
  LET base == Len(ransData) \div numLanes
      rem == Len(ransData) % numLanes
  IN  (l - 1) * base + (IF l - 1 < rem THEN l - 1 ELSE rem)
LaneSize(l) == LaneStart(l + 1) - LaneStart(l)

\* cum_freq and slot_to_symbol
Cumulative(f) == LET cum[s \in 0 .. Base] == IF s = 0 THEN 0 ELSE cum[s - 1] + f[s - 1] IN cum
Cum(s) == Cumulative(ransFreq)[s]
SymbolAt(slot) ==
  LET owners == {s \in ByteValues : Cum(s) <= slot /\ slot < Cum(s + 1)}
  IN  IF owners = {} THEN 0 ELSE CHOOSE s \in owners : TRUE

\* normalize_histogram: its first loop, where a symbol that occurs gets 1 or more.
Quantized ==
  [s \in ByteValues |->
     LET f == (Count(s) * M) \div Len(ransData) IN IF s \in Occurring /\ f = 0 THEN 1 ELSE f]

RansInit ==
  /\ ransData \in RansInputs
  /\ \E lanes \in LaneChoices : numLanes = IF lanes <= 0 THEN 1 ELSE lanes
  /\ \E bits \in ScaleChoices :
       M = PowerOfTwo[IF bits <= 0 \/ bits > MaxScale THEN DefaultScale ELSE bits]
  /\ ransFreq = [s \in ByteValues |-> 0]
  /\ diff = 0
  /\ lane = <<>>
  /\ ransOut = [j \in DOMAIN ransData |-> -1]
  /\ ransPc = IF ransData = <<>> THEN "done" ELSE "quantize"

Quantize ==
  /\ ransPc = "quantize"
  /\ ransFreq' = Quantized
  /\ diff' = M - Cumulative(Quantized)[Base]
  /\ ransPc' = "normalize"
  /\ UNCHANGED <<ransData, numLanes, M, lane, ransOut>>

\* Faulty variant: a unit may be taken from a symbol that has only one.
AdjustableAny == {s \in ByteValues : ransFreq[s] > 0}

\* The symbols one pass of the second loop may take a unit for or from, and the
\* one it picks: the first with the largest frequency.
Adjustable == {s \in ByteValues : IF diff > 0 THEN ransFreq[s] > 0 ELSE ransFreq[s] > 1}
Largest ==
  CHOOSE s \in Adjustable :
    \A t \in Adjustable : ransFreq[t] < ransFreq[s] \/ (ransFreq[t] = ransFreq[s] /\ s <= t)

Nudge ==
  /\ ransPc = "normalize"
  /\ diff # 0 /\ Adjustable # {}
  /\ LET unit == IF diff > 0 THEN 1 ELSE -1
     IN  /\ ransFreq' = [ransFreq EXCEPT ![Largest] = @ + unit]
         /\ diff' = diff - unit
  /\ UNCHANGED <<ransData, numLanes, M, ransPc, lane, ransOut>>

\* build_table and the cut into lanes. Frequencies that still exceed M, because
\* more than M symbols occur, make build_table write behind slot_to_symbol.
BuildTable ==
  /\ ransPc = "normalize"
  /\ diff = 0 \/ Adjustable = {}
  /\ ransPc' = IF diff = 0 THEN "encode" ELSE "overrun"
  /\ lane' = [l \in Lanes |->
                [left |-> LaneSize(l), x |-> RansL, bytes |-> <<>>, flushed |-> FALSE,
                 pos |-> 0, got |-> <<>>]]
  /\ UNCHANGED <<ransData, numLanes, M, ransFreq, diff, ransOut>>

\* x >> 8 * k, for k from 0 to 4.
Shifted(x) == LET rest[k \in 0 .. 4] == IF k = 0 THEN x ELSE rest[k - 1] \div Base IN rest

\* x_max: below it, the state has room for the symbol.
XMax(s) == (((RansL \div M) * Base) * ransFreq[s]) % Word

\* rans_encode_lane: the symbol before those done so far. Bytes are written
\* backwards, until what is left of the state is below the symbol's bound.
RansEncodeSymbol(l) ==
  /\ ransPc = "encode" /\ lane[l].left > 0
  /\ LET s == ransData[LaneStart(l) + lane[l].left]
         rest == Shifted(lane[l].x)
     IN  \E k \in 0 .. 4 :
           /\ rest[k] < XMax(s)
           /\ \A j \in 0 .. k - 1 : rest[j] >= XMax(s)
           /\ lane' = [lane EXCEPT
                ![l].left = @ - 1,
                ![l].bytes = [j \in 1 .. k |-> rest[k - j] % Base] \o @,
                ![l].x = ((rest[k] \div ransFreq[s]) * M + (rest[k] % ransFreq[s]) + Cum(s)) % Word]
  /\ UNCHANGED <<ransData, numLanes, M, ransPc, ransFreq, diff, ransOut>>

\* The state ends up in front of the lane's bytes, its lowest byte first.
Flush(l) ==
  /\ ransPc = "encode" /\ lane[l].left = 0 /\ ~lane[l].flushed
  /\ lane' = [lane EXCEPT
       ![l].flushed = TRUE,
       ![l].bytes = [j \in 1 .. 4 |-> Shifted(lane[l].x)[j - 1] % Base] \o @]
  /\ UNCHANGED <<ransData, numLanes, M, ransPc, ransFreq, diff, ransOut>>

\* parallel_for has returned and the lanes are framed. The decoder builds the
\* same table from the frequencies in the header.
Framed ==
  /\ ransPc = "encode"
  /\ \A l \in Lanes : lane[l].flushed
  /\ ransPc' = "decode"
  /\ UNCHANGED <<ransData, numLanes, M, ransFreq, diff, lane, ransOut>>

\* What follows a lane's bytes is another lane's, or nothing: any byte.
ByteAt(l, p) == IF p <= Len(lane[l].bytes) THEN lane[l].bytes[p] ELSE 0

\* rans_decode_lane: the state the lane starts with.
StartLane(l) ==
  /\ ransPc = "decode" /\ lane[l].pos = 0 /\ LaneSize(l) > 0
  /\ lane' = [lane EXCEPT
       ![l].x = ByteAt(l, 1) + Base * (ByteAt(l, 2) + Base * (ByteAt(l, 3) + Base * ByteAt(l, 4))),
       ![l].pos = 4]
  /\ UNCHANGED <<ransData, numLanes, M, ransPc, ransFreq, diff, ransOut>>

\* x with the next k bytes of the lane shifted in.
Refilled(l, x) ==
  LET state[k \in 0 .. 4] ==
        IF k = 0 THEN x ELSE state[k - 1] * Base + ByteAt(l, lane[l].pos + k)
  IN  state

RansDecodeSymbol(l) ==
  /\ ransPc = "decode" /\ lane[l].pos > 0
  /\ Len(lane[l].got) < LaneSize(l)
  /\ LET slot == lane[l].x % M
         s == SymbolAt(slot)
         state == Refilled(l, ransFreq[s] * (lane[l].x \div M) + slot - Cum(s))
     IN  \E k \in 0 .. 4 :
           /\ state[k] >= RansL
           /\ \A j \in 0 .. k - 1 : state[j] < RansL
           /\ lane' = [lane EXCEPT
                ![l].x = state[k],
                ![l].pos = @ + k,
                ![l].got = Append(@, s)]
  /\ UNCHANGED <<ransData, numLanes, M, ransPc, ransFreq, diff, ransOut>>

\* The lane's symbols are copied to where the lengths of the lanes before it say.
CopyOut(l) ==
  /\ ransPc = "decode"
  /\ Len(lane[l].got) = LaneSize(l)
  /\ LET first == LaneStart(l)
     IN  /\ \E j \in 1 .. LaneSize(l) : ransOut[first + j] = -1
         /\ ransOut' = [j \in DOMAIN ransData |->
                          IF j \in first + 1 .. first + LaneSize(l) THEN lane[l].got[j - first]
                          ELSE ransOut[j]]
  /\ UNCHANGED <<ransData, numLanes, M, ransPc, ransFreq, diff, lane>>

Decoded ==
  /\ ransPc = "decode"
  /\ \A j \in DOMAIN ransData : ransOut[j] # -1
  /\ ransPc' = "done"
  /\ UNCHANGED <<ransData, numLanes, M, ransFreq, diff, lane, ransOut>>

\* The decoder returned, or the encoder's behaviour is undefined.
RansFinished == ransPc \in {"done", "overrun"} /\ UNCHANGED ransVars

RansNext ==
  \/ Quantize \/ Nudge \/ BuildTable
  \/ \E l \in Lanes : RansEncodeSymbol(l) \/ Flush(l)
  \/ Framed
  \/ \E l \in Lanes : StartLane(l) \/ RansDecodeSymbol(l) \/ CopyOut(l)
  \/ Decoded \/ RansFinished

RansSpec == RansInit /\ [][RansNext]_ransVars
-----------------------------------------------------------------------------
\* Every lane decodes its own part of the data, whatever order the lanes run in
\* and however unequal they are.
LanesComeBack ==
  /\ \A j \in DOMAIN ransData : ransOut[j] \in {-1, ransData[j]}
  /\ ransPc = "done" => ransOut = ransData

\* As long as no more than M symbols occur, the frequencies end up as exactly M,
\* with at least one for what occurs and none for what does not; a table of
\* another size is made only when they cannot.
TableExact ==
  /\ ransPc \in {"encode", "decode"} =>
       /\ Cum(Base) = M
       /\ \A s \in ByteValues : (s \in Occurring) = (ransFreq[s] > 0)
  /\ ransPc = "overrun" => Cardinality(Occurring) > M

\* A lane's state stays in 32 bits, its bytes fit in the buffer that was made
\* for them, and its decoder reads exactly those.
LanesFit ==
  ransPc \in {"encode", "decode", "done"} /\ ransData # <<>> =>
    \A l \in Lanes :
      /\ lane[l].x \in RansL .. RansL * Base - 1
      /\ Len(lane[l].bytes) <= 2 * LaneSize(l) + Slack
      /\ lane[l].pos <= Len(lane[l].bytes)
      /\ ransPc = "done" /\ LaneSize(l) > 0 =>
           lane[l].pos = Len(lane[l].bytes) /\ lane[l].x = RansL

\* What was encoded comes back from every lane, from a table that is exact and a buffer
\* that is large enough.
RansExact == LanesComeBack /\ TableExact /\ LanesFit
=============================================================================
