----------------------------- MODULE Container -----------------------------
(***************************************************************************)
(* The container (codec.cpp): what a transform found is laid out field by  *)
(* field, its numbers as varints behind an entropy coder, and read back    *)
(* by a decoder that knows nothing but the bytes: how long each array is   *)
(* follows from counts already read. A writer chooses the smallest of its  *)
(* candidates, so any of them may be in a blob.                            *)
(*                                                                         *)
(* A field of any width is one unit of a blob, a varint one unit of a      *)
(* payload. The layout does not depend on what the numbers are, so each    *)
(* field of a result has a number of its own: whatever is swapped,         *)
(* dropped or misplaced on the way shows.                                  *)
(***************************************************************************)
EXTENDS Integers, Sequences

CONSTANTS
  RodBlock,     \* kRodJointBlockSize, kRodJoint3DBlockSize, kQuatJointBlockSize
  LiftBlock,    \* kPantographBlockSize
  BwtBlock,     \* kBwtDefaultBlockSize
  MaxElements,  \* kMaxReasonableElementCount
  MaxDecoded,   \* kMaxRangeDecodedBytes
  MaxLevels,    \* kMaxLiftLevels
  BwtLimit,     \* kBwtMaxInputSize
  Counts,       \* bytes, points or poses in a call
  CodedSizes    \* bound: how well a payload may be coded

TwoTo[k \in 0 .. MaxLevels] == IF k = 0 THEN 1 ELSE 2 * TwoTo[k - 1]

\* A length is a size_t, of 64 bits, and there may be 64 levels.
ASSUME ContainerAssumption ==
  /\ RodBlock \in Nat \ {0} /\ LiftBlock \in Nat \ {0} /\ BwtBlock \in Nat \ {0}
  /\ MaxElements \in Nat /\ MaxDecoded \in Nat /\ MaxLevels \in Nat /\ BwtLimit \in Nat
  /\ Counts \subseteq 0 .. TwoTo[MaxLevels]
  /\ CodedSizes \subseteq Nat \ {0}

VARIABLES
  api,      \* the pair of functions the blob was written by
  written,  \* what the inverse transform must be given
  blob,
  cut,      \* the end of the blob is missing
  reader,   \* the function it is decoded with, "" before
  got       \* what came out, {} if an exception

containerVars == <<api, written, blob, cut, reader, got>>

Apis == {"bytes", "geo2d", "geo3d", "pose"}
Modes == [Raw |-> 0, General |-> 1, Geo2D |-> 2, Geo3D |-> 3, GeneralLZ |-> 4,
          GeneralBWT |-> 5, Pose |-> 6]
Magic == 7
Composition == 0
Similarity3D == 1

CeilDiv(n, d) == (n + d - 1) \div d
Rods(count) == IF count > 0 THEN count - 1 ELSE 0

\* Where each of some consecutive arrays ends, the first after nothing; and the arrays
\* one after the other.
Ends(lengths) ==
  LET end[k \in 0 .. Len(lengths)] == IF k = 0 THEN 0 ELSE end[k - 1] + lengths[k]
  IN  end

Total(lengths) == Ends(lengths)[Len(lengths)]

Joined(arrays) ==
  LET joined[k \in 0 .. Len(arrays)] == IF k = 0 THEN <<>> ELSE joined[k - 1] \o arrays[k]
  IN  joined[Len(arrays)]

Lengths(arrays) == [k \in DOMAIN arrays |-> Len(arrays[k])]
-----------------------------------------------------------------------------
(* What the transforms find for a path, of any shape they can find it in.  *)

\* The numbers of one array: no two alike, and of either sign.
Column(f, n) == [i \in 1 .. n |-> IF (f + i) % 2 = 0 THEN 20 * f + i ELSE -20 * f - i]

Joint2D(count, q) ==
  LET n == Rods(count)
      blocks == CeilDiv(n, RodBlock)
  IN  [count |-> count, anchor |-> Column(1, 2), quant |-> q, resync |-> 3,
       lag |-> [b \in 1 .. blocks |-> 900 + b],
       re |-> Column(2, blocks), im |-> Column(3, blocks), x |-> Column(4, n), y |-> Column(5, n)]

\* The 3D joint has d = 3 axes and k = 9 coefficients a block, the quaternion joint 4
\* and 4; lens is empty, or the lengths adaptive_partition chose.
Joint(count, q, d, k, lens) ==
  LET n == Rods(count)
      blocks == IF lens = <<>> THEN CeilDiv(n, RodBlock) ELSE Len(lens)
  IN  [count |-> count, anchor |-> Column(1, d), quant |-> q, resync |-> 3, len |-> lens,
       lag |-> [b \in 1 .. blocks |-> 900 + b],
       coefs |-> [b \in 1 .. blocks |-> Column(10 + b, k)],
       residual |-> [a \in 1 .. d |-> Column(5 + a, n)]]

Partitions(n) == {lens \in UNION {[1 .. k -> 1 .. n] : k \in 1 .. n} : Total(lens) = n}
Lens(count) == {<<>>} \cup Partitions(Rods(count))

\* An array is padded to the next power of two, and halved until one value is left.
Levels(length) ==
  CHOOSE l \in 0 .. MaxLevels : TwoTo[l] >= length /\ (l = 0 \/ TwoTo[l - 1] < length)

\* Pairs of each level of an array of this length.
LevelPairs(length, levels) == [l \in 1 .. levels |-> TwoTo[Levels(length)] \div TwoTo[l]]

Lift(length, q) ==
  LET levels == Levels(length)
      pairs == LevelPairs(length, levels)
  IN  [length |-> length, quant |-> q, base |-> IF length > 0 THEN <<-8>> ELSE <<>>,
       ratios |-> [l \in 1 .. levels |-> Column(l, CeilDiv(pairs[l], LiftBlock))],
       offsets |-> [l \in 1 .. levels |-> Column(5 + l, CeilDiv(pairs[l], LiftBlock))],
       residuals |-> [l \in 1 .. levels |-> Column(10 + l, pairs[l])]]
-----------------------------------------------------------------------------
(* Writing.                                                                *)

ZigZag(v) == IF v >= 0 THEN 2 * v ELSE -2 * v - 1
ZigZags(s) == [i \in DOMAIN s |-> ZigZag(s[i])]
ZigZagged(arrays) == [k \in DOMAIN arrays |-> ZigZags(arrays[k])]

\* c units from an entropy coder (RangeCoder), which mean nothing one by one.
Coded(content, c) == [k \in 1 .. c |-> [of |-> content, part |-> k, parts |-> c]]

Framed(flat, c) == <<Len(flat), c>> \o Coded(flat, c)

SerializeLift(r, c) ==
  <<r.length, Len(r.residuals), r.quant>> \o r.base
    \o Framed(Joined(ZigZagged(r.ratios \o r.offsets \o r.residuals)), c)

SerializeGeo2D(r, c) ==
  <<r.count>> \o r.anchor \o <<r.quant, r.resync>>
    \o Framed(Joined(<<r.lag>> \o ZigZagged(<<r.re, r.im, r.x, r.y>>)), c)

SerializeJoint(r, c) ==
  <<r.count>> \o r.anchor \o <<r.quant, r.resync, Len(r.lag), IF r.len = <<>> THEN 0 ELSE 1>>
    \o Framed(Joined(<<r.len, r.lag>> \o ZigZagged(r.coefs \o r.residual)), c)

SerializeGeo3DSim(r, c) == SerializeJoint(r, c)
SerializeQuatJoint(r, c) == SerializeJoint(r, c)

\* Coded symbols and extra bits; an empty input has neither.
LzPayload(bytes, c) ==
  IF bytes = <<>> THEN <<0, 0, 0>>
  ELSE <<Len(bytes), c>> \o Coded(bytes, c) \o <<1, [of |-> bytes, part |-> "extra"]>>

BwtLengths(n) ==
  [b \in 1 .. CeilDiv(n, BwtBlock) |-> IF b * BwtBlock <= n THEN BwtBlock ELSE n % BwtBlock]

BwtPayload(bytes, c) ==
  IF bytes = <<>> THEN <<0>>
  ELSE <<Len(bytes), CeilDiv(Len(bytes), BwtBlock)>> \o BwtLengths(Len(bytes))
         \o <<c>> \o Coded(bytes, c)

WithMode(mode, payload) == <<Magic, Modes[mode]>> \o payload
-----------------------------------------------------------------------------
(* Reading: the set of what comes out, empty if an exception does.         *)

UnZigZag(v) == IF v % 2 = 0 THEN v \div 2 ELSE -((v + 1) \div 2)
UnZigZags(s) == [i \in DOMAIN s |-> UnZigZag(s[i])]

\* next_byte() goes on with zeros where the coder's output is not all there.
RangeDecode(units, rawLen) ==
  IF units # <<>> /\ Len(units) = units[1].parts THEN SubSeq(units[1].of, 1, rawLen)
  ELSE [k \in 1 .. rawLen |-> 0]

\* Faulty variant: the payload is taken to be all there.
PayloadUnchecked(s, pos) ==
  IF pos + 2 > Len(s) \/ s[pos + 1] > MaxDecoded THEN {}
  ELSE LET end == IF pos + 2 + s[pos + 2] < Len(s) THEN pos + 2 + s[pos + 2] ELSE Len(s)
       IN  {[flat |-> RangeDecode(SubSeq(s, pos + 3, end), s[pos + 1]), next |-> end]}

\* raw_len, coded_len and the payload behind them.
Payload(s, pos) ==
  IF pos + 2 > Len(s) \/ s[pos + 2] > Len(s) - pos - 2 \/ s[pos + 1] > MaxDecoded THEN {}
  ELSE {[flat |-> RangeDecode(SubSeq(s, pos + 3, pos + 2 + s[pos + 2]), s[pos + 1]),
         next |-> pos + 2 + s[pos + 2]]}

\* check_count_feasible: no element takes less than a byte.
CountFeasible(requested, available) == requested <= available

\* Consecutive arrays of the given lengths; read_varint throws past the end.
Columns(flat, lengths) ==
  IF Total(lengths) > Len(flat) THEN {}
  ELSE {[k \in DOMAIN lengths |-> SubSeq(flat, Ends(lengths)[k - 1] + 1, Ends(lengths)[k])]}

DeserializeLift(s, pos) ==
  IF pos + 3 > Len(s) THEN {}
  ELSE
    LET length == s[pos + 1]
        levels == s[pos + 2]
        header == IF length > 0 THEN 4 ELSE 3
        pairs == LevelPairs(length, levels)
        blocks == [l \in 1 .. levels |-> CeilDiv(pairs[l], LiftBlock)]
    IN  IF length > MaxElements \/ levels > MaxLevels \/ pos + header > Len(s) THEN {}
        ELSE UNION {
          {[r |-> [length |-> length, quant |-> IF s[pos + 3] = 0 THEN 1 ELSE s[pos + 3],
                   base |-> SubSeq(s, pos + 4, pos + header),
                   ratios |-> [l \in 1 .. levels |-> UnZigZags(a[l])],
                   offsets |-> [l \in 1 .. levels |-> UnZigZags(a[levels + l])],
                   residuals |-> [l \in 1 .. levels |-> UnZigZags(a[2 * levels + l])]],
            next |-> p.next] :
              a \in Columns(p.flat, blocks \o blocks \o pairs)} : p \in Payload(s, pos + header)}

DeserializeGeo2D(s, pos) ==
  IF pos + 5 > Len(s) \/ s[pos + 1] > MaxElements THEN {}
  ELSE
    LET n == Rods(s[pos + 1])
        blocks == CeilDiv(n, RodBlock)
    IN  UNION {
          {[r |-> [count |-> s[pos + 1], anchor |-> SubSeq(s, pos + 2, pos + 3),
                   quant |-> s[pos + 4], resync |-> s[pos + 5], lag |-> a[1],
                   re |-> UnZigZags(a[2]), im |-> UnZigZags(a[3]),
                   x |-> UnZigZags(a[4]), y |-> UnZigZags(a[5])],
            next |-> p.next] :
              a \in IF CountFeasible(3 * blocks + 2 * n, Len(p.flat))
                    THEN Columns(p.flat, <<blocks, blocks, blocks, n, n>>) ELSE {}} :
          p \in Payload(s, pos + 5)}

\* The number of blocks is stored here, and their lengths if they are adaptive.
DeserializeJoint(s, pos, d, k) ==
  IF pos + d + 5 > Len(s) THEN {}
  ELSE
    LET n == Rods(s[pos + 1])
        blocks == s[pos + d + 4]
        adaptive == IF s[pos + d + 5] = 0 THEN 0 ELSE blocks
        lengths == <<adaptive, blocks>> \o [b \in 1 .. blocks |-> k] \o [x \in 1 .. d |-> n]
    IN  IF s[pos + 1] > MaxElements \/ blocks > MaxElements THEN {}
        ELSE UNION {
          {[r |-> [count |-> s[pos + 1], anchor |-> SubSeq(s, pos + 2, pos + d + 1),
                   quant |-> s[pos + d + 2], resync |-> s[pos + d + 3],
                   len |-> a[1], lag |-> a[2],
                   coefs |-> [b \in 1 .. blocks |-> UnZigZags(a[2 + b])],
                   residual |-> [x \in 1 .. d |-> UnZigZags(a[2 + blocks + x])]],
            next |-> p.next] :
              a \in IF CountFeasible(2 * blocks + d * n, Len(p.flat))
                    THEN Columns(p.flat, lengths) ELSE {}} :
          p \in Payload(s, pos + d + 5)}

DeserializeGeo3DSim(s, pos) == DeserializeJoint(s, pos, 3, 9)
DeserializeQuatJoint(s, pos) == DeserializeJoint(s, pos, 4, 4)

LzDecode(s, pos) ==
  LET extra == pos + 3 + s[pos + 2]
  IN  IF pos + 2 > Len(s) THEN {}
      ELSE IF extra > Len(s) THEN {}
      ELSE IF extra + s[extra] > Len(s) THEN {}
      ELSE IF s[pos + 1] = 0 THEN {<<>>}
      ELSE {RangeDecode(SubSeq(s, pos + 3, extra - 1), s[pos + 1])}

BwtDecode(s, pos) ==
  LET coded == pos + 3 + s[pos + 2]
  IN  IF pos + 1 > Len(s) THEN {}
      ELSE IF s[pos + 1] = 0 THEN {<<>>}
      ELSE IF pos + 2 > Len(s) THEN {}
      ELSE IF coded > Len(s) THEN {}
      ELSE IF coded + s[coded] > Len(s) THEN {}
      ELSE LET n == Total(SubSeq(s, pos + 3, coded - 1))
           IN  IF n # s[pos + 1] THEN {}
               ELSE {RangeDecode(SubSeq(s, coded + 1, coded + s[coded]), n)}

\* read_magic_mode, at the front of a blob.
HasMode(s, mode) == Len(s) >= 2 /\ s[1] = Magic /\ s[2] = Modes[mode]

Decompress(s) ==
  IF HasMode(s, "Raw")
  THEN IF Len(s) < 3 THEN {} ELSE IF 3 + s[3] > Len(s) THEN {} ELSE {SubSeq(s, 4, 3 + s[3])}
  ELSE IF HasMode(s, "General") THEN {d.r : d \in DeserializeLift(s, 2)}
  ELSE IF HasMode(s, "GeneralLZ") THEN LzDecode(s, 2)
  ELSE IF HasMode(s, "GeneralBWT") THEN BwtDecode(s, 2)
  ELSE {}

DecompressGeo2D(s) ==
  IF HasMode(s, "Geo2D") THEN {d.r : d \in DeserializeGeo2D(s, 2)} ELSE {}

\* rod_joint_3d_inverse refuses an xy path and a z array of different lengths.
DecompressGeo3D(s) ==
  IF ~HasMode(s, "Geo3D") \/ Len(s) < 3 THEN {}
  ELSE IF s[3] = Similarity3D THEN {d.r : d \in DeserializeGeo3DSim(s, 3)}
  ELSE {c \in UNION {{[xy |-> xy.r, z |-> z.r] : z \in DeserializeLift(s, xy.next)} :
                    xy \in DeserializeGeo2D(s, 3)} :
         c.xy.count = c.z.length}

IsComposition(path) == "xy" \in DOMAIN path
CountOf(path) == IF IsComposition(path) THEN path.xy.count ELSE path.count

DecompressPose(s) ==
  IF ~HasMode(s, "Pose") \/ Len(s) < 3 THEN {}
  ELSE IF 3 + s[3] > Len(s) THEN {}
  ELSE {pose \in DecompressGeo3D(SubSeq(s, 4, 3 + s[3]))
                   \X {d.r : d \in DeserializeQuatJoint(s, 3 + s[3])} :
         CountOf(pose[1]) = pose[2].count}
-----------------------------------------------------------------------------
(* The functions of codec.hpp.                                             *)

ContainerInit ==
  /\ api = "" /\ written = <<>> /\ blob = <<>>
  /\ cut = FALSE /\ reader = "" /\ got = {}

Write(a, content, b) ==
  /\ api = ""
  /\ api' = a /\ written' = content /\ blob' = b
  /\ UNCHANGED <<cut, reader, got>>

\* The smallest candidate is returned, and depending on the data that is any of them:
\* the bytes as they are, coded by LZ, by BWT unless there are too many of them, or as a
\* lift. Of a large input that LZ codes well the lift is not tried, which is one way for
\* it not to be the smallest.
Compress(n, c) ==
  LET bytes == [i \in 1 .. n |-> i]
  IN  \/ Write("bytes", bytes, WithMode("Raw", <<n>> \o bytes))
      \/ n > 0 /\ Write("bytes", bytes, WithMode("GeneralLZ", LzPayload(bytes, c)))
      \/ n \in 1 .. BwtLimit /\ Write("bytes", bytes, WithMode("GeneralBWT", BwtPayload(bytes, c)))
      \/ n > 0 /\ Write("bytes", Lift(n, 1), WithMode("General", SerializeLift(Lift(n, 1), c)))

CompressGeo2D(n, q, c) ==
  LET r == Joint2D(n, q) IN Write("geo2d", r, WithMode("Geo2D", SerializeGeo2D(r, c)))

\* Blobs of a 3D path with what is in them: xy and z apart, or one similarity joint.
CompositionBlob(n, q, c) ==
  LET xy == Joint2D(n, q)
      z == Lift(n, q)
  IN  [content |-> [xy |-> xy, z |-> z],
       blob |-> WithMode("Geo3D", <<Composition>> \o SerializeGeo2D(xy, c) \o SerializeLift(z, c))]

SimilarityBlob(n, q, lens, c) ==
  LET r == Joint(n, q, 3, 9, lens)
  IN  [content |-> r, blob |-> WithMode("Geo3D", <<Similarity3D>> \o SerializeGeo3DSim(r, c))]

Geo3DBlobs(n, q, c) ==
  {CompositionBlob(n, q, c)} \cup {SimilarityBlob(n, q, lens, c) : lens \in Lens(n)}

CompressGeo3D(n, q, c) == \E b \in Geo3DBlobs(n, q, c) : Write("geo3d", b.content, b.blob)

QuatJoints(n, q) == {Joint(n, q, 4, 4, lens) : lens \in Lens(n)}

CompressPose(n, q, c) ==
  \E b \in Geo3DBlobs(n, q, c), r \in QuatJoints(n, q) :
    Write("pose", <<b.content, r>>,
          WithMode("Pose", <<Len(b.blob)>> \o b.blob \o SerializeQuatJoint(r, c)))

\* A file was not written to its end, or not read to it.
Cut(size) ==
  /\ api # "" /\ ~cut /\ reader = ""
  /\ blob' = SubSeq(blob, 1, size) /\ cut' = TRUE
  /\ UNCHANGED <<api, written, reader, got>>

Decode(a) ==
  /\ api # "" /\ reader = ""
  /\ reader' = a
  /\ got' = CASE a = "bytes" -> Decompress(blob)
              [] a = "geo2d" -> DecompressGeo2D(blob)
              [] a = "geo3d" -> DecompressGeo3D(blob)
              [] a = "pose" -> DecompressPose(blob)
  /\ UNCHANGED <<api, written, blob, cut>>

ContainerNext ==
  \/ \E n \in Counts, c \in CodedSizes : Compress(n, c)
  \/ \E n \in Counts, q \in {1, 3}, c \in CodedSizes :
       CompressGeo2D(n, q, c) \/ CompressGeo3D(n, q, c) \/ CompressPose(n, q, c)
  \/ \E size \in 0 .. Len(blob) - 1 : Cut(size)
  \/ \E a \in Apis : Decode(a)

ContainerSpec == ContainerInit /\ [][ContainerNext]_containerVars
-----------------------------------------------------------------------------
\* What is refused although it was written by this codec: the encoder has no limits.
Long(arrays) == Total(Lengths(arrays)) > MaxDecoded

LiftTooLarge(r) == r.length > MaxElements \/ Long(r.ratios \o r.offsets \o r.residuals)
Joint2DTooLarge(r) == r.count > MaxElements \/ Long(<<r.lag, r.re, r.im, r.x, r.y>>)
JointTooLarge(r) == r.count > MaxElements \/ Long(<<r.len, r.lag>> \o r.coefs \o r.residual)

PathTooLarge(path) ==
  IF IsComposition(path) THEN Joint2DTooLarge(path.xy) \/ LiftTooLarge(path.z)
  ELSE JointTooLarge(path)

TooLarge(content) ==
  CASE api = "bytes" -> HasMode(blob, "General") /\ LiftTooLarge(content)
    [] api = "geo2d" -> Joint2DTooLarge(content)
    [] api = "geo3d" -> PathTooLarge(content)
    [] api = "pose" -> PathTooLarge(content[1]) \/ JointTooLarge(content[2])

\* A whole blob gives the inverse transform exactly what the forward one found,
\* whichever candidate won and however its arrays are cut into blocks and levels,
\* unless the decoder's limits refuse what the encoder wrote; a blob that ends early
\* anywhere, and one that another function wrote, is refused, and not decoded to
\* something else.
ReadsWhatWasWritten ==
  reader # "" =>
    got = IF reader = api /\ ~cut /\ ~TooLarge(written) THEN {written} ELSE {}
=============================================================================
