------------------------ MODULE PoseTransportProofs ------------------------
(***************************************************************************)
(* The pose stream keeps its promise over both transports, for every chunk *)
(* size, every number of poses and every window, as long as the stream is  *)
(* shorter than the sequence numbers.                                      *)
(***************************************************************************)
EXTENDS PoseTransport, SequenceTheorems, WellFoundedInduction, TLAPS

(***************************************************************************)
(* The inductive invariant.                                                *)
(***************************************************************************)

\* The poses s are those behind a, up to b.
IsRun(s, a, b) ==
  s \in Seq(Nat) /\ Len(s) = b - a /\ \A j \in 1 .. b - a : s[j] = a + j

\* A chunk as the decoder will read it.
IsFrame(c, a, b) ==
  /\ c \in Seq(Nat) /\ Len(c) = 2 + (b - a)
  /\ c[1] = b - a /\ c[2] = b - a
  /\ \A j \in 1 .. b - a : c[2 + j] = a + j

\* The last pose of chunk i, if n poses were pushed and the last z chunks, none or
\* one, are sentinels. A sentinel ends where the stream does.
EndOf(cs, z, n, i) ==
  IF i = 0 THEN 0 ELSE IF z = 1 /\ i = Len(cs) THEN n ELSE cs[i][Len(cs[i])]

\* The chunks cs are runs of poses, one after the other, and what was pushed since is
\* still in the buffer b.
Sent(cs, z, n, b) ==
  /\ n \in 0 .. NumPoses /\ z \in {0, 1}
  /\ cs \in Seq(Seq(Nat))
  /\ \A i \in 0 .. Len(cs) : EndOf(cs, z, n, i) \in 0 .. n
  /\ \A i, j \in 0 .. Len(cs) : i <= j => EndOf(cs, z, n, i) <= EndOf(cs, z, n, j)
  /\ \A i \in 1 .. Len(cs) :
       /\ IsFrame(cs[i], EndOf(cs, z, n, i - 1), EndOf(cs, z, n, i))
       /\ EndOf(cs, z, n, i - 1) = EndOf(cs, z, n, i) <=> z = 1 /\ i = Len(cs)
  /\ IsRun(b, EndOf(cs, z, n, Len(cs)), n)
  /\ z = 1 => Len(cs) > 0
  /\ Len(cs) <= EndOf(cs, z, n, Len(cs)) + z

Finished == IF encFinished THEN 1 ELSE 0
EndAt(i) == EndOf(chunks, Finished, pushed, i)
EncInv == encFinished \in BOOLEAN /\ Sent(chunks, Finished, pushed, buffer)

\* Where chunks lie in a byte stream.
Layout(cs, off) ==
  /\ off \in [0 .. Len(cs) -> Nat]
  /\ off[0] = 0
  /\ \A i \in 1 .. Len(cs) : off[i] = off[i - 1] + Len(cs[i])
  /\ \A i, j \in 0 .. Len(cs) : i <= j => off[i] <= off[j]

\* The decoder has read f units of the stream and parsed m chunks; its buffer b is
\* what it has of those that follow.
Parsed(cs, off, m, f, b) ==
  /\ Layout(cs, off)
  /\ f \in 0 .. off[Len(cs)] /\ f = off[m] + Len(b)
  /\ \A i \in m + 1 .. Len(cs) : \A j \in 1 .. Len(cs[i]) :
       off[i - 1] + j <= f => b[off[i - 1] + j - off[m]] = cs[i][j]

\* The chunk that on_deliver will be, or is being, called with.
DueAt == IF pc \in {"closeJump", "flushJump"} THEN R!Earliest + 1 ELSE next + 1

\* Over datagrams the decoder is given whole chunks. It is between two of them, has
\* yet to parse the one offered to it, or is at pose k of that one.
DatagramAt(m, k) ==
  \/ offered = Absent /\ decPc = "idle" /\ buf = <<>> /\ m = next
  \/ offered # Absent /\ decPc = "parse" /\ buf = offered /\ m = DueAt - 1
  \/ /\ offered # Absent /\ buf = <<>> /\ m = DueAt
     /\ EndAt(m - 1) <= k /\ (EndAt(m - 1) < k => Newest = k)

\* On a pipe the consumer has got no pose behind k, and none is missing unless it threw.
PipeAt(m, k) ==
  /\ offered = Absent
  /\ Newest <= k /\ (~ threw => Newest = k)
  /\ \E off : Parsed(chunks, off, m, fed, buf)

\* The decoder is behind pose k in chunk m, and the rest of the chunk is in dispatch.
DecAt(m, k) ==
  /\ k <= EndAt(m)
  /\ IsRun(dispatch, k, EndAt(m))
  /\ decFinished <=> encFinished /\ m = Len(chunks)
  /\ transport = "datagrams" => DatagramAt(m, k)
  /\ transport = "pipe" => PipeAt(m, k)

DecTypes ==
  /\ transport \in {"pipe", "datagrams"}
  /\ buf \in Seq(Nat) /\ got \in Seq(Nat)
  /\ decPc \in {"idle", "parse", "dispatch"}
  /\ decFinished \in BOOLEAN /\ threw \in BOOLEAN
  /\ decPc # "dispatch" => dispatch = <<>>
  /\ decFinished => encFinished /\ decPc = "idle"

DecInv == DecTypes /\ \E m \in 0 .. Len(chunks) : \E k \in Nat : DecAt(m, k)

\* What the reassembler holds are chunks that were sent, all of them at the awaited
\* one or behind it.
PacketInv ==
  /\ next \in 0 .. Len(chunks)
  /\ pending \in [R!Seqs -> Seq(Nat) \union {Absent}]
  /\ pc \in {"idle", "drain", "close", "closeJump", "closeDrain", "flush", "flushJump"}
  /\ \A s \in R!Held :
       /\ next <= s /\ s < Len(chunks) /\ pending[s] = chunks[s + 1]
       /\ pc \in {"idle", "close", "closeJump"} => next < s
  /\ pc \in {"closeJump", "flushJump"} => R!Held # {}
  /\ \E events : log \in Seq(events)

\* What on_deliver is running on was due.
OfferInv ==
  offered # Absent =>
    /\ transport = "datagrams"
    /\ DueAt \in next + 1 .. Len(chunks) /\ offered = chunks[DueAt]

StreamInv == EncInv /\ DecInv /\ PacketInv /\ OfferInv /\ OnlyTailBuffered
-----------------------------------------------------------------------------
(* Induction over the naturals, for sets, and what FlattenSeq returns.       *)

LEMMA LeastNat ==
  ASSUME NEW T, T \subseteq Nat, T # {}
  PROVE  \E x \in T : \A y \in T : x <= y
<1> DEFINE R0 == {p \in Nat \X Nat : p[1] < p[2]}
<1>1. IsWellFoundedOn(R0, Nat)
  BY NatLessThanWellFounded DEF OpToRel
<1>2. \A x, y \in Nat : y < x => <<y, x>> \in R0
  OBVIOUS
<1> HIDE DEF R0
<1>3. PICK x \in T : \A y \in T : ~ (<<y, x>> \in R0)
  BY <1>1, WFMin
<1>4. ASSUME NEW y \in T PROVE x <= y
  <2>1. x \in Nat /\ y \in Nat
    OBVIOUS
  <2>2. ~ (y < x)
    BY <1>2, <1>3, <2>1
  <2> QED BY <2>1, <2>2
<1> QED BY <1>4

LEMMA NatInd ==
  ASSUME NEW T, 0 \in T, \A n \in Nat : n \in T => n + 1 \in T
  PROVE  Nat \subseteq T
<1> SUFFICES ASSUME Nat \ T # {} PROVE FALSE
  OBVIOUS
<1>1. PICK x \in Nat \ T : \A y \in Nat \ T : x <= y
  BY LeastNat
<1>2. x # 0
  BY <1>1
<1>3. x - 1 \in Nat /\ x - 1 \notin T
  BY <1>1, <1>2
<1> QED BY <1>1, <1>3

\* f holds the concatenations of the first n prefixes of s.
Concats(s, n, f) ==
  /\ f \in [1 .. n -> Seq(Nat)]
  /\ \A i \in 1 .. n : f[i] = IF i = 1 THEN s[i] ELSE f[i - 1] \o s[i]

LEMMA ConcatsAt ==
  ASSUME NEW s, NEW n, NEW f, Concats(s, n, f), NEW i \in 1 .. n, i # 1
  PROVE  f[i] = f[i - 1] \o s[i]
BY DEF Concats

LEMMA ConcatsStep ==
  ASSUME NEW s \in Seq(Seq(Nat)), NEW n \in Nat, n + 1 <= Len(s), NEW f, Concats(s, n, f)
  PROVE  \E g : Concats(s, n + 1, g)
<1> DEFINE last == IF n = 0 THEN s[n + 1] ELSE f[n] \o s[n + 1]
           g == [i \in 1 .. n + 1 |-> IF i = n + 1 THEN last ELSE f[i]]
<1>1. s[n + 1] \in Seq(Nat)
  OBVIOUS
<1>2. last \in Seq(Nat)
  <2>1. n # 0 => f[n] \in Seq(Nat)
    BY DEF Concats
  <2> QED BY <1>1, <2>1
<1>3. g \in [1 .. n + 1 -> Seq(Nat)]
  <2> HIDE DEF last
  <2> QED BY <1>2 DEF Concats
<1>4. ASSUME NEW i \in 1 .. n + 1
      PROVE  g[i] = IF i = 1 THEN s[i] ELSE g[i - 1] \o s[i]
  <2>1. CASE i = n + 1
    <3>1. g[i] = last
      BY <2>1
    <3>2. n # 0 => g[i - 1] = f[n]
      BY <2>1
    <3> QED BY <2>1, <3>1, <3>2
  <2>2. CASE i # n + 1
    <3>1. i \in 1 .. n /\ g[i] = f[i] /\ (i # 1 => g[i - 1] = f[i - 1])
      BY <2>2
    <3> QED BY <3>1 DEF Concats
  <2> QED BY <2>1, <2>2
<1> HIDE DEF g
<1> QED BY <1>3, <1>4 DEF Concats

LEMMA ConcatsExist ==
  ASSUME NEW s \in Seq(Seq(Nat))
  PROVE  \E f : Concats(s, Len(s), f)
<1> DEFINE T == {n \in Nat : n <= Len(s) => \E f : Concats(s, n, f)}
<1>1. 0 \in T
  <2>1. Concats(s, 0, [i \in 1 .. 0 |-> <<>>])
    BY DEF Concats
  <2> QED BY <2>1
<1>2. ASSUME NEW n \in Nat, n \in T PROVE n + 1 \in T
  <2>1. CASE n + 1 <= Len(s)
    <3>1. \E f : Concats(s, n, f)
      BY <1>2, <2>1
    <3>2. \E f : Concats(s, n + 1, f)
      BY <2>1, <3>1, ConcatsStep
    <3> QED BY <3>2
  <2>2. CASE ~ (n + 1 <= Len(s))
    BY <2>2
  <2> QED BY <2>1, <2>2
<1>3. Nat \subseteq T
  <2> HIDE DEF T
  <2> QED BY <1>1, <1>2, NatInd
<1>4. Len(s) \in T
  BY <1>3
<1> QED BY <1>4

LEMMA FlattenIsLast ==
  ASSUME NEW s \in Seq(Seq(Nat)), s # <<>>
  PROVE  \E f : Concats(s, Len(s), f) /\ SX!FlattenSeq(s) = f[Len(s)]
<1> DEFINE P(f) == f = [i \in 1 .. Len(s) |-> IF i = 1 THEN s[i] ELSE f[i - 1] \o s[i]]
           g == CHOOSE f : P(f)
<1>1. \E f : P(f)
  <2>1. PICK f : Concats(s, Len(s), f)
    BY ConcatsExist
  <2>2. P(f)
    BY <2>1 DEF Concats
  <2> QED BY <2>2
<1>2. P(g)
  BY <1>1
<1>3. SX!FlattenSeq(s) = g[Len(s)]
  <2>1. Len(s) # 0
    OBVIOUS
  <2> QED BY <2>1, Zenon DEF SX!FlattenSeq
<1> HIDE DEF g
<1>4. \A i \in 1 .. Len(s) : g[i] = IF i = 1 THEN s[i] ELSE g[i - 1] \o s[i]
  BY <1>2
<1>5. \A n \in Nat : n \in 1 .. Len(s) => g[n] \in Seq(Nat)
  <2> DEFINE T == {n \in Nat : n \in 1 .. Len(s) => g[n] \in Seq(Nat)}
  <2>1. 0 \in T
    OBVIOUS
  <2>2. ASSUME NEW n \in Nat, n \in T PROVE n + 1 \in T
    <3> SUFFICES ASSUME n + 1 \in 1 .. Len(s) PROVE g[n + 1] \in Seq(Nat)
      OBVIOUS
    <3>1. s[n + 1] \in Seq(Nat)
      OBVIOUS
    <3>2. CASE n = 0
      BY <1>4, <3>1, <3>2
    <3>3. CASE n # 0
      <4>1. n \in 1 .. Len(s) /\ g[n] \in Seq(Nat)
        BY <2>2, <3>3
      <4>2. g[n + 1] = g[n] \o s[n + 1]
        <5>1. g[n + 1] = IF n + 1 = 1 THEN s[n + 1] ELSE g[n + 1 - 1] \o s[n + 1]
          BY <1>4
        <5>2. n + 1 # 1 /\ n + 1 - 1 = n
          BY <3>3
        <5> QED BY <5>1, <5>2
      <4> QED BY <3>1, <4>1, <4>2
    <3> QED BY <3>2, <3>3
  <2>3. Nat \subseteq T
    <3> HIDE DEF T
    <3> QED BY <2>1, <2>2, NatInd
  <2> QED BY <2>3
<1>6. g \in [1 .. Len(s) -> Seq(Nat)]
  BY <1>2, <1>5
<1>7. Concats(s, Len(s), g)
  BY <1>4, <1>6 DEF Concats
<1> QED BY <1>3, <1>7

\* The first n chunks are where off says in the byte string b.
Laid(cs, off, n, b) ==
  /\ b \in Seq(Nat) /\ Len(b) = off[n]
  /\ \A i \in 1 .. n : \A j \in 1 .. Len(cs[i]) : b[off[i - 1] + j] = cs[i][j]

LEMMA LaidStep ==
  ASSUME NEW cs \in Seq(Seq(Nat)), NEW off, Layout(cs, off), NEW n \in 1 .. Len(cs),
         n + 1 <= Len(cs), NEW b, Laid(cs, off, n, b)
  PROVE  Laid(cs, off, n + 1, b \o cs[n + 1])
<1>1. /\ cs[n + 1] \in Seq(Nat) /\ Len(cs[n + 1]) \in Nat
      /\ n + 1 \in 1 .. Len(cs) /\ n \in 0 .. Len(cs) /\ n + 1 - 1 = n
  OBVIOUS
<1>2. off[n] \in Nat /\ off[n + 1] = off[n] + Len(cs[n + 1])
  <2>1. off[n + 1] = off[n + 1 - 1] + Len(cs[n + 1])
    BY <1>1 DEF Layout
  <2> QED BY <1>1, <2>1 DEF Layout
<1>3. b \in Seq(Nat) /\ Len(b) = off[n]
  BY DEF Laid
<1>0. /\ b \o cs[n + 1] \in Seq(Nat)
      /\ Len(b \o cs[n + 1]) = Len(b) + Len(cs[n + 1])
      /\ \A k \in 1 .. Len(b) + Len(cs[n + 1]) :
           (b \o cs[n + 1])[k] = IF k <= Len(b) THEN b[k] ELSE cs[n + 1][k - Len(b)]
  BY <1>1, <1>3, ConcatProperties
<1>4. b \o cs[n + 1] \in Seq(Nat) /\ Len(b \o cs[n + 1]) = off[n + 1]
  BY <1>0, <1>2, <1>3
<1>5. ASSUME NEW i \in 1 .. n + 1, NEW j \in 1 .. Len(cs[i])
      PROVE  (b \o cs[n + 1])[off[i - 1] + j] = cs[i][j]
  <2>1. CASE i = n + 1
    <3>1. off[i - 1] = Len(b) /\ j \in 1 .. Len(cs[n + 1])
      BY <1>1, <1>3, <2>1
    <3>2. /\ Len(b) + j \in 1 .. Len(b) + Len(cs[n + 1])
          /\ ~ (Len(b) + j <= Len(b)) /\ Len(b) + j - Len(b) = j
      <4>1. Len(b) \in Nat /\ Len(cs[n + 1]) \in Nat
        BY <1>1, <1>2, <1>3
      <4>2. \A x, l \in Nat : \A y \in 1 .. l :
              x + y \in 1 .. x + l /\ ~ (x + y <= x) /\ x + y - x = y
        OBVIOUS
      <4> QED BY <3>1, <4>1, <4>2
    <3> QED BY <1>0, <2>1, <3>1, <3>2
  <2>2. CASE i # n + 1
    <3>1. i \in 1 .. n /\ i \in 1 .. Len(cs) /\ i - 1 \in 0 .. Len(cs)
      BY <2>2
    <3>2. /\ off[i - 1] \in Nat /\ off[i] <= off[n]
          /\ off[i] = off[i - 1] + Len(cs[i])
      <4>1. i \in 0 .. Len(cs) /\ i <= n
        BY <1>1, <3>1
      <4> QED BY <1>1, <3>1, <4>1 DEF Layout
    <3>3. cs[i] \in Seq(Nat) /\ Len(cs[i]) \in Nat
      BY <3>1
    <3>4. \A x, y, z, l \in Nat : j \in 1 .. l /\ y = x + l /\ y <= z => x + j \in 1 .. z
      OBVIOUS
    <3>5. off[i - 1] + j \in 1 .. Len(b) /\ Len(b) \in Nat
      <4>1. off[i] \in Nat /\ Len(b) = off[n]
        <5>1. i \in 0 .. Len(cs)
          BY <3>1
        <5> QED BY <1>3, <5>1 DEF Layout
      <4> QED BY <1>2, <3>2, <3>3, <3>4, <4>1
    <3>6. b[off[i - 1] + j] = cs[i][j]
      BY <3>1 DEF Laid
    <3>7. off[i - 1] + j \in 1 .. Len(b) + Len(cs[n + 1]) /\ off[i - 1] + j <= Len(b)
      BY <1>1, <3>5
    <3> QED BY <1>0, <3>6, <3>7
  <2> QED BY <2>1, <2>2
<1> QED BY <1>4, <1>5 DEF Laid

\* The byte stream holds every chunk at its place.
LEMMA StreamLayout ==
  ASSUME NEW cs \in Seq(Seq(Nat)), NEW off, Layout(cs, off)
  PROVE  Laid(cs, off, Len(cs), SX!FlattenSeq(cs))
<1>1. CASE cs = <<>>
  <2>1. SX!FlattenSeq(cs) = <<>>
    BY <1>1 DEF SX!FlattenSeq
  <2> QED BY <1>1, <2>1 DEF Layout, Laid
<1>2. CASE cs # <<>>
  <2>1. PICK f : Concats(cs, Len(cs), f) /\ SX!FlattenSeq(cs) = f[Len(cs)]
    BY <1>2, FlattenIsLast
  <2> DEFINE T == {n \in Nat : n \in 1 .. Len(cs) => Laid(cs, off, n, f[n])}
  <2>2. 0 \in T
    OBVIOUS
  <2>3. ASSUME NEW n \in Nat, n \in T PROVE n + 1 \in T
    <3> SUFFICES ASSUME n + 1 \in 1 .. Len(cs) PROVE Laid(cs, off, n + 1, f[n + 1])
      OBVIOUS
    <3>1. CASE n = 0
      <4>1. f[1] = cs[1]
        <5>1. 1 \in 1 .. Len(cs)
          BY <3>1
        <5> QED BY <2>1, <5>1 DEF Concats
      <4>2. off[0] = 0 /\ off[1] = off[0] + Len(cs[1]) /\ cs[1] \in Seq(Nat)
        BY <3>1 DEF Layout
      <4> QED BY <3>1, <4>1, <4>2 DEF Laid
    <3>2. CASE n # 0
      <4>1. f[n + 1] = f[n] \o cs[n + 1]
        <5>1. \A i \in 1 .. Len(cs) : i # 1 => f[i] = f[i - 1] \o cs[i]
          BY <2>1, ConcatsAt
        <5>2. PICK k \in 1 .. Len(cs) : k # 1 /\ k = n + 1 /\ k - 1 = n
          BY <3>2
        <5>3. f[k] = f[k - 1] \o cs[k]
          BY <5>1, <5>2
        <5> QED BY <5>2, <5>3
      <4>2. n \in 1 .. Len(cs) /\ n + 1 <= Len(cs)
        BY <3>2
      <4> QED BY <2>3, <4>1, <4>2, LaidStep
    <3> QED BY <3>1, <3>2
  <2>4. Nat \subseteq T
    <3> HIDE DEF T
    <3> QED BY <2>2, <2>3, NatInd
  <2>5. Len(cs) \in Nat /\ Len(cs) \in 1 .. Len(cs)
    BY <1>2
  <2>6. Laid(cs, off, Len(cs), f[Len(cs)])
    BY <2>4, <2>5
  <2> QED BY <2>1, <2>6
<1> QED BY <1>1, <1>2

-----------------------------------------------------------------------------
(* The encoder.                                                            *)

LEMMA RunAppend ==
  ASSUME NEW a \in Nat, NEW b \in Nat, a <= b, NEW s, IsRun(s, a, b)
  PROVE  IsRun(Append(s, b + 1), a, b + 1)
<1>1. s \in Seq(Nat) /\ Len(s) = b - a /\ b + 1 \in Nat
  BY DEF IsRun
<1>2. /\ Append(s, b + 1) \in Seq(Nat)
      /\ Len(Append(s, b + 1)) = Len(s) + 1
      /\ \A j \in 1 .. Len(s) : Append(s, b + 1)[j] = s[j]
      /\ Append(s, b + 1)[Len(s) + 1] = b + 1
  BY <1>1
<1>3. /\ b + 1 - a = b - a + 1 /\ b - a \in Nat /\ a + (b - a + 1) = b + 1
      /\ \A j \in 1 .. b + 1 - a : j \in 1 .. b - a \/ j = b - a + 1
  OBVIOUS
<1>4. ASSUME NEW j \in 1 .. b + 1 - a PROVE Append(s, b + 1)[j] = a + j
  <2>1. CASE j \in 1 .. b - a
    BY <1>1, <1>2, <2>1 DEF IsRun
  <2>2. CASE j = b - a + 1
    BY <1>1, <1>2, <1>3, <2>2
  <2> QED BY <1>3, <2>1, <2>2
<1>5. Len(Append(s, b + 1)) = b + 1 - a
  BY <1>1, <1>2, <1>3
<1> QED BY <1>2, <1>4, <1>5 DEF IsRun

LEMMA FrameOfRun ==
  ASSUME NEW a \in Nat, NEW b \in Nat, a <= b, NEW s, IsRun(s, a, b)
  PROVE  IsFrame(Frame(s), a, b)
<1> DEFINE h == <<b - a, b - a>>
<1>1. s \in Seq(Nat) /\ Len(s) = b - a /\ b - a \in Nat
  BY DEF IsRun
<1>2. h \in Seq(Nat) /\ Len(h) = 2 /\ h[1] = b - a /\ h[2] = b - a
  BY <1>1
<1>3. Frame(s) = h \o s
  BY <1>1 DEF Frame
<1> HIDE DEF h
<1>4. /\ Frame(s) \in Seq(Nat) /\ Len(Frame(s)) = 2 + (b - a)
      /\ \A k \in 1 .. 2 + (b - a) : Frame(s)[k] = IF k <= 2 THEN h[k] ELSE s[k - 2]
  <2>1. /\ h \o s \in Seq(Nat) /\ Len(h \o s) = Len(h) + Len(s)
        /\ \A k \in 1 .. Len(h) + Len(s) :
             (h \o s)[k] = IF k <= Len(h) THEN h[k] ELSE s[k - Len(h)]
    BY <1>1, <1>2, ConcatProperties
  <2> QED BY <1>1, <1>2, <1>3, <2>1
<1>5. 1 \in 1 .. 2 + (b - a) /\ 2 \in 1 .. 2 + (b - a)
  BY <1>1
<1>6. Frame(s)[1] = b - a /\ Frame(s)[2] = b - a
  BY <1>2, <1>4, <1>5
<1>7. ASSUME NEW j \in 1 .. b - a PROVE Frame(s)[2 + j] = a + j
  <2>1. 2 + j \in 1 .. 2 + (b - a) /\ ~ (2 + j <= 2) /\ 2 + j - 2 = j
    BY <1>1
  <2>2. Frame(s)[2 + j] = s[j]
    BY <1>4, <2>1
  <2> QED BY <2>2 DEF IsRun
<1> QED BY <1>4, <1>6, <1>7 DEF IsFrame

LEMMA SentinelIsFrame == \A a \in Nat : IsFrame(Sentinel, a, a)
BY DEF Sentinel, IsFrame

\* What holds of the ends of the chunks does not depend on what follows them.
SameEnds(cs, z, n, ds, y, q) ==
  /\ Len(cs) <= Len(ds)
  /\ \A i \in 1 .. Len(cs) : ds[i] = cs[i]
  /\ \A i \in 0 .. Len(cs) : EndOf(ds, y, q, i) = EndOf(cs, z, n, i)

LEMMA SentBuffer ==
  ASSUME NEW cs, NEW n, NEW b, Sent(cs, 0, n, b), NEW q \in n .. NumPoses, NEW d,
         IsRun(d, EndOf(cs, 0, n, Len(cs)), q)
  PROVE  Sent(cs, 0, q, d) /\ SameEnds(cs, 0, n, cs, 0, q)
<1>1. \A i \in 0 .. Len(cs) : EndOf(cs, 0, q, i) = EndOf(cs, 0, n, i)
  BY DEF EndOf
<1>2. n \in Nat /\ q \in Nat /\ 0 .. n \subseteq 0 .. q /\ q \in 0 .. NumPoses
  BY DEF Sent
<1>3. Len(cs) \in Nat
  BY DEF Sent
<1>4. \A i \in 1 .. Len(cs) : i \in 0 .. Len(cs) /\ i - 1 \in 0 .. Len(cs)
  BY <1>3
<1>5. SameEnds(cs, 0, n, cs, 0, q)
  BY <1>1, <1>3 DEF SameEnds
<1>6. /\ \A i \in 0 .. Len(cs) : EndOf(cs, 0, q, i) \in 0 .. q
      /\ \A i, j \in 0 .. Len(cs) : i <= j => EndOf(cs, 0, q, i) <= EndOf(cs, 0, q, j)
  BY <1>1, <1>2 DEF Sent
<1>7. \A i \in 1 .. Len(cs) :
        /\ IsFrame(cs[i], EndOf(cs, 0, q, i - 1), EndOf(cs, 0, q, i))
        /\ EndOf(cs, 0, q, i - 1) # EndOf(cs, 0, q, i)
  <2>1. ASSUME NEW i \in 1 .. Len(cs)
        PROVE  /\ IsFrame(cs[i], EndOf(cs, 0, n, i - 1), EndOf(cs, 0, n, i))
               /\ EndOf(cs, 0, n, i - 1) # EndOf(cs, 0, n, i)
    BY <2>1 DEF Sent
  <2> QED BY <1>1, <1>4, <2>1
<1>8. Len(cs) <= EndOf(cs, 0, q, Len(cs)) + 0 /\ IsRun(d, EndOf(cs, 0, q, Len(cs)), q)
  BY <1>1, <1>3 DEF Sent
<1> QED BY <1>2, <1>5, <1>6, <1>7, <1>8 DEF Sent

\* One more chunk c, up to pose e, is sent; y says whether it is the sentinel.
LEMMA SentAppend ==
  ASSUME NEW cs, NEW n, NEW b, Sent(cs, 0, n, b),
         NEW q \in n .. NumPoses, NEW e \in 0 .. q, NEW y \in {0, 1}, NEW c, NEW d,
         IsFrame(c, EndOf(cs, 0, n, Len(cs)), e), IsRun(d, e, q),
         y = 0 => EndOf(cs, 0, n, Len(cs)) < e,
         y = 1 => EndOf(cs, 0, n, Len(cs)) = e /\ e = q
  PROVE  Sent(Append(cs, c), y, q, d) /\ SameEnds(cs, 0, n, Append(cs, c), y, q)
<1> DEFINE ds == Append(cs, c)
           a == EndOf(cs, 0, n, Len(cs))
<1>1. cs \in Seq(Seq(Nat)) /\ Len(cs) \in Nat /\ c \in Seq(Nat)
  BY DEF Sent, IsFrame
<1>2. /\ ds \in Seq(Seq(Nat)) /\ Len(ds) = Len(cs) + 1
      /\ ds[Len(cs) + 1] = c
      /\ \A i \in 1 .. Len(cs) : ds[i] = cs[i]
  BY <1>1
<1>3. n \in Nat /\ q \in Nat /\ n <= q /\ q \in 0 .. NumPoses /\ e \in Nat /\ e <= q
  BY DEF Sent
<1>4. \A i \in 0 .. Len(cs) : EndOf(ds, y, q, i) = EndOf(cs, 0, n, i)
  BY <1>1, <1>2 DEF EndOf
<1>5. a \in 0 .. n /\ Len(cs) \in 0 .. Len(cs)
  BY <1>1 DEF Sent
<1>6. EndOf(ds, y, q, Len(cs) + 1) = e
  <2>1. CASE y = 1
    BY <1>1, <1>2, <2>1 DEF EndOf
  <2>2. CASE y = 0
    <3>1. EndOf(ds, y, q, Len(cs) + 1) = c[Len(c)]
      BY <1>1, <1>2, <2>2 DEF EndOf
    <3>2. Len(c) = 2 + (e - a) /\ e - a \in 1 .. e - a /\ a + (e - a) = e
      BY <1>3, <1>5, <2>2 DEF IsFrame
    <3>3. c[2 + (e - a)] = a + (e - a)
      BY <3>2 DEF IsFrame
    <3> QED BY <3>1, <3>2, <3>3
  <2> QED BY <2>1, <2>2
<1>7. SameEnds(cs, 0, n, ds, y, q)
  BY <1>1, <1>2, <1>4 DEF SameEnds
<1> HIDE DEF ds
<1>8. \A i \in 0 .. Len(cs) + 1 : i \in 0 .. Len(cs) \/ i = Len(cs) + 1
  BY <1>1
<1>9. \A i \in 0 .. Len(cs) : EndOf(ds, y, q, i) \in 0 .. q /\ EndOf(ds, y, q, i) <= a
  <2>1. \A i \in 0 .. Len(cs) : i <= Len(cs)
    BY <1>1
  <2>2. 0 .. n \subseteq 0 .. q
    BY <1>3
  <2> QED BY <1>4, <1>5, <2>1, <2>2 DEF Sent
<1>10. \A i \in 0 .. Len(cs) + 1 : EndOf(ds, y, q, i) \in 0 .. q
  BY <1>3, <1>6, <1>8, <1>9
<1>11. ASSUME NEW i \in 0 .. Len(cs) + 1, NEW j \in 0 .. Len(cs) + 1, i <= j
       PROVE  EndOf(ds, y, q, i) <= EndOf(ds, y, q, j)
  <2>1. CASE j \in 0 .. Len(cs)
    <3>1. i \in 0 .. Len(cs)
      BY <1>1, <1>11, <2>1
    <3> QED BY <1>4, <1>11, <2>1, <3>1 DEF Sent
  <2>2. CASE i \in 0 .. Len(cs) /\ j = Len(cs) + 1
    <3>1. EndOf(ds, y, q, i) \in Nat /\ EndOf(ds, y, q, i) <= a /\ a \in Nat /\ a <= e
      BY <1>3, <1>5, <1>9, <2>2
    <3> QED BY <1>3, <1>6, <2>2, <3>1
  <2>3. CASE i = Len(cs) + 1 /\ j = Len(cs) + 1
    BY <1>3, <1>6, <2>3
  <2> QED BY <1>1, <1>8, <1>11, <2>1, <2>2, <2>3
<1>12. ASSUME NEW i \in 1 .. Len(cs) + 1
       PROVE  /\ IsFrame(ds[i], EndOf(ds, y, q, i - 1), EndOf(ds, y, q, i))
              /\ EndOf(ds, y, q, i - 1) = EndOf(ds, y, q, i) <=> y = 1 /\ i = Len(cs) + 1
  <2>1. CASE i = Len(cs) + 1
    <3>1. i - 1 = Len(cs) /\ EndOf(ds, y, q, i - 1) = a /\ EndOf(ds, y, q, i) = e /\ ds[i] = c
      BY <1>1, <1>2, <1>4, <1>5, <1>6, <2>1
    <3>2. a = e <=> y = 1
      BY <1>3, <1>5
    <3> QED BY <2>1, <3>1, <3>2
  <2>2. CASE i # Len(cs) + 1
    <3>1. i \in 1 .. Len(cs) /\ i \in 0 .. Len(cs) /\ i - 1 \in 0 .. Len(cs)
      BY <1>1, <2>2
    <3>2. /\ IsFrame(cs[i], EndOf(cs, 0, n, i - 1), EndOf(cs, 0, n, i))
          /\ EndOf(cs, 0, n, i - 1) # EndOf(cs, 0, n, i)
      BY <3>1 DEF Sent
    <3>3. /\ ds[i] = cs[i] /\ EndOf(ds, y, q, i) = EndOf(cs, 0, n, i)
          /\ EndOf(ds, y, q, i - 1) = EndOf(cs, 0, n, i - 1)
      BY <1>2, <1>4, <3>1
    <3> QED BY <2>2, <3>2, <3>3
  <2> QED BY <2>1, <2>2
<1>13. Len(cs) + 1 <= e + y
  <2>1. Len(cs) <= a
    BY DEF Sent
  <2> QED BY <1>1, <1>3, <1>5, <2>1
<1>14. IsRun(d, EndOf(ds, y, q, Len(cs) + 1), q)
  BY <1>6
<1> HIDE DEF a
<1>15. Sent(ds, y, q, d)
  BY <1>1, <1>2, <1>3, <1>6, <1>10, <1>11, <1>12, <1>13, <1>14 DEF Sent
<1> QED BY <1>7, <1>15 DEF ds

LEMMA SameEndsTrans ==
  ASSUME NEW cs \in Seq(Seq(Nat)), NEW n, NEW ds \in Seq(Seq(Nat)), NEW p,
         NEW es \in Seq(Seq(Nat)), NEW y, NEW q,
         SameEnds(cs, 0, n, ds, 0, p), SameEnds(ds, 0, p, es, y, q)
  PROVE  SameEnds(cs, 0, n, es, y, q)
<1>1. Len(cs) \in Nat /\ Len(ds) \in Nat /\ Len(es) \in Nat
  OBVIOUS
<1>2. Len(cs) <= Len(ds) /\ Len(ds) <= Len(es)
  BY DEF SameEnds
<1>3. 1 .. Len(cs) \subseteq 1 .. Len(ds) /\ 0 .. Len(cs) \subseteq 0 .. Len(ds)
  BY <1>1, <1>2
<1> QED BY <1>1, <1>2, <1>3 DEF SameEnds

\* A run that is not empty ends behind where it begins.
LEMMA RunLength ==
  ASSUME NEW a \in Nat, NEW b \in Nat, NEW s, IsRun(s, a, b)
  PROVE  a <= b /\ (s = <<>> <=> a = b) /\ s \in Seq(Nat)
<1>1. s \in Seq(Nat) /\ Len(s) = b - a /\ Len(s) \in Nat
  BY DEF IsRun
<1>2. s = <<>> <=> Len(s) = 0
  BY <1>1, EmptySeq
<1> QED BY <1>1, <1>2

LEMMA NoRun == \A a \in Nat : IsRun(<<>>, a, a)
BY DEF IsRun

\* What a chunk sent last adds, when it takes the whole buffer with it.
LEMMA SentChunk ==
  ASSUME NEW cs, NEW n, NEW b, Sent(cs, 0, n, b), NEW q \in n .. NumPoses, NEW s,
         IsRun(s, EndOf(cs, 0, n, Len(cs)), q), EndOf(cs, 0, n, Len(cs)) < q
  PROVE  /\ Sent(Append(cs, Frame(s)), 0, q, <<>>)
         /\ SameEnds(cs, 0, n, Append(cs, Frame(s)), 0, q)
         /\ Frame(s) \in Seq(Nat)
<1> DEFINE a == EndOf(cs, 0, n, Len(cs))
<1>1. n \in Nat /\ q \in Nat /\ a \in Nat /\ q \in 0 .. q
  BY DEF Sent
<1>2. IsFrame(Frame(s), a, q)
  BY <1>1, FrameOfRun
<1>3. IsRun(<<>>, q, q)
  BY <1>1, NoRun
<1> HIDE DEF a
<1>4. Sent(Append(cs, Frame(s)), 0, q, <<>>) /\ SameEnds(cs, 0, n, Append(cs, Frame(s)), 0, q)
  BY <1>1, <1>2, <1>3, SentAppend DEF a
<1> QED BY <1>2, <1>4 DEF IsFrame

\* And the sentinel.
LEMMA SentSentinel ==
  ASSUME NEW cs, NEW n, Sent(cs, 0, n, <<>>)
  PROVE  /\ Sent(Append(cs, Sentinel), 1, n, <<>>)
         /\ SameEnds(cs, 0, n, Append(cs, Sentinel), 1, n)
<1> DEFINE a == EndOf(cs, 0, n, Len(cs))
<1>1. n \in Nat /\ a \in Nat /\ n \in n .. NumPoses /\ n \in 0 .. n
  BY DEF Sent
<1>2. IsRun(<<>>, a, n) /\ a = n
  BY <1>1, RunLength DEF Sent
<1>3. IsFrame(Sentinel, a, n)
  BY <1>1, <1>2, SentinelIsFrame
<1> HIDE DEF a
<1> QED BY <1>1, <1>2, <1>3, SentAppend DEF a

\* How the stream of chunks grows in one step.
Grows(cs, ds) ==
  \/ ds = cs
  \/ \E c \in Seq(Nat) : ds = Append(cs, c)
  \/ \E c, d \in Seq(Nat) : ds = Append(Append(cs, c), d)

LEMMA EncoderStep ==
  ASSUME EncInv, Encoder
  PROVE  /\ EncInv' /\ ~ encFinished /\ Grows(chunks, chunks')
         /\ SameEnds(chunks, 0, pushed, chunks', Finished', pushed')
<1>1. Sent(chunks, 0, pushed, buffer) /\ ~ encFinished
  BY DEF EncInv, Finished, Encoder, PushBuffered, PushEmits, PushChunkThrows, Finish,
         FinishSentinelThrows
<1> DEFINE a == EndOf(chunks, 0, pushed, Len(chunks))
<1>2. /\ a \in Nat /\ pushed \in Nat /\ IsRun(buffer, a, pushed) /\ pushed <= NumPoses
      /\ chunks \in Seq(Seq(Nat)) /\ Len(chunks) \in Nat /\ NumPoses \in Nat
  BY <1>1, PoseStreamAssumption DEF Sent
<1>3. a <= pushed /\ (buffer = <<>> <=> a = pushed)
  BY <1>2, RunLength
<1>4. IsRun(Append(buffer, pushed + 1), a, pushed + 1)
  BY <1>2, <1>3, RunAppend
<1>5. /\ pushed < NumPoses => pushed + 1 \in pushed .. NumPoses /\ a < pushed + 1
      /\ pushed \in pushed .. NumPoses
  BY <1>2, <1>3
<1> HIDE DEF a
<1>6. CASE PushBuffered \/ PushChunkThrows
  <2>1. /\ pushed' = pushed + 1 /\ buffer' = Append(buffer, pushed + 1)
        /\ chunks' = chunks /\ encFinished' = encFinished /\ pushed < NumPoses
    BY <1>6 DEF PushBuffered, PushChunkThrows
  <2>2. /\ Sent(chunks, 0, pushed + 1, Append(buffer, pushed + 1))
        /\ SameEnds(chunks, 0, pushed, chunks, 0, pushed + 1)
    BY <1>1, <1>4, <1>5, <2>1, SentBuffer DEF a
  <2>3. Finished' = 0 /\ encFinished' \in BOOLEAN
    BY <1>1, <2>1 DEF Finished, EncInv
  <2> QED BY <1>1, <2>1, <2>2, <2>3 DEF EncInv, Grows
<1>7. CASE PushEmits
  <2> DEFINE c == Frame(Append(buffer, pushed + 1))
  <2>1. /\ pushed' = pushed + 1 /\ buffer' = <<>> /\ chunks' = Append(chunks, c)
        /\ encFinished' = encFinished /\ pushed < NumPoses
    BY <1>7 DEF PushEmits
  <2>2. /\ Sent(Append(chunks, c), 0, pushed + 1, <<>>)
        /\ SameEnds(chunks, 0, pushed, Append(chunks, c), 0, pushed + 1)
        /\ c \in Seq(Nat)
    BY <1>1, <1>4, <1>5, <2>1, SentChunk DEF a
  <2>3. Finished' = 0 /\ encFinished' \in BOOLEAN
    BY <1>1, <2>1 DEF Finished, EncInv
  <2> HIDE DEF c
  <2> QED BY <1>1, <2>1, <2>2, <2>3 DEF EncInv, Grows
<1>8. ASSUME buffer # <<>>
      PROVE  /\ Sent(Append(chunks, Frame(buffer)), 0, pushed, <<>>)
             /\ SameEnds(chunks, 0, pushed, Append(chunks, Frame(buffer)), 0, pushed)
             /\ Frame(buffer) \in Seq(Nat)
  <2>1. a < pushed
    BY <1>2, <1>3, <1>8
  <2> QED BY <1>1, <1>2, <1>5, <2>1, SentChunk DEF a
<1>9. SameEnds(chunks, 0, pushed, chunks, 0, pushed)
  BY <1>2 DEF SameEnds
<1>10. CASE FinishSentinelThrows
  <2>1. /\ chunks' = IF buffer = <<>> THEN chunks ELSE Append(chunks, Frame(buffer))
        /\ buffer' = <<>> /\ pushed' = pushed /\ encFinished' = encFinished
    BY <1>10 DEF FinishSentinelThrows
  <2>2. Finished' = 0 /\ encFinished' \in BOOLEAN
    BY <1>1, <2>1 DEF Finished, EncInv
  <2>3. CASE buffer = <<>>
    BY <1>1, <1>9, <2>1, <2>2, <2>3 DEF EncInv, Grows
  <2>4. CASE buffer # <<>>
    BY <1>1, <1>8, <2>1, <2>2, <2>4 DEF EncInv, Grows
  <2> QED BY <2>3, <2>4
<1>11. CASE Finish
  <2> DEFINE cs == IF buffer = <<>> THEN chunks ELSE Append(chunks, Frame(buffer))
  <2>1. /\ chunks' = cs \o <<Sentinel>>
        /\ buffer' = <<>> /\ pushed' = pushed /\ encFinished' = TRUE
    BY <1>11 DEF Finish
  <2>2. Finished' = 1 /\ encFinished' \in BOOLEAN
    BY <2>1 DEF Finished
  <2>3. Sent(cs, 0, pushed, <<>>) /\ SameEnds(chunks, 0, pushed, cs, 0, pushed)
    BY <1>1, <1>8, <1>9
  <2>4. cs = chunks \/ \E c \in Seq(Nat) : cs = Append(chunks, c)
    BY <1>8
  <2> HIDE DEF cs
  <2>5. cs \in Seq(Seq(Nat)) /\ Sentinel \in Seq(Nat)
    BY <2>3 DEF Sent, Sentinel
  <2>6. chunks' = Append(cs, Sentinel)
    BY <2>1, <2>5, AppendIsConcat
  <2>7. /\ Sent(Append(cs, Sentinel), 1, pushed, <<>>)
        /\ SameEnds(cs, 0, pushed, Append(cs, Sentinel), 1, pushed)
    BY <2>3, SentSentinel
  <2>8. Append(cs, Sentinel) \in Seq(Seq(Nat))
    BY <2>7 DEF Sent
  <2>9. SameEnds(chunks, 0, pushed, Append(cs, Sentinel), 1, pushed)
    BY <1>2, <2>3, <2>5, <2>7, <2>8, SameEndsTrans
  <2>10. Grows(chunks, Append(cs, Sentinel))
    BY <2>4, <2>5 DEF Grows
  <2> QED BY <1>1, <2>1, <2>2, <2>6, <2>7, <2>9, <2>10 DEF EncInv
<1> QED BY <1>6, <1>7, <1>10, <1>11 DEF Encoder

LEMMA GrowLayout ==
  ASSUME NEW cs \in Seq(Seq(Nat)), NEW c \in Seq(Nat), NEW off, NEW m \in 0 .. Len(cs),
         NEW f, NEW b, Parsed(cs, off, m, f, b)
  PROVE  \E p : Parsed(Append(cs, c), p, m, f, b)
<1> DEFINE n == Len(cs)
           p == [i \in 0 .. n + 1 |-> IF i = n + 1 THEN off[n] + Len(c) ELSE off[i]]
           ds == Append(cs, c)
<1>1. n \in Nat /\ Len(c) \in Nat /\ m \in Nat /\ m <= n
  OBVIOUS
<1>2. /\ Len(ds) = n + 1 /\ ds[n + 1] = c
      /\ \A i \in 1 .. n : ds[i] = cs[i]
  OBVIOUS
<1>3. /\ off \in [0 .. n -> Nat] /\ off[0] = 0
      /\ \A i \in 1 .. n : off[i] = off[i - 1] + Len(cs[i])
      /\ \A i, j \in 0 .. n : i <= j => off[i] <= off[j]
  BY DEF Parsed, Layout
<1>4. /\ f \in 0 .. off[n] /\ f = off[m] + Len(b)
      /\ \A i \in m + 1 .. n : \A j \in 1 .. Len(cs[i]) :
           off[i - 1] + j <= f => b[off[i - 1] + j - off[m]] = cs[i][j]
  BY DEF Parsed
<1>5. n \in 0 .. n /\ off[n] \in Nat
  BY <1>1, <1>3
<1>6. \A i \in 0 .. n : p[i] = off[i]
  BY <1>1
<1>7. p[n + 1] = off[n] + Len(c)
  BY <1>1
<1>8. p \in [0 .. n + 1 -> Nat]
  BY <1>1, <1>3, <1>5
<1> HIDE DEF p, ds
<1>9. p[0] = 0
  BY <1>1, <1>3, <1>6
<1>10. \A i \in 0 .. n + 1 : i \in 0 .. n \/ i = n + 1
  BY <1>1
<1>11. ASSUME NEW i \in 1 .. n + 1 PROVE p[i] = p[i - 1] + Len(ds[i])
  <2>1. CASE i = n + 1
    <3>1. i - 1 = n
      BY <1>1, <2>1
    <3> QED BY <1>2, <1>5, <1>6, <1>7, <2>1, <3>1
  <2>2. CASE i # n + 1
    <3>1. i \in 1 .. n /\ i \in 0 .. n /\ i - 1 \in 0 .. n
      BY <1>1, <2>2
    <3> QED BY <1>2, <1>3, <1>6, <3>1
  <2> QED BY <2>1, <2>2
<1>12. ASSUME NEW i \in 0 .. n + 1, NEW j \in 0 .. n + 1, i <= j PROVE p[i] <= p[j]
  <2>1. CASE j \in 0 .. n
    <3>1. i \in 0 .. n
      BY <1>1, <1>12, <2>1
    <3> QED BY <1>3, <1>6, <1>12, <2>1, <3>1
  <2>2. CASE i \in 0 .. n /\ j = n + 1
    <3>1. off[i] <= off[n] /\ off[i] \in Nat
      <4>1. i \in 0 .. n /\ n \in 0 .. n /\ i <= n
        BY <1>1, <2>2
      <4> QED BY <1>3, <4>1
    <3> QED BY <1>1, <1>5, <1>6, <1>7, <2>2, <3>1
  <2>3. CASE i = n + 1 /\ j = n + 1
    BY <1>1, <1>5, <1>7, <2>3
  <2> QED BY <1>1, <1>10, <1>12, <2>1, <2>2, <2>3
<1>13. Layout(ds, p)
  BY <1>2, <1>8, <1>9, <1>11, <1>12 DEF Layout
<1>14. f \in 0 .. p[n + 1] /\ f = p[m] + Len(b)
  <2>1. p[m] = off[m]
    BY <1>1, <1>6
  <2> QED BY <1>1, <1>4, <1>5, <1>7, <2>1
<1>15. ASSUME NEW i \in m + 1 .. n + 1, NEW j \in 1 .. Len(ds[i]), p[i - 1] + j <= f
       PROVE  b[p[i - 1] + j - p[m]] = ds[i][j]
  <2>0. p[m] = off[m]
    BY <1>1, <1>6
  <2>1. CASE i = n + 1
    <3>1. p[i - 1] = off[n]
      BY <1>1, <1>5, <1>6, <2>1
    <3>2. j \in Nat /\ j > 0
      BY <1>2, <2>1
    <3> QED BY <1>4, <1>5, <1>15, <3>1, <3>2
  <2>2. CASE i # n + 1
    <3>1. i \in m + 1 .. n /\ i \in 1 .. n /\ i - 1 \in 0 .. n
      BY <1>1, <2>2
    <3> QED BY <1>2, <1>4, <1>6, <1>15, <2>0, <3>1
  <2> QED BY <2>1, <2>2
<1>16. Parsed(ds, p, m, f, b)
  BY <1>2, <1>13, <1>14, <1>15 DEF Parsed
<1> QED BY <1>16 DEF ds

LEMMA GrowPipe ==
  ASSUME NEW cs \in Seq(Seq(Nat)), NEW ds, Grows(cs, ds), NEW m \in 0 .. Len(cs),
         NEW f, NEW b, \E off : Parsed(cs, off, m, f, b)
  PROVE  \E p : Parsed(ds, p, m, f, b)
<1>1. PICK off : Parsed(cs, off, m, f, b)
  OBVIOUS
<1>2. ASSUME NEW c \in Seq(Nat)
      PROVE  \E p : Parsed(Append(cs, c), p, m, f, b)
  BY <1>1, GrowLayout
<1>3. ASSUME NEW c \in Seq(Nat), NEW d \in Seq(Nat)
      PROVE  \E p : Parsed(Append(Append(cs, c), d), p, m, f, b)
  <2>1. PICK p : Parsed(Append(cs, c), p, m, f, b)
    BY <1>2
  <2>2. Append(cs, c) \in Seq(Seq(Nat)) /\ m \in 0 .. Len(Append(cs, c))
    OBVIOUS
  <2> HIDE DEF Parsed
  <2> QED BY <2>1, <2>2, GrowLayout
<1> QED BY <1>1, <1>2, <1>3 DEF Grows

\* The chunks that were sent.
LEMMA Chunks ==
  ASSUME EncInv
  PROVE  /\ chunks \in Seq(Seq(Nat)) /\ Len(chunks) \in Nat /\ EndAt(0) = 0
         /\ pushed \in Nat
         /\ \A i \in 0 .. Len(chunks) : EndAt(i) \in Nat /\ EndAt(i) <= pushed
         /\ \A i, j \in 0 .. Len(chunks) : i <= j => EndAt(i) <= EndAt(j)
         /\ \A i \in 1 .. Len(chunks) :
              /\ IsFrame(chunks[i], EndAt(i - 1), EndAt(i))
              /\ EndAt(i - 1) = EndAt(i) <=> encFinished /\ i = Len(chunks)
         /\ encFinished => Len(chunks) > 0 /\ EndAt(Len(chunks)) = pushed
         /\ Len(chunks) <= NumPoses + 1
<1>1. Sent(chunks, Finished, pushed, buffer)
  BY DEF EncInv
<1>2. Finished = 1 <=> encFinished
  BY DEF Finished, EncInv
<1>3. chunks \in Seq(Seq(Nat)) /\ Len(chunks) \in Nat /\ EndAt(0) = 0
  BY <1>1 DEF Sent, EndAt, EndOf
<1>4. pushed \in Nat /\ pushed <= NumPoses /\ NumPoses \in Nat
  BY <1>1, PoseStreamAssumption DEF Sent
<1>5. /\ \A i \in 0 .. Len(chunks) : EndAt(i) \in Nat /\ EndAt(i) <= pushed
      /\ \A i, j \in 0 .. Len(chunks) : i <= j => EndAt(i) <= EndAt(j)
  BY <1>1, <1>4 DEF Sent, EndAt
<1>6. \A i \in 1 .. Len(chunks) :
        /\ IsFrame(chunks[i], EndAt(i - 1), EndAt(i))
        /\ EndAt(i - 1) = EndAt(i) <=> Finished = 1 /\ i = Len(chunks)
  BY <1>1 DEF Sent, EndAt
<1>7. encFinished => Len(chunks) > 0 /\ EndAt(Len(chunks)) = pushed
  BY <1>1, <1>2, <1>3 DEF Sent, EndAt, EndOf
<1>8. Len(chunks) <= NumPoses + 1
  <2>1. Len(chunks) <= EndAt(Len(chunks)) + Finished /\ Finished \in {0, 1}
    BY <1>1 DEF Sent, EndAt
  <2>2. Len(chunks) \in 0 .. Len(chunks)
    BY <1>3
  <2>3. EndAt(Len(chunks)) \in Nat /\ EndAt(Len(chunks)) <= NumPoses
    BY <1>4, <1>5, <2>2
  <2> QED BY <1>3, <1>4, <2>1, <2>3
<1> QED BY <1>2, <1>3, <1>4, <1>5, <1>6, <1>7, <1>8

LEMMA ChunkHasHeader ==
  ASSUME EncInv, NEW i \in 1 .. Len(chunks)
  PROVE  chunks[i] \in Seq(Nat) /\ Len(chunks[i]) >= 2 /\ chunks[i] # <<>>
<1>1. i - 1 \in 0 .. Len(chunks) /\ i \in 0 .. Len(chunks) /\ i - 1 <= i
  OBVIOUS
<1>2. /\ EndAt(i - 1) \in Nat /\ EndAt(i) \in Nat /\ EndAt(i - 1) <= EndAt(i)
      /\ IsFrame(chunks[i], EndAt(i - 1), EndAt(i))
  BY <1>1, Chunks
<1>3. PICK a \in Nat, e \in Nat : a <= e /\ IsFrame(chunks[i], a, e)
  BY <1>2
<1>4. chunks[i] \in Seq(Nat) /\ Len(chunks[i]) >= 2
  BY <1>3 DEF IsFrame
<1> QED BY <1>4

\* The sequence numbers the stream needs lie below the wrap.
LEMMA NoWrap ==
  ASSUME EncInv, PacketInv
  PROVE  /\ Len(chunks) \in Nat /\ next \in Nat /\ next <= Len(chunks)
         /\ \A s \in 0 .. Len(chunks) : s \in R!Seqs /\ s % SeqMod = s
         /\ R!Seqs \subseteq Nat /\ R!Held \subseteq R!Seqs
<1>1. Len(chunks) \in Nat /\ Len(chunks) <= NumPoses + 1
  BY Chunks
<1>2. NumPoses \in Nat /\ SeqMod \in Nat /\ NumPoses + 1 < SeqMod
  BY PoseStreamAssumption, PoseTransportAssumption
<1>3. \A s \in 0 .. Len(chunks) : s \in R!Seqs /\ s % SeqMod = s
  BY <1>1, <1>2 DEF R!Seqs
<1>4. next \in 0 .. Len(chunks)
  BY DEF PacketInv
<1> QED BY <1>1, <1>3, <1>4 DEF R!Seqs, R!Held

\* What is due changes with the reassembler only.
LEMMA DueIdle ==
  ASSUME UNCHANGED reasmVars
  PROVE  DueAt' = DueAt
BY DEF DueAt, reasmVars, R!Earliest, R!Held, R!Seqs, R!Min

LEMMA FinishGrows ==
  ASSUME Encoder, chunks \in Seq(Seq(Nat)), chunks' \in Seq(Seq(Nat)),
         ~ encFinished, encFinished'
  PROVE  Len(chunks) < Len(chunks')
<1>1. Finish
  BY DEF Encoder, PushBuffered, PushEmits, PushChunkThrows, FinishSentinelThrows
<1>2. chunks' = (IF buffer = <<>> THEN chunks ELSE Append(chunks, Frame(buffer))) \o <<Sentinel>>
  BY <1>1 DEF Finish
<1>3. CASE buffer = <<>>
  <2>1. chunks' = chunks \o <<Sentinel>>
    BY <1>2, <1>3
  <2> QED BY <2>1
<1>4. CASE buffer # <<>>
  <2>1. PICK c : c = Frame(buffer)
    OBVIOUS
  <2>2. chunks' = Append(chunks, c) \o <<Sentinel>>
    BY <1>2, <1>4, <2>1
  <2>3. chunks \in Seq(Seq(Nat) \union {c}) /\ Append(chunks, c) \in Seq(Seq(Nat) \union {c})
    OBVIOUS
  <2>4. Len(Append(chunks, c)) = Len(chunks) + 1 /\ Len(chunks) \in Nat
    BY <2>3
  <2>5. Len(chunks') = Len(chunks) + 2
    BY <2>2, <2>3, <2>4
  <2> QED BY <2>4, <2>5
<1> QED BY <1>3, <1>4

LEMMA ProduceStep ==
  ASSUME StreamInv, Produce
  PROVE  StreamInv'
<1>1. EncInv /\ DecInv /\ PacketInv /\ OfferInv /\ OnlyTailBuffered
  BY DEF StreamInv
<1>2. Encoder /\ UNCHANGED <<decVars, transport, fed, reasmVars, offered>>
  BY DEF Produce
<1>3. /\ EncInv' /\ ~ encFinished /\ Grows(chunks, chunks')
      /\ SameEnds(chunks, 0, pushed, chunks', Finished', pushed')
  BY <1>1, <1>2, EncoderStep
<1>4. /\ chunks \in Seq(Seq(Nat)) /\ Len(chunks) \in Nat /\ Finished = 0
      /\ chunks' \in Seq(Seq(Nat)) /\ Len(chunks') \in Nat /\ Len(chunks) <= Len(chunks')
  BY <1>1, <1>3 DEF EncInv, Sent, Finished, SameEnds
<1>5. \A i \in 0 .. Len(chunks) : EndAt(i)' = EndAt(i)
  BY <1>3, <1>4 DEF EndAt, SameEnds
<1>6. \A i \in 1 .. Len(chunks) : chunks'[i] = chunks[i]
  BY <1>3 DEF SameEnds
<1>7. DecInv'
  <2>1. PICK m \in 0 .. Len(chunks) : \E k \in Nat : DecAt(m, k)
    BY <1>1 DEF DecInv
  <2>2. PICK k \in Nat : DecAt(m, k)
    BY <2>1
  <2>3. m \in 0 .. Len(chunks') /\ EndAt(m)' = EndAt(m)
    BY <1>4, <1>5
  <2>4. ~ decFinished
    BY <1>1, <1>3 DEF DecInv, DecTypes
  <2>5. DecTypes'
    BY <1>1, <1>2, <2>4 DEF DecInv, DecTypes, decVars
  <2>6. Newest' = Newest /\ DueAt' = DueAt
    BY <1>2, DueIdle DEF decVars, Newest
  <2>7. (transport = "datagrams" => DatagramAt(m, k))'
    <3> SUFFICES ASSUME transport = "datagrams" PROVE DatagramAt(m, k)'
      BY <1>2
    <3>1. DatagramAt(m, k)
      BY <2>2 DEF DecAt
    <3>2. offered # Absent /\ m = DueAt => EndAt(m - 1)' = EndAt(m - 1)
      <4>1. offered # Absent /\ m = DueAt => m - 1 \in 0 .. Len(chunks)
        BY <1>1, <1>4, NoWrap DEF OfferInv
      <4> QED BY <1>5, <4>1
    <3> QED BY <1>2, <2>6, <3>1, <3>2 DEF DatagramAt, decVars, reasmVars
  <2>8. (transport = "pipe" => PipeAt(m, k))'
    <3> SUFFICES ASSUME transport = "pipe" PROVE PipeAt(m, k)'
      BY <1>2
    <3>1. PipeAt(m, k)
      BY <2>2 DEF DecAt
    <3>2. \E off : Parsed(chunks', off, m, fed, buf)
      BY <1>3, <1>4, <3>1, GrowPipe DEF PipeAt
    <3> QED BY <1>2, <2>6, <3>1, <3>2 DEF PipeAt, decVars
  <2>9. DecAt(m, k)'
    <3>1. k <= EndAt(m) /\ IsRun(dispatch, k, EndAt(m))
      BY <2>2 DEF DecAt
    <3>2. (k <= EndAt(m))' /\ IsRun(dispatch, k, EndAt(m))'
      BY <1>2, <2>3, <3>1 DEF decVars
    <3>3. decFinished' = FALSE
      BY <1>1, <1>2, <2>4 DEF DecInv, DecTypes, decVars
    <3>4. ~ (encFinished' /\ m = Len(chunks'))
      BY <1>2, <1>3, <1>4, FinishGrows
    <3> QED BY <2>7, <2>8, <3>2, <3>3, <3>4 DEF DecAt
  <2> QED BY <2>3, <2>5, <2>9 DEF DecInv
<1>8. PacketInv'
  <2>1. next' = next /\ pending' = pending /\ pc' = pc /\ log' = log
    BY <1>2 DEF reasmVars
  <2>2. R!Held' = R!Held
    BY <2>1 DEF R!Held, R!Seqs
  <2>3. next \in 0 .. Len(chunks')
    BY <1>1, <1>4 DEF PacketInv
  <2>4. ASSUME NEW s \in R!Held
        PROVE  s < Len(chunks') /\ pending[s] = chunks'[s + 1]
    <3>1. s < Len(chunks) /\ pending[s] = chunks[s + 1] /\ next <= s /\ next \in Nat
      BY <1>1 DEF PacketInv
    <3>2. s \in Nat
      BY DEF R!Held, R!Seqs
    <3> QED BY <1>4, <1>6, <3>1, <3>2
  <2>5. /\ pending \in [R!Seqs -> Seq(Nat) \union {Absent}]
        /\ pc \in {"idle", "drain", "close", "closeJump", "closeDrain", "flush", "flushJump"}
        /\ \A s \in R!Held :
             /\ next <= s
             /\ pc \in {"idle", "close", "closeJump"} => next < s
        /\ pc \in {"closeJump", "flushJump"} => R!Held # {}
        /\ \E events : log \in Seq(events)
    BY <1>1 DEF PacketInv
  <2>6. R!Seqs' = R!Seqs
    BY DEF R!Seqs
  <2> QED BY <2>1, <2>2, <2>3, <2>4, <2>5, <2>6 DEF PacketInv
<1>9. OnlyTailBuffered'
  BY <1>1, <1>2 DEF OnlyTailBuffered, ChunkArrived, HeaderArrived, decVars
<1>10. OfferInv'
  <2> SUFFICES ASSUME offered # Absent
               PROVE  /\ transport = "datagrams"
                      /\ DueAt \in next + 1 .. Len(chunks') /\ offered = chunks'[DueAt]
    BY <1>2, DueIdle DEF OfferInv, reasmVars
  <2>1. transport = "datagrams" /\ DueAt \in next + 1 .. Len(chunks) /\ offered = chunks[DueAt]
    BY <1>1 DEF OfferInv
  <2>2. DueAt \in 1 .. Len(chunks) /\ next \in Nat
    BY <1>1, <2>1, NoWrap
  <2> QED BY <1>4, <1>6, <2>1, <2>2
<1> QED BY <1>3, <1>7, <1>8, <1>9, <1>10 DEF StreamInv

LEMMA InitHolds == Init => StreamInv
<1> SUFFICES ASSUME Init PROVE StreamInv
  OBVIOUS
<1>1. /\ pushed = 0 /\ buffer = <<>> /\ encFinished = FALSE /\ chunks = <<>>
      /\ buf = <<>> /\ dispatch = <<>> /\ decPc = "idle" /\ decFinished = FALSE
      /\ got = <<>> /\ threw = FALSE
  BY DEF Init, PoseInit
<1>2. /\ transport \in {"pipe", "datagrams"} /\ fed = 0 /\ next = 0 /\ pc = "idle"
      /\ log = <<>> /\ offered = Absent
  BY DEF Init, R!Init
<1>3. pending \in [R!Seqs -> Seq(Nat) \union {Absent}] /\ R!Held = {}
  BY DEF Init, R!Init, R!Held
<1>4. /\ chunks \in Seq(Seq(Nat)) /\ Len(chunks) = 0 /\ Finished = 0
      /\ EndAt(0) = 0 /\ \A i \in 0 .. Len(chunks) : i = 0
  BY <1>1 DEF Finished, EndAt, EndOf
<1>5. EncInv
  <2>1. \A i \in 0 .. Len(chunks) : EndOf(chunks, Finished, pushed, i) = 0
    BY <1>4 DEF EndAt
  <2>2. IsRun(buffer, 0, 0)
    BY <1>1, NoRun
  <2>3. \A i \in 1 .. Len(chunks) : FALSE
    BY <1>4
  <2>4. NumPoses \in Nat /\ 0 \in 0 .. NumPoses /\ 0 \in 0 .. 0 /\ 0 <= 0 + 0
    BY PoseStreamAssumption
  <2>5. Sent(chunks, Finished, pushed, buffer)
    <3>1. \A i, j \in 0 .. Len(chunks) : i <= j =>
            EndOf(chunks, Finished, pushed, i) <= EndOf(chunks, Finished, pushed, j)
      BY <2>1
    <3>2. EndOf(chunks, Finished, pushed, Len(chunks)) = 0
      BY <1>4, <2>1
    <3> QED BY <1>1, <1>4, <2>1, <2>2, <2>3, <2>4, <3>1, <3>2 DEF Sent
  <2> QED BY <1>1, <2>5 DEF EncInv
<1>6. DecInv
  <2>1. Parsed(chunks, [i \in 0 .. 0 |-> 0], 0, 0, <<>>)
    BY <1>4 DEF Parsed, Layout
  <2>2. IsRun(dispatch, 0, 0)
    BY <1>1, NoRun
  <2>3. DecAt(0, 0)
    BY <1>1, <1>2, <1>4, <2>1, <2>2 DEF DecAt, DatagramAt, PipeAt, Newest
  <2>4. DecTypes
    <3>1. <<>> \in Seq(Nat)
      OBVIOUS
    <3> QED BY <1>1, <1>2, <3>1, Zenon DEF DecTypes
  <2>5. 0 \in 0 .. Len(chunks) /\ 0 \in Nat
    BY <1>4
  <2> QED BY <2>3, <2>4, <2>5 DEF DecInv
<1>7. PacketInv
  BY <1>2, <1>3, <1>4 DEF PacketInv
<1>8. OnlyTailBuffered
  BY <1>1 DEF OnlyTailBuffered, ChunkArrived, HeaderArrived
<1>9. OfferInv
  BY <1>2 DEF OfferInv
<1> QED BY <1>5, <1>6, <1>7, <1>8, <1>9 DEF StreamInv

\* What parsing makes of a frame c at the head of the buffer b.
LEMMA FrameHead ==
  ASSUME NEW a \in Nat, NEW e \in Nat, a <= e, NEW c, IsFrame(c, a, e),
         NEW b \in Seq(Nat), Len(c) <= Len(b), \A j \in 1 .. Len(c) : b[j] = c[j]
  PROVE  /\ b[1] = e - a /\ b[2] = e - a /\ Len(c) = 2 + b[2] /\ Len(b) >= 2 + b[2]
         /\ IsRun(SubSeq(b, 3, 2 + b[2]), a, e)
<1>1. e - a \in Nat /\ Len(c) = 2 + (e - a) /\ Len(b) \in Nat
  BY DEF IsFrame
<1>2. 1 \in 1 .. Len(c) /\ 2 \in 1 .. Len(c)
  BY <1>1
<1>3. b[1] = e - a /\ b[2] = e - a
  BY <1>2 DEF IsFrame
<1>4. \A l, n \in Nat : 2 + l <= n =>
        /\ 3 \in 1 .. n + 1 /\ 2 + l \in 3 - 1 .. n
        /\ 2 + l - 3 + 1 = l /\ 2 + l \in 2 .. n
        /\ \A j \in 1 .. l : 3 + j - 1 = 2 + j /\ 2 + j \in 1 .. 2 + l
  OBVIOUS
<1>5. LET s == SubSeq(b, 3, 2 + (e - a))
      IN  s \in Seq(Nat) /\ Len(s) = e - a /\ \A j \in 1 .. e - a : s[j] = b[2 + j]
  <2> DEFINE l == e - a
  <2>1. l \in Nat /\ 2 + l <= Len(b)
    BY <1>1
  <2> HIDE DEF l
  <2>2. 3 \in 1 .. Len(b) + 1 /\ 2 + l \in 3 - 1 .. Len(b) /\ 2 + l - 3 + 1 = l
    BY <1>1, <1>4, <2>1
  <2>3. /\ SubSeq(b, 3, 2 + l) \in Seq(Nat) /\ Len(SubSeq(b, 3, 2 + l)) = l
        /\ \A j \in 1 .. l : SubSeq(b, 3, 2 + l)[j] = b[3 + j - 1]
    BY <2>1, <2>2, SubSeqProperties
  <2>4. \A j \in 1 .. l : 3 + j - 1 = 2 + j
    BY <2>1
  <2> QED BY <2>3, <2>4 DEF l
<1>6. ASSUME NEW j \in 1 .. e - a PROVE b[2 + j] = a + j
  <2>1. 2 + j \in 1 .. Len(c)
    BY <1>1
  <2>2. c[2 + j] = a + j
    BY DEF IsFrame
  <2> QED BY <2>1, <2>2
<1> QED BY <1>1, <1>3, <1>5, <1>6 DEF IsRun

-----------------------------------------------------------------------------
(* The byte stream.                                                        *)

LEMMA OffsetsAt ==
  ASSUME NEW cs \in Seq(Seq(Nat)), NEW off, Layout(cs, off)
  PROVE  /\ \A i \in 0 .. Len(cs) : off[i] \in Nat /\ off[i] <= off[Len(cs)]
         /\ \A i \in 0 .. Len(cs) - 1 : off[i + 1] = off[i] + Len(cs[i + 1])
         /\ \A i \in 1 .. Len(cs) : Len(cs[i]) \in Nat
<1>1. Len(cs) \in Nat /\ Len(cs) \in 0 .. Len(cs)
  OBVIOUS
<1>2. \A i \in 0 .. Len(cs) : off[i] \in Nat /\ off[i] <= off[Len(cs)]
  <2>1. \A i \in 0 .. Len(cs) : i <= Len(cs)
    BY <1>1
  <2> QED BY <1>1, <2>1 DEF Layout
<1>3. ASSUME NEW i \in 0 .. Len(cs) - 1 PROVE off[i + 1] = off[i] + Len(cs[i + 1])
  <2>1. i + 1 \in 1 .. Len(cs) /\ i + 1 - 1 = i
    BY <1>1
  <2>2. off[i + 1] = off[i + 1 - 1] + Len(cs[i + 1])
    BY <2>1 DEF Layout
  <2> QED BY <2>1, <2>2
<1>4. \A i \in 1 .. Len(cs) : Len(cs[i]) \in Nat
  OBVIOUS
<1> QED BY <1>2, <1>3, <1>4

LEMMA PipeHead ==
  ASSUME NEW cs \in Seq(Seq(Nat)), NEW off, NEW m \in 0 .. Len(cs), NEW f,
         NEW b \in Seq(Nat), Parsed(cs, off, m, f, b), Len(b) > 0
  PROVE  /\ m + 1 \in 1 .. Len(cs) /\ cs[m + 1] \in Seq(Nat)
         /\ \A j \in 1 .. Len(cs[m + 1]) : j <= Len(b) => b[j] = cs[m + 1][j]
<1>1. /\ Layout(cs, off) /\ f \in 0 .. off[Len(cs)] /\ f = off[m] + Len(b)
      /\ \A i \in m + 1 .. Len(cs) : \A j \in 1 .. Len(cs[i]) :
           off[i - 1] + j <= f => b[off[i - 1] + j - off[m]] = cs[i][j]
  BY DEF Parsed
<1>2. Len(cs) \in Nat /\ Len(b) \in Nat /\ m \in Nat /\ off[m] \in Nat
  BY <1>1, OffsetsAt
<1>3. m # Len(cs)
  BY <1>1, <1>2
<1>4. m + 1 \in 1 .. Len(cs) /\ m + 1 \in m + 1 .. Len(cs) /\ m + 1 - 1 = m
  BY <1>2, <1>3
<1>5. cs[m + 1] \in Seq(Nat)
  BY <1>4
<1>6. ASSUME NEW j \in 1 .. Len(cs[m + 1]), j <= Len(b) PROVE b[j] = cs[m + 1][j]
  <2>1. off[m] + j <= f /\ off[m] + j - off[m] = j
    BY <1>1, <1>2, <1>5, <1>6
  <2>2. PICK i \in m + 1 .. Len(cs) : i = m + 1 /\ i - 1 = m
    BY <1>4
  <2>3. off[i - 1] + j <= f => b[off[i - 1] + j - off[m]] = cs[i][j]
    BY <1>1, <2>2
  <2> QED BY <2>1, <2>2, <2>3
<1> QED BY <1>4, <1>5, <1>6

LEMMA SubSeqAt ==
  ASSUME NEW s \in Seq(Nat), NEW a \in Nat, NEW n \in Nat, a + n <= Len(s)
  PROVE  /\ SubSeq(s, a + 1, a + n) \in Seq(Nat) /\ Len(SubSeq(s, a + 1, a + n)) = n
         /\ \A i \in 1 .. n : SubSeq(s, a + 1, a + n)[i] = s[a + i]
<1>1. \A i \in a + 1 .. a + n : s[i] \in Nat
  OBVIOUS
<1>2. a + 1 \in Int /\ a + n \in Int
  OBVIOUS
<1>3. /\ SubSeq(s, a + 1, a + n) \in Seq(Nat)
      /\ Len(SubSeq(s, a + 1, a + n)) = IF a + 1 <= a + n THEN a + n - (a + 1) + 1 ELSE 0
      /\ \A i \in 1 .. a + n - (a + 1) + 1 : SubSeq(s, a + 1, a + n)[i] = s[a + 1 + i - 1]
  BY <1>1, <1>2, SubSeqProperties
<1>4. /\ (IF a + 1 <= a + n THEN a + n - (a + 1) + 1 ELSE 0) = n
      /\ a + n - (a + 1) + 1 = n /\ \A i \in 1 .. n : a + 1 + i - 1 = a + i
  OBVIOUS
<1> QED BY <1>3, <1>4

LEMMA DropProperties ==
  ASSUME NEW b \in Seq(Nat), NEW n \in 0 .. Len(b)
  PROVE  /\ Drop(n, b) \in Seq(Nat) /\ Len(Drop(n, b)) = Len(b) - n
         /\ \A j \in 1 .. Len(b) - n : Drop(n, b)[j] = b[n + j]
<1>1. PICK l \in Nat : n + l = Len(b) /\ l = Len(b) - n
  OBVIOUS
<1>2. n \in Nat /\ n + l <= Len(b)
  BY <1>1
<1>3. /\ SubSeq(b, n + 1, n + l) \in Seq(Nat) /\ Len(SubSeq(b, n + 1, n + l)) = l
      /\ \A i \in 1 .. l : SubSeq(b, n + 1, n + l)[i] = b[n + i]
  BY <1>2, SubSeqAt
<1>4. SubSeq(b, n + 1, n + l) = Drop(n, b)
  BY <1>1 DEF Drop
<1> QED BY <1>1, <1>3, <1>4

LEMMA PipeDrop ==
  ASSUME NEW cs \in Seq(Seq(Nat)), NEW off, NEW m \in 0 .. Len(cs), NEW f,
         NEW b \in Seq(Nat), Parsed(cs, off, m, f, b), m + 1 \in 1 .. Len(cs),
         Len(cs[m + 1]) <= Len(b)
  PROVE  Parsed(cs, off, m + 1, f, Drop(Len(cs[m + 1]), b))
<1> DEFINE l == Len(cs[m + 1])
           d == Drop(l, b)
<1>1. /\ Layout(cs, off) /\ f \in 0 .. off[Len(cs)] /\ f = off[m] + Len(b)
      /\ \A i \in m + 1 .. Len(cs) : \A j \in 1 .. Len(cs[i]) :
           off[i - 1] + j <= f => b[off[i - 1] + j - off[m]] = cs[i][j]
  BY DEF Parsed
<1>2. Len(cs) \in Nat /\ Len(b) \in Nat /\ m \in Nat
  OBVIOUS
<1>3. m \in 0 .. Len(cs) - 1 /\ l \in Nat
  BY <1>2
<1>4. off[m] \in Nat /\ off[m + 1] = off[m] + l
  BY <1>1, <1>3, OffsetsAt
<1>5. /\ d \in Seq(Nat) /\ Len(d) = Len(b) - l
      /\ \A j \in 1 .. Len(b) - l : d[j] = b[l + j]
  <2>1. l \in 0 .. Len(b)
    BY <1>2, <1>3
  <2> QED BY <2>1, DropProperties
<1> HIDE DEF l, d
<1>6. f = off[m + 1] + Len(d) /\ l <= Len(b)
  BY <1>1, <1>2, <1>3, <1>4, <1>5 DEF l
<1>7. ASSUME NEW i \in m + 1 + 1 .. Len(cs), NEW j \in 1 .. Len(cs[i]), off[i - 1] + j <= f
      PROVE  d[off[i - 1] + j - off[m + 1]] = cs[i][j]
  <2>1. i \in m + 1 .. Len(cs) /\ i \in 1 .. Len(cs) /\ i - 1 \in 0 .. Len(cs) /\ m + 1 <= i - 1
        /\ m + 1 \in 0 .. Len(cs)
    BY <1>2
  <2>2. off[i - 1] \in Nat /\ off[m + 1] <= off[i - 1] /\ j \in Nat /\ j > 0
    <3>1. Len(cs[i]) \in Nat /\ off[i - 1] \in Nat
      BY <1>1, <2>1, OffsetsAt
    <3>2. off[m + 1] <= off[i - 1]
      BY <1>1, <2>1 DEF Layout
    <3> QED BY <3>1, <3>2
  <2>3. b[off[i - 1] + j - off[m]] = cs[i][j]
    BY <1>1, <1>7, <2>1
  <2>5. /\ off[i - 1] + j - off[m + 1] \in 1 .. Len(b) - l
        /\ l + (off[i - 1] + j - off[m + 1]) = off[i - 1] + j - off[m]
    <3>1. \A o, p, x, z \in Nat :
            /\ o + l <= p /\ x > 0 /\ p + x <= o + z
            => /\ p + x - (o + l) \in 1 .. z - l
               /\ l + (p + x - (o + l)) = p + x - o
      BY <1>3
    <3>2. off[m] + l <= off[i - 1] /\ off[i - 1] + j <= off[m] + Len(b)
      BY <1>1, <1>4, <1>7, <2>2
    <3>3. PICK o, p, x, z \in Nat : o = off[m] /\ p = off[i - 1] /\ x = j /\ z = Len(b)
      BY <1>2, <1>4, <2>2
    <3>4. p + x - (o + l) \in 1 .. z - l /\ l + (p + x - (o + l)) = p + x - o
      BY <2>2, <3>1, <3>2, <3>3
    <3> QED BY <1>4, <3>3, <3>4
  <2> QED BY <1>5, <2>3, <2>5
<1>8. Parsed(cs, off, m + 1, f, d)
  BY <1>1, <1>6, <1>7 DEF Parsed
<1> QED BY <1>8 DEF d, l

LEMMA PipeRead ==
  ASSUME NEW cs \in Seq(Seq(Nat)), NEW off, NEW m \in 0 .. Len(cs), NEW f,
         NEW b \in Seq(Nat), Parsed(cs, off, m, f, b),
         NEW n \in 1 .. Len(SX!FlattenSeq(cs)) - f
  PROVE  /\ b \o SubSeq(SX!FlattenSeq(cs), f + 1, f + n) \in Seq(Nat)
         /\ Parsed(cs, off, m, f + n, b \o SubSeq(SX!FlattenSeq(cs), f + 1, f + n))
<1> DEFINE s == SX!FlattenSeq(cs)
           r == SubSeq(s, f + 1, f + n)
           d == b \o r
<1>1. /\ Layout(cs, off) /\ f \in 0 .. off[Len(cs)] /\ f = off[m] + Len(b)
      /\ \A i \in m + 1 .. Len(cs) : \A j \in 1 .. Len(cs[i]) :
           off[i - 1] + j <= f => b[off[i - 1] + j - off[m]] = cs[i][j]
  BY DEF Parsed
<1>2. Len(cs) \in Nat /\ Len(b) \in Nat /\ m \in Nat
  OBVIOUS
<1>3. off[m] \in Nat /\ off[Len(cs)] \in Nat
  BY <1>1, <1>2, OffsetsAt
<1>4. /\ s \in Seq(Nat) /\ Len(s) = off[Len(cs)]
      /\ \A i \in 1 .. Len(cs) : \A j \in 1 .. Len(cs[i]) : s[off[i - 1] + j] = cs[i][j]
  BY <1>1, StreamLayout DEF Laid
<1> HIDE DEF s
<1>5. n \in Nat /\ n > 0 /\ f \in Nat /\ f + n <= Len(s)
  BY <1>1, <1>3, <1>4 DEF s
<1>6. r \in Seq(Nat) /\ Len(r) = n /\ \A i \in 1 .. n : r[i] = s[f + i]
  BY <1>4, <1>5, SubSeqAt
<1> HIDE DEF r
<1>7. /\ d \in Seq(Nat) /\ Len(d) = Len(b) + n
      /\ \A k \in 1 .. Len(b) + n : d[k] = IF k <= Len(b) THEN b[k] ELSE r[k - Len(b)]
  BY <1>6, ConcatProperties
<1> HIDE DEF d
<1>8. f + n \in 0 .. off[Len(cs)] /\ f + n = off[m] + Len(d)
  <2>1. PICK o, z \in Nat : o = off[m] /\ z = Len(b)
    BY <1>2, <1>3
  <2>2. f = o + z /\ Len(d) = z + n /\ f + n <= off[Len(cs)]
    BY <1>1, <1>4, <1>5, <1>7, <2>1
  <2>0. \A u, v, w \in Nat : u + v + w = u + (v + w) /\ u + v + w \in Nat
    OBVIOUS
  <2>3. f + n = o + (z + n) /\ f + n \in Nat
    <3>1. o + z + n = o + (z + n) /\ o + z + n \in Nat
      BY <1>5, <2>0, <2>1
    <3> QED BY <2>2, <3>1
  <2>4. f + n \in 0 .. off[Len(cs)]
    BY <1>3, <2>2, <2>3
  <2> QED BY <2>1, <2>2, <2>3, <2>4
<1>9. ASSUME NEW i \in m + 1 .. Len(cs), NEW j \in 1 .. Len(cs[i]), off[i - 1] + j <= f + n
      PROVE  d[off[i - 1] + j - off[m]] = cs[i][j]
  <2>1. i \in 1 .. Len(cs) /\ i - 1 \in 0 .. Len(cs) /\ m <= i - 1
    BY <1>2
  <2>2. off[i - 1] \in Nat /\ off[m] <= off[i - 1] /\ j \in Nat /\ j > 0
    <3>1. Len(cs[i]) \in Nat /\ off[i - 1] \in Nat
      BY <1>1, <2>1, OffsetsAt
    <3>2. off[m] <= off[i - 1]
      BY <1>1, <2>1 DEF Layout
    <3> QED BY <3>1, <3>2
  <2>3. PICK o, p, x, z \in Nat : o = off[m] /\ p = off[i - 1] /\ x = j /\ z = Len(b)
    BY <1>2, <1>3, <2>2
  <2>4. o <= p /\ x > 0 /\ p + x <= f + n /\ f = o + z
    BY <1>1, <1>9, <2>2, <2>3
  <2>5. p + x - o \in 1 .. z + n
    BY <1>5, <2>4
  <2>6. CASE p + x <= f
    <3>1. p + x - o <= z
      BY <1>5, <2>4, <2>6
    <3>2. b[p + x - o] = cs[i][j]
      BY <1>1, <2>3, <2>6
    <3> QED BY <1>7, <2>3, <2>5, <3>1, <3>2
  <2>7. CASE ~ (p + x <= f)
    <3>1. ~ (p + x - o <= z) /\ p + x - o - z \in 1 .. n /\ f + (p + x - o - z) = p + x
      BY <1>5, <2>4, <2>7
    <3>2. r[p + x - o - z] = s[p + x]
      BY <1>6, <3>1
    <3>3. s[p + x] = cs[i][j]
      BY <1>4, <2>1, <2>3
    <3>4. d[p + x - o] = r[p + x - o - z]
      <4>1. \A k \in 1 .. Len(b) + n : ~ (k <= Len(b)) => d[k] = r[k - Len(b)]
        BY <1>7
      <4>2. PICK k : k = p + x - o
        OBVIOUS
      <4>3. k \in 1 .. Len(b) + n /\ ~ (k <= Len(b))
        BY <2>3, <2>5, <3>1, <4>2
      <4>4. d[k] = r[k - Len(b)]
        BY <4>1, <4>3
      <4>5. z = Len(b)
        BY <2>3
      <4> QED BY <4>2, <4>4, <4>5
    <3> QED BY <2>3, <3>2, <3>3, <3>4
  <2> QED BY <2>6, <2>7
<1>10. Parsed(cs, off, m, f + n, d)
  BY <1>1, <1>8, <1>9 DEF Parsed
<1> QED BY <1>7, <1>10 DEF d, r, s

-----------------------------------------------------------------------------
(* The decoder.                                                            *)

\* What the encoder keeps, every step of the others keeps.
LEMMA EncoderIdle ==
  ASSUME EncInv, UNCHANGED encVars
  PROVE  /\ EncInv' /\ chunks' = chunks /\ encFinished' = encFinished
         /\ \A i : EndAt(i)' = EndAt(i)
BY DEF encVars, EncInv, Sent, EndAt, EndOf, Finished

LEMMA PacketsIdle ==
  ASSUME PacketInv, UNCHANGED <<encVars, reasmVars>>
  PROVE  PacketInv'
BY DEF PacketInv, encVars, reasmVars, R!Held, R!Seqs

LEMMA OfferIdle ==
  ASSUME OfferInv, UNCHANGED <<encVars, reasmVars, offered, transport>>
  PROVE  OfferInv'
<1>1. DueAt' = DueAt /\ next' = next /\ chunks' = chunks
  BY DueIdle DEF reasmVars, encVars
<1> QED BY <1>1 DEF OfferInv

LEMMA OfferHasHeader ==
  ASSUME EncInv, PacketInv, OfferInv
  PROVE  offered # Absent => offered # <<>>
<1> SUFFICES ASSUME offered # Absent, offered = <<>> PROVE FALSE
  OBVIOUS
<1>1. DueAt \in 1 .. Len(chunks) /\ offered = chunks[DueAt]
  BY NoWrap DEF OfferInv
<1> QED BY <1>1, ChunkHasHeader

\* The decoder takes the next m, k.
LEMMA DecStep ==
  ASSUME DecTypes', NEW m \in 0 .. Len(chunks), NEW k \in Nat, DecAt(m, k)',
         UNCHANGED encVars
  PROVE  DecInv'
<1>1. chunks' = chunks
  BY DEF encVars
<1> QED BY <1>1 DEF DecInv

\* The stream was parsed up to chunk m, of which k poses were consumed.
LEMMA DecoderWhere ==
  ASSUME EncInv, DecInv
  PROVE  \E m \in 0 .. Len(chunks) : \E k \in Nat :
           /\ DecAt(m, k) /\ k <= EndAt(m) /\ EndAt(m) \in Nat
           /\ IsRun(dispatch, k, EndAt(m))
           /\ decPc # "dispatch" => k = EndAt(m)
<1>1. PICK m \in 0 .. Len(chunks) : \E k \in Nat : DecAt(m, k)
  BY DEF DecInv
<1>2. PICK k \in Nat : DecAt(m, k)
  BY <1>1
<1>3. k <= EndAt(m) /\ EndAt(m) \in Nat /\ IsRun(dispatch, k, EndAt(m))
  BY <1>2, Chunks DEF DecAt
<1>4. decPc # "dispatch" => k = EndAt(m)
  BY <1>3, RunLength DEF DecInv, DecTypes
<1> QED BY <1>2, <1>3, <1>4

\* The buffer begins with chunk i, of which a byte stream may still owe the end.
AtHead(i) ==
  /\ ~ decFinished /\ dispatch = <<>>
  /\ \A j \in 1 .. Len(chunks[i]) : j <= Len(buf) => buf[j] = chunks[i][j]
  /\ transport = "datagrams" => offered # Absent /\ i = DueAt /\ buf = chunks[i]
  /\ transport = "pipe" =>
       /\ offered = Absent
       /\ Newest <= EndAt(i - 1) /\ (~ threw => Newest = EndAt(i - 1))
       /\ Len(chunks[i]) <= Len(buf) =>
            \E off : Parsed(chunks, off, i, fed, Drop(Len(chunks[i]), buf))

LEMMA NewestNat ==
  ASSUME DecTypes
  PROVE  Newest \in Nat
BY DEF DecTypes, Newest

LEMMA HeadChunk ==
  ASSUME EncInv, DecInv, PacketInv, OfferInv, decPc = "parse", HeaderArrived
  PROVE  \E i \in 1 .. Len(chunks) : AtHead(i)
<1>1. PICK m \in 0 .. Len(chunks) : \E k \in Nat :
           /\ DecAt(m, k) /\ k <= EndAt(m) /\ EndAt(m) \in Nat
           /\ IsRun(dispatch, k, EndAt(m))
           /\ decPc # "dispatch" => k = EndAt(m)
  BY DecoderWhere
<1>2. PICK k \in Nat :
           /\ DecAt(m, k) /\ k <= EndAt(m) /\ EndAt(m) \in Nat
           /\ IsRun(dispatch, k, EndAt(m))
           /\ decPc # "dispatch" => k = EndAt(m)
  BY <1>1
<1>3. /\ ~ decFinished /\ dispatch = <<>> /\ k = EndAt(m) /\ buf \in Seq(Nat)
      /\ transport \in {"pipe", "datagrams"}
  BY <1>2 DEF DecInv, DecTypes
<1>4. Len(buf) \in Nat /\ Len(buf) >= 2
  BY <1>3 DEF HeaderArrived
<1>5. chunks \in Seq(Seq(Nat)) /\ Len(chunks) \in Nat
  BY Chunks
<1>7. CASE transport = "pipe"
  <2>0. PipeAt(m, k)
    BY <1>2, <1>7 DEF DecAt
  <2>1. PICK off : Parsed(chunks, off, m, fed, buf)
    BY <2>0 DEF PipeAt
  <2>2. /\ m + 1 \in 1 .. Len(chunks) /\ chunks[m + 1] \in Seq(Nat)
        /\ \A j \in 1 .. Len(chunks[m + 1]) : j <= Len(buf) => buf[j] = chunks[m + 1][j]
    <3>1. Len(buf) > 0
      BY <1>4
    <3> QED BY <1>3, <1>5, <2>1, <3>1, PipeHead
  <2>3. Len(chunks[m + 1]) <= Len(buf) =>
          Parsed(chunks, off, m + 1, fed, Drop(Len(chunks[m + 1]), buf))
    BY <1>3, <1>5, <2>1, <2>2, PipeDrop
  <2>4. m + 1 - 1 = m
    OBVIOUS
  <2>5. Len(chunks[m + 1]) <= Len(buf) =>
          \E p : Parsed(chunks, p, m + 1, fed, Drop(Len(chunks[m + 1]), buf))
    BY <2>3
  <2>6. AtHead(m + 1)
    BY <1>3, <1>7, <2>0, <2>2, <2>4, <2>5 DEF AtHead, PipeAt
  <2> QED BY <2>2, <2>6
<1>8. CASE transport = "datagrams"
  <2>1. offered # Absent /\ buf = offered
    <3>1. DatagramAt(m, k) /\ buf # <<>>
      BY <1>2, <1>4, <1>8 DEF DecAt
    <3> QED BY <3>1 DEF DatagramAt
  <2>2. DueAt \in 1 .. Len(chunks) /\ buf = chunks[DueAt]
    BY <1>5, <2>1, NoWrap DEF OfferInv
  <2>3. AtHead(DueAt)
    BY <1>3, <1>8, <2>1, <2>2 DEF AtHead
  <2> QED BY <2>2, <2>3
<1> QED BY <1>3, <1>7, <1>8

\* What ChunkArrived and IsSentinel say of the chunk at the head.
LEMMA HeadIsFrame ==
  ASSUME EncInv, DecTypes, NEW i \in 1 .. Len(chunks), AtHead(i), HeaderArrived
  PROVE  /\ chunks[i] \in Seq(Nat) /\ Len(chunks[i]) = 2 + buf[2]
         /\ buf[1] = EndAt(i) - EndAt(i - 1) /\ buf[2] = EndAt(i) - EndAt(i - 1)
         /\ EndAt(i) \in Nat /\ EndAt(i - 1) \in Nat /\ EndAt(i - 1) <= EndAt(i)
         /\ IsSentinel => encFinished /\ i = Len(chunks) /\ EndAt(i - 1) = EndAt(i)
         /\ Len(chunks[i]) <= Len(buf) =>
              IsRun(SubSeq(buf, 3, 2 + buf[2]), EndAt(i - 1), EndAt(i))
<1>1. IsFrame(chunks[i], EndAt(i - 1), EndAt(i))
  BY Chunks
<1>2. i \in 0 .. Len(chunks) /\ i - 1 \in 0 .. Len(chunks) /\ i - 1 <= i
  OBVIOUS
<1>3. EndAt(i) \in Nat /\ EndAt(i - 1) \in Nat /\ EndAt(i - 1) <= EndAt(i)
  BY <1>2, Chunks
<1>4. buf \in Seq(Nat) /\ Len(buf) \in Nat /\ Len(buf) >= 2
  BY DEF DecTypes, HeaderArrived
<1> DEFINE l == EndAt(i) - EndAt(i - 1)
<1>5. l \in Nat
  BY <1>3
<1>6. /\ chunks[i] \in Seq(Nat) /\ Len(chunks[i]) = 2 + l
      /\ chunks[i][1] = l /\ chunks[i][2] = l
  BY <1>1 DEF IsFrame
<1> HIDE DEF l
<1>7. \A j \in 1 .. Len(chunks[i]) : j <= Len(buf) => buf[j] = chunks[i][j]
  BY DEF AtHead
<1>8. 1 \in 1 .. Len(chunks[i]) /\ 2 \in 1 .. Len(chunks[i]) /\ 1 <= Len(buf) /\ 2 <= Len(buf)
  BY <1>4, <1>5, <1>6
<1>9. buf[1] = l /\ buf[2] = l
  BY <1>6, <1>7, <1>8
<1>10. IsSentinel => encFinished /\ i = Len(chunks) /\ EndAt(i - 1) = EndAt(i)
  <2> SUFFICES ASSUME IsSentinel PROVE encFinished /\ i = Len(chunks) /\ EndAt(i - 1) = EndAt(i)
    OBVIOUS
  <2>1. EndAt(i - 1) = EndAt(i)
    BY <1>3, <1>9 DEF IsSentinel, l
  <2> QED BY <2>1, Chunks
<1>11. ASSUME Len(chunks[i]) <= Len(buf)
       PROVE  IsRun(SubSeq(buf, 3, 2 + buf[2]), EndAt(i - 1), EndAt(i))
  <2>1. \A j \in 1 .. Len(chunks[i]) : buf[j] = chunks[i][j]
    BY <1>4, <1>5, <1>6, <1>7, <1>11
  <2> QED BY <1>1, <1>3, <1>4, <1>11, <2>1, FrameHead
<1> QED BY <1>3, <1>6, <1>9, <1>10, <1>11 DEF l

LEMMA ParseSentinelStep ==
  ASSUME EncInv, DecInv, PacketInv, OfferInv, ParseSentinel,
         UNCHANGED <<encVars, transport, fed, reasmVars, offered>>
  PROVE  DecInv' /\ (transport = "datagrams" => buf' = <<>>)
<1>1. /\ decPc = "parse" /\ IsSentinel /\ HeaderArrived
      /\ buf' = Drop(2, buf) /\ decFinished' = TRUE /\ decPc' = "idle"
      /\ dispatch' = dispatch /\ got' = got /\ threw' = threw
  BY DEF ParseSentinel, IsSentinel
<1>2. /\ transport' = transport /\ fed' = fed /\ next' = next /\ chunks' = chunks
      /\ encFinished' = encFinished /\ UNCHANGED encVars /\ offered' = offered /\ DueAt' = DueAt
  BY DueIdle DEF encVars, reasmVars
<1>3. PICK i \in 1 .. Len(chunks) : AtHead(i)
  BY <1>1, HeadChunk
<1>4. DecTypes
  BY DEF DecInv
<1>5. /\ chunks[i] \in Seq(Nat) /\ Len(chunks[i]) = 2 + buf[2]
      /\ EndAt(i) \in Nat /\ EndAt(i - 1) = EndAt(i)
      /\ encFinished /\ i = Len(chunks)
  BY <1>1, <1>3, <1>4, HeadIsFrame
<1>6. Len(chunks[i]) = 2 /\ buf \in Seq(Nat) /\ 2 \in 0 .. Len(buf)
  BY <1>1, <1>4, <1>5 DEF IsSentinel, HeaderArrived, DecTypes
<1>7. Drop(2, buf) \in Seq(Nat) /\ Len(Drop(2, buf)) = Len(buf) - 2
  BY <1>6, DropProperties
<1>8. DecTypes'
  BY <1>1, <1>2, <1>3, <1>4, <1>5, <1>7 DEF DecTypes, AtHead
<1>9. transport = "datagrams" => buf' = <<>>
  <2>1. transport = "datagrams" => buf = chunks[i]
    BY <1>3 DEF AtHead
  <2>2. transport = "datagrams" => Len(buf) = 2
    BY <1>6, <2>1
  <2>3. Len(buf) = 2 => Len(Drop(2, buf)) = 0
    BY <1>7
  <2> QED BY <1>1, <1>7, <2>2, <2>3, EmptySeq
<1>10. EndAt(i)' = EndAt(i) /\ EndAt(i - 1)' = EndAt(i - 1) /\ Newest' = Newest
  BY <1>1, <1>2, EncoderIdle DEF Newest
<1>11. (transport = "pipe" => PipeAt(i, EndAt(i)))'
  <2> SUFFICES ASSUME transport = "pipe" PROVE PipeAt(i, EndAt(i))'
    BY <1>2
  <2>1. /\ offered = Absent /\ Newest <= EndAt(i - 1) /\ (~ threw => Newest = EndAt(i - 1))
        /\ \E off : Parsed(chunks, off, i, fed, Drop(Len(chunks[i]), buf))
    <3>1. Len(chunks[i]) <= Len(buf)
      BY <1>6
    <3> QED BY <1>3, <3>1 DEF AtHead
  <2>2. \E off : Parsed(chunks, off, i, fed, Drop(2, buf))
    BY <1>6, <2>1
  <2> QED BY <1>1, <1>2, <1>5, <1>10, <2>1, <2>2 DEF PipeAt
<1>12. (transport = "datagrams" => DatagramAt(i, EndAt(i)))'
  BY <1>2, <1>3, <1>5, <1>9, <1>10 DEF AtHead, DatagramAt
<1>13. IsRun(dispatch', EndAt(i), EndAt(i))
  BY <1>1, <1>3, <1>5, NoRun DEF AtHead
<1>14. DecAt(i, EndAt(i))'
  BY <1>1, <1>2, <1>5, <1>10, <1>11, <1>12, <1>13 DEF DecAt
<1>15. \E k \in Nat : DecAt(i, k)'
  <2>1. PICK k \in Nat : k = EndAt(i) /\ k = EndAt(i)'
    BY <1>5, <1>10
  <2> QED BY <1>14, <2>1
<1>16. i \in 0 .. Len(chunks')
  BY <1>2
<1>17. DecInv'
  BY <1>8, <1>15, <1>16 DEF DecInv
<1> QED BY <1>9, <1>17

LEMMA ParseChunkStep ==
  ASSUME EncInv, DecInv, PacketInv, OfferInv, ParseChunk,
         UNCHANGED <<encVars, transport, fed, reasmVars, offered>>
  PROVE  DecInv'
<1>1. /\ decPc = "parse" /\ ChunkArrived /\ HeaderArrived
      /\ dispatch' = SubSeq(buf, 3, 2 + buf[2]) /\ buf' = Drop(2 + buf[2], buf)
      /\ decPc' = "dispatch"
      /\ decFinished' = decFinished /\ got' = got /\ threw' = threw
  BY DEF ParseChunk, ChunkArrived
<1>2. /\ transport' = transport /\ fed' = fed /\ next' = next /\ chunks' = chunks
      /\ encFinished' = encFinished /\ UNCHANGED encVars /\ offered' = offered /\ DueAt' = DueAt
  BY DueIdle DEF encVars, reasmVars
<1>3. PICK i \in 1 .. Len(chunks) : AtHead(i)
  BY <1>1, HeadChunk
<1>4. DecTypes /\ buf \in Seq(Nat)
  BY DEF DecInv, DecTypes
<1>5. /\ chunks[i] \in Seq(Nat) /\ Len(chunks[i]) = 2 + buf[2]
      /\ EndAt(i) \in Nat /\ EndAt(i - 1) \in Nat /\ EndAt(i - 1) <= EndAt(i)
      /\ Len(chunks[i]) <= Len(buf) =>
           IsRun(SubSeq(buf, 3, 2 + buf[2]), EndAt(i - 1), EndAt(i))
  BY <1>1, <1>3, <1>4, HeadIsFrame
<1>6. Len(chunks[i]) <= Len(buf)
  BY <1>1, <1>5 DEF ChunkArrived
<1>7. /\ Drop(Len(chunks[i]), buf) \in Seq(Nat) /\ buf' = Drop(Len(chunks[i]), buf)
      /\ Len(buf') = Len(buf) - Len(chunks[i])
  <2>1. Len(chunks[i]) \in 0 .. Len(buf)
    BY <1>4, <1>5, <1>6
  <2>2. buf' = Drop(Len(chunks[i]), buf)
    BY <1>1, <1>5
  <2> QED BY <1>4, <2>1, <2>2, DropProperties
<1>8. DecTypes'
  <2>1. buf' \in Seq(Nat) /\ ~ decFinished
    BY <1>3, <1>7 DEF AtHead
  <2> QED BY <1>1, <1>2, <1>4, <2>1 DEF DecTypes
<1>9. transport = "datagrams" => buf' = <<>>
  <2>1. transport = "datagrams" => buf = chunks[i]
    BY <1>3 DEF AtHead
  <2>2. transport = "datagrams" => Len(buf') = 0
    BY <1>4, <1>7, <2>1
  <2> QED BY <1>7, <2>2, EmptySeq
<1>10. EndAt(i)' = EndAt(i) /\ EndAt(i - 1)' = EndAt(i - 1) /\ Newest' = Newest
  BY <1>1, <1>2, EncoderIdle DEF Newest
<1>11. (transport = "pipe" => PipeAt(i, EndAt(i - 1)))'
  BY <1>1, <1>2, <1>3, <1>6, <1>7, <1>10 DEF AtHead, PipeAt
<1>12. (transport = "datagrams" => DatagramAt(i, EndAt(i - 1)))'
  BY <1>2, <1>3, <1>5, <1>9, <1>10 DEF AtHead, DatagramAt
<1>13. IsRun(dispatch', EndAt(i - 1), EndAt(i))
  BY <1>1, <1>5, <1>6
<1>14. ~ decFinished /\ ~ (encFinished /\ i = Len(chunks))
  <2>1. EndAt(i - 1) = EndAt(i) => IsSentinel
    BY <1>1, <1>3, <1>4, HeadIsFrame DEF IsSentinel
  <2>2. ~ IsSentinel
    BY DEF ParseChunk
  <2> QED BY <1>3, <2>1, <2>2, Chunks DEF AtHead
<1>15. DecAt(i, EndAt(i - 1))'
  BY <1>1, <1>2, <1>5, <1>10, <1>11, <1>12, <1>13, <1>14 DEF DecAt
<1>16. \E k \in Nat : DecAt(i, k)'
  <2>1. PICK k \in Nat : k = EndAt(i - 1) /\ k = EndAt(i - 1)'
    BY <1>5, <1>10
  <2> QED BY <1>15, <2>1
<1>17. i \in 0 .. Len(chunks')
  BY <1>2
<1> QED BY <1>8, <1>16, <1>17 DEF DecInv

\* The other steps of the decoder stay in the chunk they are in.
LEMMA ParseWaitsStep ==
  ASSUME EncInv, DecInv, PacketInv, OfferInv, ParseWaits,
         UNCHANGED <<encVars, transport, fed, reasmVars, offered>>
  PROVE  DecInv' /\ (transport = "datagrams" => buf' = <<>>) /\ ~ ChunkArrived'
<1>1. /\ decPc = "parse" /\ ~ ChunkArrived /\ decPc' = "idle"
      /\ buf' = buf /\ dispatch' = dispatch /\ decFinished' = decFinished
      /\ got' = got /\ threw' = threw
  BY DEF ParseWaits
<1>2. /\ transport' = transport /\ fed' = fed /\ next' = next /\ chunks' = chunks
      /\ encFinished' = encFinished /\ UNCHANGED encVars /\ offered' = offered /\ DueAt' = DueAt
  BY DueIdle DEF encVars, reasmVars
<1>3. PICK m \in 0 .. Len(chunks) : \E k \in Nat : DecAt(m, k)
  BY DEF DecInv
<1>4. PICK k \in Nat : DecAt(m, k)
  BY <1>3
<1>5. DecTypes'
  BY <1>1, <1>2 DEF DecInv, DecTypes
<1>6. transport = "datagrams" => buf = <<>>
  <2> SUFFICES ASSUME transport = "datagrams", buf # <<>> PROVE FALSE
    OBVIOUS
  <2>1. offered # Absent /\ buf = offered
    BY <1>1, <1>4 DEF DecAt, DatagramAt
  <2>2. PICK i \in 1 .. Len(chunks) : buf = chunks[i]
    <3>1. DueAt \in 1 .. Len(chunks) /\ buf = chunks[DueAt]
      BY <2>1, NoWrap DEF OfferInv
    <3> QED BY <3>1
  <2>3. IsFrame(chunks[i], EndAt(i - 1), EndAt(i)) /\ EndAt(i - 1) <= EndAt(i)
        /\ EndAt(i - 1) \in Nat /\ EndAt(i) \in Nat
    <3>1. i - 1 \in 0 .. Len(chunks) /\ i \in 0 .. Len(chunks) /\ i - 1 <= i
      OBVIOUS
    <3> QED BY <3>1, Chunks
  <2>4. PICK a \in Nat, e \in Nat : a <= e /\ IsFrame(buf, a, e)
    BY <2>2, <2>3
  <2>5. Len(buf) = 2 + buf[2] /\ buf[2] \in Nat
    BY <2>4 DEF IsFrame
  <2> QED BY <1>1, <2>5 DEF ChunkArrived, HeaderArrived
<1>7. \A i : EndAt(i)' = EndAt(i)
  BY <1>2, EncoderIdle
<1>8. DecAt(m, k)'
  <2>1. (transport = "datagrams" => DatagramAt(m, k))'
    <3> SUFFICES ASSUME transport = "datagrams" PROVE DatagramAt(m, k)'
      BY <1>2
    <3>1. DatagramAt(m, k) /\ buf = <<>>
      BY <1>4, <1>6 DEF DecAt
    <3>2. offered # Absent /\ m = DueAt /\ EndAt(m - 1) <= k /\ (EndAt(m - 1) < k => Newest = k)
      <4>1. offered # Absent => offered # <<>>
        BY OfferHasHeader
      <4> QED BY <1>1, <3>1, <4>1 DEF DatagramAt
    <3>3. Newest' = Newest
      BY <1>1 DEF Newest
    <3> QED BY <1>1, <1>2, <1>7, <3>1, <3>2, <3>3 DEF DatagramAt
  <2>2. (transport = "pipe" => PipeAt(m, k))'
    BY <1>1, <1>2, <1>4 DEF DecAt, PipeAt, Newest
  <2> QED BY <1>1, <1>2, <1>4, <1>7, <2>1, <2>2 DEF DecAt
<1>9. DecInv'
  BY <1>2, <1>5, <1>8, DecStep
<1>10. ~ ChunkArrived'
  BY <1>1 DEF ChunkArrived, HeaderArrived
<1> QED BY <1>1, <1>6, <1>9, <1>10

LEMMA ChunkDispatchedStep ==
  ASSUME EncInv, DecInv, PacketInv, OfferInv, ChunkDispatched,
         UNCHANGED <<encVars, transport, fed, reasmVars, offered>>
  PROVE  DecInv'
<1>1. /\ decPc = "dispatch" /\ dispatch = <<>> /\ decPc' = "parse"
      /\ buf' = buf /\ dispatch' = dispatch /\ decFinished' = decFinished
      /\ got' = got /\ threw' = threw
  BY DEF ChunkDispatched
<1>2. /\ transport' = transport /\ fed' = fed /\ next' = next /\ chunks' = chunks
      /\ encFinished' = encFinished /\ UNCHANGED encVars /\ offered' = offered /\ DueAt' = DueAt
  BY DueIdle DEF encVars, reasmVars
<1>3. PICK m \in 0 .. Len(chunks) : \E k \in Nat : DecAt(m, k)
  BY DEF DecInv
<1>4. PICK k \in Nat : DecAt(m, k)
  BY <1>3
<1>5. DecTypes'
  BY <1>1, <1>2 DEF DecInv, DecTypes
<1>7. \A i : EndAt(i)' = EndAt(i)
  BY <1>2, EncoderIdle
<1>8. DecAt(m, k)'
  <2>1. (transport = "datagrams" => DatagramAt(m, k))'
    BY <1>1, <1>2, <1>4, <1>7 DEF DecAt, DatagramAt, Newest
  <2>2. (transport = "pipe" => PipeAt(m, k))'
    BY <1>1, <1>2, <1>4 DEF DecAt, PipeAt, Newest
  <2> QED BY <1>1, <1>2, <1>4, <1>7, <2>1, <2>2 DEF DecAt
<1> QED BY <1>2, <1>5, <1>8, DecStep

\* The next pose of a run, and those that follow it.
LEMMA RunHead ==
  ASSUME NEW k \in Nat, NEW e \in Nat, NEW s, IsRun(s, k, e), s # <<>>
  PROVE  k + 1 <= e /\ Head(s) = k + 1 /\ IsRun(Tail(s), k + 1, e)
<1>1. s \in Seq(Nat) /\ Len(s) = e - k /\ Len(s) \in Nat /\ Len(s) # 0
  BY EmptySeq DEF IsRun
<1>2. k + 1 <= e /\ 1 \in 1 .. e - k
  BY <1>1
<1>3. Head(s) = s[1] /\ s[1] = k + 1
  BY <1>1, <1>2 DEF IsRun
<1>4. /\ Tail(s) \in Seq(Nat) /\ Len(Tail(s)) = Len(s) - 1
      /\ \A i \in 1 .. Len(Tail(s)) : Tail(s)[i] = s[i + 1]
  BY <1>1, HeadTailProperties
<1>5. /\ Len(s) - 1 = e - (k + 1)
      /\ \A i \in 1 .. e - (k + 1) : i + 1 \in 1 .. e - k /\ k + (i + 1) = k + 1 + i
  BY <1>1, <1>2
<1>6. ASSUME NEW i \in 1 .. e - (k + 1) PROVE Tail(s)[i] = k + 1 + i
  BY <1>4, <1>5 DEF IsRun
<1> QED BY <1>2, <1>3, <1>4, <1>5, <1>6 DEF IsRun

LEMMA OnPoseStep ==
  ASSUME EncInv, DecInv, PacketInv, OfferInv, OnPose,
         UNCHANGED <<encVars, transport, fed, reasmVars, offered>>
  PROVE  DecInv'
<1>1. /\ decPc = "dispatch" /\ dispatch # <<>> /\ decPc' = decPc
      /\ got' = Append(got, Head(dispatch)) /\ dispatch' = Tail(dispatch)
      /\ buf' = buf /\ decFinished' = decFinished /\ threw' = threw
  BY DEF OnPose
<1>2. /\ transport' = transport /\ fed' = fed /\ next' = next /\ chunks' = chunks
      /\ encFinished' = encFinished /\ UNCHANGED encVars /\ offered' = offered /\ DueAt' = DueAt
  BY DueIdle DEF encVars, reasmVars
<1>3. PICK m \in 0 .. Len(chunks) : \E k \in Nat : DecAt(m, k)
  BY DEF DecInv
<1>4. PICK k \in Nat : DecAt(m, k)
  BY <1>3
<1>5. /\ EndAt(m) \in Nat /\ k + 1 <= EndAt(m) /\ Head(dispatch) = k + 1
      /\ IsRun(Tail(dispatch), k + 1, EndAt(m))
  BY <1>1, <1>4, RunHead, Chunks DEF DecAt
<1>6. got \in Seq(Nat) /\ k + 1 \in Nat /\ got' = Append(got, k + 1)
  BY <1>1, <1>5 DEF DecInv, DecTypes
<1>7. got' \in Seq(Nat) /\ Newest' = k + 1
  <2>1. got' \in Seq(Nat) /\ Len(got') = Len(got) + 1 /\ got'[Len(got) + 1] = k + 1 /\ got' # <<>>
    BY <1>6
  <2> QED BY <2>1 DEF Newest
<1>8. DecTypes'
  BY <1>1, <1>2, <1>7 DEF DecInv, DecTypes
<1>9. \A i : EndAt(i)' = EndAt(i)
  BY <1>2, EncoderIdle
<1>10. DecAt(m, k + 1)'
  <2>1. k + 1 <= k + 1
    OBVIOUS
  <2>2. (transport = "datagrams" => DatagramAt(m, k + 1))'
    <3> SUFFICES ASSUME transport = "datagrams" PROVE DatagramAt(m, k + 1)'
      BY <1>2
    <3>1. DatagramAt(m, k) /\ (offered # Absent => offered # <<>>)
      BY <1>4, OfferHasHeader DEF DecAt
    <3>2. offered # Absent /\ buf = <<>> /\ m = DueAt /\ EndAt(m - 1) <= k
      BY <1>1, <3>1 DEF DatagramAt
    <3>3. m - 1 \in 0 .. Len(chunks)
      BY <3>2, NoWrap DEF OfferInv
    <3>4. EndAt(m - 1) \in Nat
      BY <3>3, Chunks
    <3>5. EndAt(m - 1) <= k + 1
      BY <3>2, <3>4
    <3>6. EndAt(m - 1)' = EndAt(m - 1)
      BY <1>9
    <3> QED BY <1>1, <1>2, <1>7, <3>2, <3>5, <3>6 DEF DatagramAt
  <2>3. (transport = "pipe" => PipeAt(m, k + 1))'
    BY <1>1, <1>2, <1>4, <1>7, <2>1 DEF DecAt, PipeAt
  <2> QED BY <1>1, <1>2, <1>4, <1>5, <1>9, <2>2, <2>3 DEF DecAt
<1> QED BY <1>2, <1>6, <1>8, <1>10, DecStep

LEMMA PipeThrowsStep ==
  ASSUME EncInv, DecInv, PacketInv, OfferInv, OnPoseThrows, transport = "pipe",
         UNCHANGED <<encVars, transport, fed, reasmVars, offered>>
  PROVE  DecInv' /\ threw'
<1>1. /\ decPc = "dispatch" /\ dispatch # <<>> /\ decPc' = "idle" /\ dispatch' = <<>>
      /\ got' = got /\ buf' = buf /\ decFinished' = decFinished /\ threw' = TRUE
  BY DEF OnPoseThrows
<1>2. /\ transport' = transport /\ fed' = fed /\ next' = next /\ chunks' = chunks
      /\ encFinished' = encFinished /\ UNCHANGED encVars /\ offered' = offered /\ DueAt' = DueAt
  BY DueIdle DEF encVars, reasmVars
<1>3. PICK m \in 0 .. Len(chunks) : \E k \in Nat : DecAt(m, k)
  BY DEF DecInv
<1>4. PICK k \in Nat : DecAt(m, k)
  BY <1>3
<1>5. EndAt(m) \in Nat /\ k <= EndAt(m) /\ Newest <= k /\ Newest \in Nat
  BY <1>4, Chunks, NewestNat DEF DecAt, PipeAt, DecInv
<1>6. DecTypes'
  BY <1>1, <1>2 DEF DecInv, DecTypes
<1>7. \A i : EndAt(i)' = EndAt(i)
  BY <1>2, EncoderIdle
<1>8. PICK e \in Nat : e = EndAt(m)
  BY <1>5
<1>9. IsRun(<<>>, e, e) /\ e <= e /\ Newest <= e
  BY <1>5, <1>8, NoRun
<1>10. Newest' = Newest
  BY <1>1 DEF Newest
<1>11. DecAt(m, e)'
  BY <1>1, <1>2, <1>4, <1>7, <1>8, <1>9, <1>10 DEF DecAt, PipeAt
<1> QED BY <1>1, <1>2, <1>6, <1>11, DecStep

LEMMA ReadPipeStep ==
  ASSUME EncInv, DecInv, PacketInv, ReadPipe
  PROVE  DecInv' /\ (decPc' = "idle" => decFinished')
<1> DEFINE stream == SX!FlattenSeq(chunks)
<1>1. PICK n \in 1 .. Len(stream) - fed :
        DecoderFeed(SubSeq(stream, fed + 1, fed + n)) /\ fed' = fed + n
  BY DEF ReadPipe
<1>2. /\ transport = "pipe" /\ transport' = transport /\ offered' = offered /\ chunks' = chunks
      /\ encFinished' = encFinished /\ UNCHANGED encVars
  BY DEF ReadPipe, encVars, reasmVars
<1>3. /\ decPc = "idle" /\ buf' = buf \o SubSeq(stream, fed + 1, fed + n)
      /\ decPc' = IF decFinished THEN "idle" ELSE "parse"
      /\ dispatch' = dispatch /\ decFinished' = decFinished /\ got' = got /\ threw' = threw
  BY <1>1 DEF DecoderFeed
<1>4. PICK m \in 0 .. Len(chunks) : \E k \in Nat : DecAt(m, k)
  BY DEF DecInv
<1>5. PICK k \in Nat : DecAt(m, k)
  BY <1>4
<1>6. PICK off : Parsed(chunks, off, m, fed, buf)
  BY <1>2, <1>5 DEF DecAt, PipeAt
<1>7. chunks \in Seq(Seq(Nat)) /\ buf \in Seq(Nat)
  BY Chunks DEF DecInv, DecTypes
<1>8. buf' \in Seq(Nat) /\ Parsed(chunks, off, m, fed + n, buf')
  BY <1>3, <1>6, <1>7, PipeRead
<1>9. DecTypes'
  <2>1. DecTypes
    BY DEF DecInv
  <2> HIDE DEF stream
  <2> QED BY <1>2, <1>3, <1>8, <2>1 DEF DecTypes
<1>10. \A i : EndAt(i)' = EndAt(i)
  BY <1>2, EncoderIdle
<1>11. (\E off2 : Parsed(chunks, off2, m, fed, buf))'
  BY <1>1, <1>2, <1>8
<1>12. Newest' = Newest
  BY <1>3 DEF Newest
<1>13. DecAt(m, k)'
  BY <1>2, <1>3, <1>5, <1>10, <1>11, <1>12 DEF DecAt, PipeAt
<1> QED BY <1>2, <1>3, <1>9, <1>13, DecStep

-----------------------------------------------------------------------------
(* The reassembler in front of the decoder.                                *)

LEMMA OneMoreEvent ==
  ASSUME \E events : log \in Seq(events), NEW e, log' = Append(log, e)
  PROVE  log' # log /\ SX!Last(log') = e /\ \E events : log' \in Seq(events)
<1>1. PICK T : log \in Seq(T)
  OBVIOUS
<1>2. log \in Seq(T \union {e}) /\ Len(log) \in Nat
  BY <1>1
<1>3. Append(log, e) \in Seq(T \union {e}) /\ Len(Append(log, e)) = Len(log) + 1
      /\ Append(log, e)[Len(log) + 1] = e
  BY <1>2
<1>4. log' # log
  BY <1>2, <1>3
<1>5. SX!Last(log') = e
  BY <1>3 DEF SX!Last
<1> QED BY <1>3, <1>4, <1>5

LEMMA EarliestHeld ==
  ASSUME R!Held # {}
  PROVE  R!Earliest \in R!Held /\ \A s \in R!Held : R!Earliest <= s
<1>1. R!Held \subseteq Nat
  BY DEF R!Held, R!Seqs
<1>2. \E x \in R!Held : \A y \in R!Held : x <= y
  BY <1>1, LeastNat
<1> QED BY <1>2, Zenon DEF R!Earliest, R!Min

\* What pending_ holds after an erase.
LEMMA Erased ==
  ASSUME PacketInv, NEW s \in R!Held, pending' = [pending EXCEPT ![s] = Absent],
         UNCHANGED encVars
  PROVE  /\ pending' \in [R!Seqs -> Seq(Nat) \union {Absent}]
         /\ R!Held' = R!Held \ {s}
         /\ \A t \in R!Held' : pending'[t] = pending[t]
         /\ Len(chunks') = Len(chunks) /\ chunks' = chunks
<1>1. pending \in [R!Seqs -> Seq(Nat) \union {Absent}] /\ s \in R!Seqs
  BY DEF PacketInv, R!Held
<1>2. R!Held' = R!Held \ {s}
  BY <1>1 DEF R!Held, R!Seqs
<1>3. pending' \in [R!Seqs -> Seq(Nat) \union {Absent}]
  BY <1>1
<1>4. \A t \in R!Held' : pending'[t] = pending[t]
  BY <1>1, <1>2 DEF R!Held
<1> QED BY <1>2, <1>3, <1>4 DEF encVars

\* The steps that call no on_deliver: next_expected_seq_ stays, and what is held is
\* what was held or a chunk that was sent.
LEMMA SilentStep ==
  ASSUME EncInv, PacketInv, Reassemble
  PROVE  PacketInv' /\ next' = next
<1>0. chunks' = chunks /\ R!Seqs' = R!Seqs
  BY DEF Reassemble, encVars, R!Seqs
<1>1. /\ next \in 0 .. Len(chunks) /\ \E events : log \in Seq(events)
      /\ pending \in [R!Seqs -> Seq(Nat) \union {Absent}]
      /\ pc \in {"idle", "drain", "close", "closeJump", "closeDrain", "flush", "flushJump"}
      /\ \A s \in R!Held :
           /\ next <= s /\ s < Len(chunks) /\ pending[s] = chunks[s + 1]
           /\ pc \in {"idle", "close", "closeJump"} => next < s
      /\ pc \in {"closeJump", "flushJump"} => R!Held # {}
  BY DEF PacketInv
\* What the steps that leave pending_ alone share.
<1>2. ASSUME next' = next, pending' = pending,
             log' = log \/ \E e : log' = Append(log, e),
             pc' \in {"idle", "close", "closeJump", "flush", "flushJump"},
             pc' \in {"idle", "close", "closeJump"} => \A s \in R!Held : next < s,
             pc' \in {"closeJump", "flushJump"} => R!Held # {}
      PROVE  PacketInv'
  <2>1. R!Held' = R!Held
    BY <1>0, <1>2 DEF R!Held
  <2>2. \E events : log' \in Seq(events)
    BY <1>1, <1>2, OneMoreEvent
  <2> QED BY <1>0, <1>1, <1>2, <2>1, <2>2 DEF PacketInv
<1>3. ASSUME UNCHANGED R!vars
      PROVE  PacketInv' /\ next' = next
  <2>1. next' = next /\ pending' = pending /\ pc' = pc /\ log' = log
    BY <1>3 DEF R!vars
  <2>2. R!Held' = R!Held
    BY <1>0, <2>1 DEF R!Held
  <2> QED BY <1>0, <1>1, <2>1, <2>2 DEF PacketInv
<1>4. ASSUME NEW i \in 1 .. Len(chunks), R!FeedStale(i - 1)
      PROVE  PacketInv' /\ next' = next
  BY <1>3, <1>4 DEF R!FeedStale
<1>5. CASE R!FeedInvalid
  BY <1>3, <1>5 DEF R!FeedInvalid
<1>6. ASSUME NEW i \in 1 .. Len(chunks), R!FeedAhead(i - 1, chunks[i])
      PROVE  PacketInv' /\ next' = next
  <2>1. /\ pc = "idle" /\ i - 1 > next /\ pending' = [pending EXCEPT ![i - 1] = chunks[i]]
        /\ pc' = "close" /\ next' = next /\ log' = log
    BY <1>6 DEF R!FeedAhead, R!CanFeed
  <2>2. PICK r : r = i - 1 /\ i = r + 1 /\ r \in 0 .. Len(chunks) /\ r < Len(chunks)
    OBVIOUS
  <2>3. r \in R!Seqs /\ r \in Nat /\ r > next
    BY <2>1, <2>2, NoWrap
  <2>4. chunks[i] \in Seq(Nat)
    BY Chunks
  <2>6. pending' \in [R!Seqs -> Seq(Nat) \union {Absent}]
    BY <1>1, <2>1, <2>4
  <2>7. pending'[r] = chunks[r + 1] /\ \A s \in R!Seqs \ {r} : pending'[s] = pending[s]
    BY <1>1, <2>1, <2>2, <2>3
  <2>8. \A s \in R!Held' : s = r \/ (s \in R!Held /\ pending'[s] = pending[s])
    BY <1>0, <2>7 DEF R!Held
  <2>9. ASSUME NEW s \in R!Held'
        PROVE  next < s /\ next <= s /\ s < Len(chunks) /\ pending'[s] = chunks[s + 1]
    <3>1. CASE s = r
      BY <2>2, <2>3, <2>7, <3>1, NoWrap
    <3>2. CASE s \in R!Held /\ pending'[s] = pending[s]
      BY <1>1, <2>1, <3>2
    <3> QED BY <2>8, <3>1, <3>2
  <2>11. PacketInv'
    BY <1>0, <1>1, <2>1, <2>6, <2>9 DEF PacketInv
  <2> QED BY <2>1, <2>11
<1>7. CASE R!DrainDone
  <2>1. /\ next \notin R!Held /\ pc' = IF pc = "drain" THEN "idle" ELSE "close"
        /\ next' = next /\ pending' = pending /\ log' = log
    BY <1>7 DEF R!DrainDone
  <2>2. \A s \in R!Held : next < s
    <3>1. \A s \in R!Held : next <= s /\ s # next /\ s \in Nat /\ next \in Nat
      BY <1>1, <2>1, NoWrap
    <3> QED BY <3>1
  <2> QED BY <1>2, <2>1, <2>2
<1>8. CASE R!ReportGap
  <2>1. /\ R!MustJump
        /\ log' = log \/ \E e : log' = Append(log, e)
        /\ pc' = IF pc = "close" THEN "closeJump" ELSE "flushJump"
        /\ next' = next /\ pending' = pending
    BY <1>8 DEF R!ReportGap
  <2>2. R!Held # {} /\ pc \in {"close", "flush"}
    BY <2>1 DEF R!MustJump, R!WindowExceeded
  <2>3. pc' = "closeJump" => \A s \in R!Held : next < s
    BY <1>1, <2>1
  <2> QED BY <1>2, <2>1, <2>2, <2>3
<1>9. CASE R!LoopDone
  <2>1. /\ pc \in {"close", "flush"} /\ ~ R!MustJump /\ pc' = "idle"
        /\ next' = next /\ pending' = pending /\ log' = log
    BY <1>9 DEF R!LoopDone
  <2>2. \A s \in R!Held : next < s
    BY <1>1, <2>1 DEF R!MustJump
  <2> QED BY <1>2, <2>1, <2>2
<1>10. CASE R!Flush
  <2>1. pc' = "flush" /\ next' = next /\ pending' = pending /\ log' = log
    BY <1>10 DEF R!Flush
  <2> QED BY <1>2, <2>1
<1> QED BY <1>4, <1>5, <1>6, <1>7, <1>8, <1>9, <1>10 DEF Reassemble

\* What the reassembler hands to on_deliver is the chunk that is due.
LEMMA DueChunk ==
  ASSUME EncInv, PacketInv, NEW i \in 1 .. Len(chunks), Due(chunks[i])
  PROVE  DueAt \in next + 1 .. Len(chunks) /\ chunks[i] = chunks[DueAt]
<1>1. /\ Len(chunks) \in Nat /\ next \in Nat
      /\ \A s \in R!Held : s \in Nat /\ next <= s /\ s < Len(chunks) /\ pending[s] = chunks[s + 1]
  BY NoWrap DEF PacketInv
<1>2. CASE R!CanFeed /\ next < Len(chunks) /\ chunks[i] = chunks[next + 1]
  <2>1. DueAt = next + 1
    BY <1>2 DEF R!CanFeed, DueAt
  <2> QED BY <1>1, <1>2, <2>1
<1>3. CASE pc \in {"drain", "closeDrain"} /\ next \in R!Held /\ chunks[i] = pending[next]
  <2>1. DueAt = next + 1
    BY <1>3 DEF DueAt
  <2> QED BY <1>1, <1>3, <2>1
<1>4. CASE pc \in {"closeJump", "flushJump"} /\ chunks[i] = pending[R!Earliest]
  <2>1. DueAt = R!Earliest + 1
    BY <1>4 DEF DueAt
  <2>2. R!Earliest \in R!Held
    BY <1>4, EarliestHeld DEF PacketInv
  <2> QED BY <1>1, <1>4, <2>1, <2>2
<1> QED BY <1>2, <1>3, <1>4 DEF Due

\* on_deliver returns, and the reassembler is behind the chunk that was due, or throws,
\* and it still waits for what it waited for.
LEMMA DeliveryStep ==
  ASSUME EncInv, PacketInv, NEW kind, Delivery(kind), UNCHANGED encVars,
         DueAt \in next + 1 .. Len(chunks)
  PROVE  /\ PacketInv' /\ offered' = Absent
         /\ kind = "deliver" => next' = DueAt
         /\ kind = "threw" => next' = next
<1>0. chunks' = chunks /\ R!Seqs' = R!Seqs
  BY DEF encVars, R!Seqs
<1>1. /\ next \in 0 .. Len(chunks) /\ \E events : log \in Seq(events)
      /\ pending \in [R!Seqs -> Seq(Nat) \union {Absent}]
      /\ \A s \in R!Held :
           /\ next <= s /\ s < Len(chunks) /\ pending[s] = chunks[s + 1] /\ s \in Nat
           /\ pc \in {"idle", "close", "closeJump"} => next < s
      /\ pc \in {"closeJump", "flushJump"} => R!Held # {}
      /\ Len(chunks) \in Nat /\ next \in Nat
  BY NoWrap DEF PacketInv
\* A callback on packet s leaves held what is behind s, and moves on to s + 1 if it returns.
<1>2. ASSUME NEW s \in 0 .. Len(chunks), NEW payload, NEW after,
             after \in {"drain", "closeDrain", "flush"},
             R!DeliverAndAdvance(s, payload, after), s + 1 \in next + 1 .. Len(chunks),
             pending' \in [R!Seqs -> Seq(Nat) \union {Absent}],
             \A t \in R!Held' : t \in R!Held /\ s < t /\ pending'[t] = pending[t]
      PROVE  /\ PacketInv'
             /\ SX!Last(log').kind = "deliver" => next' = s + 1
             /\ SX!Last(log').kind = "threw" => next' = next
  <2>1. CASE R!DeliverReturns(s, payload, after)
    <3> DEFINE e == R!Event("deliver", s, 1, payload)
    <3>1. /\ log' = Append(log, e) /\ next' = (s + 1) % SeqMod /\ pc' = after
      BY <2>1 DEF R!DeliverReturns
    <3>2. next' = s + 1
      <4>1. s + 1 \in 0 .. Len(chunks)
        BY <1>1, <1>2
      <4> QED BY <3>1, <4>1, NoWrap
    <3>3. e.kind = "deliver"
      BY DEF R!Event
    <3> HIDE DEF e
    <3>4. SX!Last(log') = e /\ \E events : log' \in Seq(events)
      BY <1>1, <3>1, OneMoreEvent
    <3>5. \A t \in R!Held' : s + 1 <= t /\ t < Len(chunks) /\ pending'[t] = chunks[t + 1]
      BY <1>1, <1>2
    <3>6. pc' \in {"drain", "closeDrain", "flush"} /\ next' \in 0 .. Len(chunks)
      BY <1>1, <1>2, <3>1, <3>2
    <3>7. PacketInv'
      BY <1>0, <1>2, <3>2, <3>4, <3>5, <3>6 DEF PacketInv
    <3> QED BY <3>2, <3>3, <3>4, <3>7
  <2>2. CASE R!DeliverThrows(s, payload)
    <3> DEFINE e == R!Event("threw", s, 0, payload)
    <3>1. log' = Append(log, e) /\ next' = next /\ pc' = "idle"
      BY <2>2 DEF R!DeliverThrows
    <3>2. e.kind = "threw"
      BY DEF R!Event
    <3> HIDE DEF e
    <3>3. SX!Last(log') = e /\ \E events : log' \in Seq(events)
      BY <1>1, <3>1, OneMoreEvent
    <3>4. \A t \in R!Held' :
            next < t /\ next <= t /\ t < Len(chunks) /\ pending'[t] = chunks[t + 1]
      BY <1>1, <1>2
    <3>5. PacketInv'
      BY <1>0, <1>1, <1>2, <3>1, <3>3, <3>4 DEF PacketInv
    <3> QED BY <3>1, <3>2, <3>3, <3>5
  <2> QED BY <1>2, <2>1, <2>2 DEF R!DeliverAndAdvance
\* Drain and Jump take the earliest held packet out of pending_.
<1>3. ASSUME NEW s \in R!Held, \A t \in R!Held : s <= t,
             pending' = [pending EXCEPT ![s] = Absent]
      PROVE  /\ s \in 0 .. Len(chunks) /\ s + 1 \in next + 1 .. Len(chunks)
             /\ pending' \in [R!Seqs -> Seq(Nat) \union {Absent}]
             /\ \A t \in R!Held' : t \in R!Held /\ s < t /\ pending'[t] = pending[t]
  <2>1. /\ pending' \in [R!Seqs -> Seq(Nat) \union {Absent}]
        /\ R!Held' = R!Held \ {s}
        /\ \A t \in R!Held' : pending'[t] = pending[t]
    BY <1>3, Erased
  <2>2. s \in Nat /\ next <= s /\ s < Len(chunks)
    BY <1>1
  <2>3. \A t \in R!Held' : t \in R!Held /\ s < t
    <3>1. \A t \in R!Held' : t \in R!Held /\ t # s /\ s <= t /\ t \in Nat
      BY <1>1, <1>3, <2>1
    <3> QED BY <2>2, <3>1
  <2> QED BY <1>1, <2>1, <2>2, <2>3
<1>4. CASE R!FeedExpected(next, offered)
  <2>1. /\ pc = "idle" /\ R!DeliverAndAdvance(next, offered, "drain") /\ pending' = pending
        /\ DueAt = next + 1
    BY <1>4 DEF R!FeedExpected, R!CanFeed, DueAt
  <2>2. R!Held' = R!Held
    BY <1>0, <2>1 DEF R!Held
  <2>3. \A t \in R!Held' : t \in R!Held /\ next < t /\ pending'[t] = pending[t]
    BY <1>1, <2>1, <2>2
  <2>4. /\ PacketInv'
        /\ SX!Last(log').kind = "deliver" => next' = next + 1
        /\ SX!Last(log').kind = "threw" => next' = next
    BY <1>1, <1>2, <2>1, <2>3
  <2> QED BY <2>1, <2>4 DEF Delivery
<1>5. CASE R!Drain
  <2>1. /\ pc \in {"drain", "closeDrain"} /\ next \in R!Held
        /\ pending' = [pending EXCEPT ![next] = Absent]
        /\ R!DeliverAndAdvance(next, pending[next], pc) /\ DueAt = next + 1
    BY <1>5 DEF R!Drain, DueAt
  <2>2. \A t \in R!Held : next <= t
    BY <1>1
  <2>3. /\ next + 1 \in next + 1 .. Len(chunks)
        /\ pending' \in [R!Seqs -> Seq(Nat) \union {Absent}]
        /\ \A t \in R!Held' : t \in R!Held /\ next < t /\ pending'[t] = pending[t]
    BY <1>3, <2>1, <2>2
  <2>4. /\ PacketInv'
        /\ SX!Last(log').kind = "deliver" => next' = next + 1
        /\ SX!Last(log').kind = "threw" => next' = next
    BY <1>1, <1>2, <2>1, <2>3
  <2> QED BY <2>1, <2>4 DEF Delivery
<1>6. CASE R!Jump
  <2>1. PICK s : s = R!Earliest
    OBVIOUS
  <2>2. PICK after : after = IF pc = "closeJump" THEN "closeDrain" ELSE "flush"
    OBVIOUS
  <2>3. /\ pc \in {"closeJump", "flushJump"}
        /\ pending' = [pending EXCEPT ![s] = Absent]
        /\ R!DeliverAndAdvance(s, pending[s], after) /\ DueAt = s + 1
    BY <1>6, <2>1, <2>2 DEF R!Jump, DueAt
  <2>4. s \in R!Held /\ \A t \in R!Held : s <= t
    BY <1>1, <2>1, <2>3, EarliestHeld
  <2>5. after \in {"drain", "closeDrain", "flush"}
    BY <2>2
  <2>6. /\ s \in 0 .. Len(chunks) /\ s + 1 \in next + 1 .. Len(chunks)
        /\ pending' \in [R!Seqs -> Seq(Nat) \union {Absent}]
        /\ \A t \in R!Held' : t \in R!Held /\ s < t /\ pending'[t] = pending[t]
    BY <1>3, <2>3, <2>4
  <2>7. /\ PacketInv'
        /\ SX!Last(log').kind = "deliver" => next' = s + 1
        /\ SX!Last(log').kind = "threw" => next' = next
    BY <1>2, <2>3, <2>5, <2>6
  <2> QED BY <2>3, <2>7 DEF Delivery
<1> QED BY <1>4, <1>5, <1>6 DEF Delivery

-----------------------------------------------------------------------------
(* Reassembler and decoder together.                                       *)

\* With nothing on offer the decoder is behind the last chunk it returned from.
LEMMA BetweenChunks ==
  ASSUME DecInv, transport = "datagrams", offered = Absent
  PROVE  \E k \in Nat : DecAt(next, k)
<1>1. PICK m \in 0 .. Len(chunks) : \E k \in Nat : DecAt(m, k)
  BY DEF DecInv
<1>2. PICK k \in Nat : DecAt(m, k)
  BY <1>1
<1>3. m = next
  BY <1>2 DEF DecAt, DatagramAt
<1> QED BY <1>2, <1>3

\* The reassembler works on its own: the decoder stays where it is.
LEMMA ReassembleStep ==
  ASSUME StreamInv, Reassemble
  PROVE  StreamInv'
<1>1. EncInv /\ DecInv /\ PacketInv /\ OnlyTailBuffered
  BY DEF StreamInv
<1>2. /\ transport = "datagrams" /\ offered = Absent
      /\ UNCHANGED <<encVars, decVars, transport, fed, offered>>
  BY DEF Reassemble
<1>3. PacketInv' /\ next' = next
  BY <1>1, SilentStep
<1>4. /\ EncInv' /\ chunks' = chunks /\ encFinished' = encFinished /\ UNCHANGED encVars
      /\ \A i : EndAt(i)' = EndAt(i)
  BY <1>1, <1>2, EncoderIdle
<1>5. /\ buf' = buf /\ dispatch' = dispatch /\ decPc' = decPc /\ decFinished' = decFinished
      /\ got' = got /\ threw' = threw /\ transport' = transport /\ offered' = Absent
  BY <1>2 DEF decVars
<1>6. PICK k \in Nat : DecAt(next, k)
  BY <1>1, <1>2, BetweenChunks
<1>7. DecAt(next, k)'
  <2>1. k <= EndAt(next) /\ IsRun(dispatch, k, EndAt(next))
        /\ (decFinished <=> encFinished /\ next = Len(chunks))
        /\ decPc = "idle" /\ buf = <<>>
    BY <1>2, <1>6 DEF DecAt, DatagramAt
  <2>2. DatagramAt(next, k)'
    BY <1>3, <1>5, <2>1 DEF DatagramAt
  <2>3. transport' # "pipe"
    BY <1>2, <1>5
  <2>4. EndAt(next)' = EndAt(next)
    BY <1>3, <1>4
  <2> QED BY <1>3, <1>4, <1>5, <2>1, <2>2, <2>3, <2>4 DEF DecAt
<1>8. DecInv'
  <2>1. DecTypes'
    BY <1>1, <1>4, <1>5 DEF DecInv, DecTypes
  <2>2. next' \in 0 .. Len(chunks)'
    BY <1>3 DEF PacketInv
  <2> QED BY <1>7, <2>1, <2>2 DEF DecInv
<1>9. OfferInv' /\ OnlyTailBuffered'
  BY <1>1, <1>5 DEF OfferInv, OnlyTailBuffered, ChunkArrived, HeaderArrived
<1> QED BY <1>3, <1>4, <1>8, <1>9 DEF StreamInv

LEMMA CallDeliverStep ==
  ASSUME StreamInv, CallDeliver
  PROVE  StreamInv'
<1>1. EncInv /\ DecInv /\ PacketInv
  BY DEF StreamInv
<1>2. PICK i \in 1 .. Len(chunks) :
        Due(chunks[i]) /\ offered' = chunks[i] /\ DecoderFeed(chunks[i])
  BY DEF CallDeliver
<1>3. /\ transport = "datagrams" /\ offered = Absent
      /\ UNCHANGED <<encVars, transport, fed, reasmVars>> /\ next' = next /\ DueAt' = DueAt
  BY DueIdle DEF CallDeliver, reasmVars
<1>4. DueAt \in next + 1 .. Len(chunks) /\ offered' = chunks[DueAt]
  BY <1>1, <1>2, DueChunk
<1>5. /\ EncInv' /\ chunks' = chunks /\ encFinished' = encFinished /\ UNCHANGED encVars
      /\ \A j : EndAt(j)' = EndAt(j)
  BY <1>1, <1>3, EncoderIdle
<1>6. PacketInv'
  BY <1>1, <1>3, PacketsIdle
<1>7. PICK k \in Nat : DecAt(next, k)
  BY <1>1, <1>3, BetweenChunks
<1>8. /\ chunks \in Seq(Seq(Nat)) /\ Len(chunks) \in Nat /\ next \in Nat
      /\ DueAt \in 1 .. Len(chunks) /\ DueAt - 1 \in 0 .. Len(chunks) /\ DueAt - 1 # Len(chunks)
  BY <1>1, <1>4, NoWrap, Chunks
<1>9. buf = <<>> /\ decPc = "idle" /\ ~ decFinished /\ dispatch = <<>>
  <2>1. buf = <<>> /\ decPc = "idle" /\ (decFinished <=> encFinished /\ next = Len(chunks))
    BY <1>3, <1>7 DEF DecAt, DatagramAt
  <2>2. next # Len(chunks)
    BY <1>4, <1>8
  <2> QED BY <1>1, <2>1, <2>2 DEF DecInv, DecTypes
<1>10. chunks[DueAt] \in Seq(Nat) /\ chunks[DueAt] # Absent
  BY <1>8, PoseTransportAssumption
<1>11. /\ buf' = offered' /\ decPc' = "parse" /\ decFinished' = decFinished
       /\ dispatch' = dispatch /\ got' = got /\ threw' = threw
  <2>1. /\ buf' = buf \o chunks[i] /\ decPc' = IF decFinished THEN "idle" ELSE "parse"
        /\ dispatch' = dispatch /\ decFinished' = decFinished /\ got' = got /\ threw' = threw
    BY <1>2 DEF DecoderFeed
  <2>2. buf \o chunks[i] = chunks[i]
    BY <1>8, <1>9, ConcatEmptySeq
  <2> QED BY <1>2, <1>9, <2>1, <2>2
<1>12. PICK e \in Nat : e = EndAt(DueAt - 1)
  BY <1>1, <1>8, Chunks
<1>13. DecAt(DueAt - 1, e)'
  <2>1. DatagramAt(DueAt - 1, e)'
    BY <1>3, <1>4, <1>10, <1>11 DEF DatagramAt
  <2>2. e <= EndAt(DueAt - 1) /\ IsRun(dispatch', e, EndAt(DueAt - 1))
    BY <1>9, <1>11, <1>12, NoRun
  <2>3. transport' # "pipe" /\ EndAt(DueAt - 1)' = EndAt(DueAt - 1)
    BY <1>3, <1>5
  <2> QED BY <1>3, <1>5, <1>8, <1>9, <1>11, <2>1, <2>2, <2>3 DEF DecAt
<1>14. DecInv'
  <2>1. DecTypes'
    BY <1>1, <1>3, <1>4, <1>5, <1>9, <1>10, <1>11 DEF DecInv, DecTypes
  <2> QED BY <1>5, <1>8, <1>13, <2>1, <1>3, DecStep
<1>15. OfferInv'
  BY <1>3, <1>4, <1>5 DEF OfferInv
<1>16. OnlyTailBuffered'
  BY <1>11 DEF OnlyTailBuffered
<1> QED BY <1>5, <1>6, <1>14, <1>15, <1>16 DEF StreamInv

\* The reassembler is over with a delivery and waits for the chunk behind the first n,
\* of which none but the last may be the sentinel.
LEMMA DeliveryOver ==
  ASSUME EncInv, DecTypes', PacketInv', NEW n \in 0 .. Len(chunks), next' = n,
         UNCHANGED <<encVars, transport>>, transport = "datagrams", offered' = Absent,
         decPc' = "idle", buf' = <<>>, decFinished' <=> encFinished /\ n = Len(chunks)
  PROVE  DecInv' /\ OfferInv' /\ OnlyTailBuffered'
<1>1. /\ chunks' = chunks /\ encFinished' = encFinished /\ UNCHANGED encVars
      /\ \A j : EndAt(j)' = EndAt(j)
  BY EncoderIdle
<1>2. PICK e \in Nat : e = EndAt(n)
  BY Chunks
<1>3. dispatch' = <<>>
  BY DEF DecTypes
<1>4. DecAt(n, e)'
  <2>1. DatagramAt(n, e)'
    BY DEF DatagramAt
  <2>2. e <= EndAt(n) /\ IsRun(dispatch', e, EndAt(n))
    BY <1>2, <1>3, NoRun
  <2>3. transport' # "pipe" /\ EndAt(n)' = EndAt(n)
    BY <1>1
  <2> QED BY <1>1, <2>1, <2>2, <2>3 DEF DecAt
<1>5. DecInv'
  BY <1>1, <1>4, DecStep
<1> QED BY <1>5 DEF OfferInv, OnlyTailBuffered, ChunkArrived, HeaderArrived

LEMMA DeliverReturnsStep ==
  ASSUME StreamInv, DeliverReturns
  PROVE  StreamInv' /\ next' = DueAt
<1>1. EncInv /\ DecInv /\ PacketInv /\ OfferInv
  BY DEF StreamInv
<1>2. /\ decPc = "idle" /\ Delivery("deliver") /\ transport = "datagrams" /\ offered # Absent
      /\ UNCHANGED <<encVars, decVars, transport, fed>>
  BY DEF DeliverReturns, Delivery
<1>3. DueAt \in next + 1 .. Len(chunks)
  BY <1>1, <1>2 DEF OfferInv
<1>4. PacketInv' /\ offered' = Absent /\ next' = DueAt
  BY <1>1, <1>2, <1>3, DeliveryStep
<1>5. /\ buf' = buf /\ dispatch' = dispatch /\ decPc' = decPc /\ decFinished' = decFinished
      /\ got' = got /\ threw' = threw /\ transport' = transport
      /\ EncInv' /\ chunks' = chunks /\ encFinished' = encFinished
  BY <1>1, <1>2, EncoderIdle DEF decVars
<1>6. PICK m \in 0 .. Len(chunks) : \E k \in Nat : DecAt(m, k)
  BY <1>1 DEF DecInv
<1>7. PICK k \in Nat : DecAt(m, k)
  BY <1>6
<1>8. m = DueAt /\ buf = <<>> /\ (decFinished <=> encFinished /\ m = Len(chunks))
  BY <1>2, <1>7 DEF DecAt, DatagramAt
<1>9. DecTypes'
  BY <1>1, <1>5 DEF DecInv, DecTypes
<1>10. DecInv' /\ OfferInv' /\ OnlyTailBuffered'
  BY <1>1, <1>2, <1>4, <1>5, <1>6, <1>8, <1>9, DeliveryOver
<1> QED BY <1>4, <1>5, <1>10 DEF StreamInv

\* on_pose throws over datagrams: the packet counts as not delivered.
LEMMA DatagramThrowsStep ==
  ASSUME StreamInv, OnPoseThrows, Delivery("threw"), UNCHANGED <<encVars, transport, fed>>
  PROVE  StreamInv' /\ next' = next /\ transport = "datagrams"
<1>1. EncInv /\ DecInv /\ PacketInv /\ OfferInv
  BY DEF StreamInv
<1>2. transport = "datagrams" /\ offered # Absent /\ UNCHANGED encVars /\ transport' = transport
  BY DEF Delivery
<1>3. DueAt \in next + 1 .. Len(chunks)
  BY <1>1, <1>2 DEF OfferInv
<1>4. PacketInv' /\ offered' = Absent /\ next' = next
  BY <1>1, <1>2, <1>3, DeliveryStep
<1>5. /\ decPc = "dispatch" /\ decPc' = "idle" /\ dispatch' = <<>>
      /\ got' = got /\ buf' = buf /\ decFinished' = decFinished /\ threw' = TRUE
  BY DEF OnPoseThrows
<1>6. EncInv' /\ encFinished' = encFinished
  BY <1>1, <1>2, EncoderIdle
<1>7. PICK m \in 0 .. Len(chunks) : \E k \in Nat : DecAt(m, k)
  BY <1>1 DEF DecInv
<1>8. PICK k \in Nat : DecAt(m, k)
  BY <1>7
<1>9. buf = <<>> /\ ~ decFinished
  BY <1>1, <1>2, <1>5, <1>8 DEF DecAt, DatagramAt, DecInv, DecTypes
<1>10. next \in 0 .. Len(chunks) /\ next # Len(chunks)
  BY <1>1, <1>3, NoWrap
<1>11. DecTypes'
  BY <1>1, <1>2, <1>5, <1>6, <1>9 DEF DecInv, DecTypes
<1>12. DecInv' /\ OfferInv' /\ OnlyTailBuffered'
  BY <1>1, <1>2, <1>4, <1>5, <1>9, <1>10, <1>11, DeliveryOver
<1> QED BY <1>2, <1>4, <1>6, <1>12 DEF StreamInv

-----------------------------------------------------------------------------
(* The invariant and the refinement.                                       *)

LEMMA NextKeeps ==
  ASSUME StreamInv, [Next]_vars
  PROVE  StreamInv'
<1>1. EncInv /\ DecInv /\ PacketInv /\ OfferInv /\ OnlyTailBuffered
  BY DEF StreamInv
<1>2. CASE Produce
  BY <1>2, ProduceStep
<1>3. CASE Reassemble \/ CallDeliver \/ DeliverReturns
  BY <1>3, ReassembleStep, CallDeliverStep, DeliverReturnsStep
<1>4. CASE ReadPipe
  <2>1. /\ UNCHANGED <<encVars, reasmVars>> /\ transport' = transport /\ transport = "pipe"
        /\ offered' = offered
    BY <1>4 DEF ReadPipe
  <2>2. DecInv' /\ (decPc' = "idle" => decFinished')
    BY <1>1, <1>4, ReadPipeStep
  <2>3. OnlyTailBuffered'
    BY <2>1, <2>2 DEF OnlyTailBuffered
  <2>4. EncInv' /\ PacketInv' /\ OfferInv'
    BY <1>1, <2>1, EncoderIdle, PacketsIdle, OfferIdle
  <2> QED BY <2>2, <2>3, <2>4 DEF StreamInv
<1>5. CASE DecoderRuns
  <2>1. UNCHANGED <<encVars, transport, fed, reasmVars, offered>> /\ Decoder
    BY <1>5 DEF DecoderRuns
  <2>2. EncInv' /\ PacketInv' /\ OfferInv' /\ transport' = transport
    BY <1>1, <2>1, EncoderIdle, PacketsIdle, OfferIdle
  <2>3. CASE ParseSentinel
    <3>1. DecInv' /\ (transport = "datagrams" => buf' = <<>>)
      BY <1>1, <2>1, <2>3, ParseSentinelStep
    <3>2. decFinished'
      BY <2>3 DEF ParseSentinel
    <3> QED BY <2>2, <3>1, <3>2 DEF StreamInv, OnlyTailBuffered
  <2>4. CASE ParseChunk
    <3>1. DecInv' /\ decPc' = "dispatch"
      BY <1>1, <2>1, <2>4, ParseChunkStep DEF ParseChunk
    <3> QED BY <2>2, <3>1 DEF StreamInv, OnlyTailBuffered
  <2>5. CASE ParseWaits
    <3>1. DecInv' /\ (transport = "datagrams" => buf' = <<>>) /\ ~ ChunkArrived'
      BY <1>1, <2>1, <2>5, ParseWaitsStep
    <3> QED BY <2>2, <3>1 DEF StreamInv, OnlyTailBuffered
  <2>6. CASE OnPose
    <3>1. DecInv' /\ decPc' = "dispatch"
      BY <1>1, <2>1, <2>6, OnPoseStep DEF OnPose
    <3> QED BY <2>2, <3>1 DEF StreamInv, OnlyTailBuffered
  <2>7. CASE ChunkDispatched
    <3>1. DecInv' /\ decPc' = "parse"
      BY <1>1, <2>1, <2>7, ChunkDispatchedStep DEF ChunkDispatched
    <3> QED BY <2>2, <3>1 DEF StreamInv, OnlyTailBuffered
  <2> QED BY <2>1, <2>3, <2>4, <2>5, <2>6, <2>7 DEF Decoder
<1>6. CASE ConsumerThrows
  <2>1. OnPoseThrows /\ UNCHANGED <<encVars, transport, fed>>
    BY <1>6 DEF ConsumerThrows
  <2>2. CASE transport = "pipe" /\ UNCHANGED <<reasmVars, offered>>
    <3>1. EncInv' /\ PacketInv' /\ OfferInv'
      BY <1>1, <2>1, <2>2, EncoderIdle, PacketsIdle, OfferIdle
    <3>2. DecInv' /\ threw'
      BY <1>1, <2>1, <2>2, PipeThrowsStep
    <3> QED BY <2>1, <2>2, <3>1, <3>2 DEF StreamInv, OnlyTailBuffered
  <2>3. CASE Delivery("threw")
    BY <2>1, <2>3, DatagramThrowsStep
  <2> QED BY <1>6, <2>2, <2>3 DEF ConsumerThrows
<1>7. CASE UNCHANGED vars
  <2>1. UNCHANGED <<encVars, decVars, transport, fed, reasmVars, offered>>
    BY <1>7 DEF vars
  <2>2. EncInv' /\ PacketInv' /\ OfferInv'
    BY <1>1, <2>1, EncoderIdle, PacketsIdle, OfferIdle
  <2>3. /\ buf' = buf /\ dispatch' = dispatch /\ decPc' = decPc /\ decFinished' = decFinished
        /\ got' = got /\ threw' = threw /\ transport' = transport /\ fed' = fed
        /\ next' = next /\ offered' = offered /\ DueAt' = DueAt
        /\ chunks' = chunks /\ encFinished' = encFinished /\ UNCHANGED encVars
    BY <2>1, DueIdle DEF decVars, encVars, reasmVars
  <2>4. \A i : EndAt(i)' = EndAt(i)
    BY <1>1, <2>1, EncoderIdle
  <2>5. PICK m \in 0 .. Len(chunks) : \E k \in Nat : DecAt(m, k)
    BY <1>1 DEF DecInv
  <2>6. PICK k \in Nat : DecAt(m, k)
    BY <2>5
  <2>7. DecAt(m, k)'
    <3>1. (transport = "datagrams" => DatagramAt(m, k))'
      BY <2>3, <2>4, <2>6 DEF DecAt, DatagramAt, Newest
    <3>2. (transport = "pipe" => PipeAt(m, k))'
      BY <2>3, <2>6 DEF DecAt, PipeAt, Newest
    <3> QED BY <2>3, <2>4, <2>6, <3>1, <3>2 DEF DecAt
  <2>8. DecTypes'
    BY <1>1, <2>3 DEF DecInv, DecTypes
  <2>9. DecInv'
    BY <2>3, <2>7, <2>8, DecStep
  <2>10. OnlyTailBuffered'
    BY <1>1, <2>3 DEF OnlyTailBuffered, ChunkArrived, HeaderArrived
  <2> QED BY <2>2, <2>9, <2>10 DEF StreamInv
<1> QED BY <1>2, <1>3, <1>4, <1>5, <1>6, <1>7 DEF Next

\* Where every chunk, every packet and every pose is: the encoder's chunks are runs of
\* the poses one after the other, the reassembler holds chunks that were sent under
\* their own numbers, and the decoder is behind one pose of one chunk.
THEOREM StreamInvariant == Spec => []StreamInv
<1>1. Init => StreamInv
  BY InitHolds
<1>2. StreamInv /\ [Next]_vars => StreamInv'
  BY NextKeeps
<1> QED BY <1>1, <1>2, PTL DEF Spec

\* A feed() that returned left no complete chunk in the buffer, and over datagrams
\* nothing at all.
THEOREM TailBuffered == Spec => []OnlyTailBuffered
<1>1. StreamInv => OnlyTailBuffered
  BY DEF StreamInv
<1> QED BY <1>1, StreamInvariant, PTL

LEMMA ChannelInit == Init => Channel!Init
<1> SUFFICES ASSUME Init PROVE Channel!Init
  OBVIOUS
<1>1. /\ pushed = 0 /\ encFinished = FALSE /\ got = <<>> /\ threw = FALSE
      /\ decFinished = FALSE /\ next = 0 /\ offered = Absent
  BY DEF Init, PoseInit, R!Init
<1>2. Settled = 0 /\ UpTo = 0
  BY <1>1 DEF Settled, UpTo, PacketBegun, Newest, LastPose
<1> QED BY <1>1, <1>2 DEF Channel!Init

\* Over datagrams the consumer has accepted the chunks in front of the awaited one.
LEMMA SettledIs ==
  ASSUME StreamInv, ~ decFinished
  PROVE  /\ transport = "pipe" => Settled = Newest
         /\ transport = "datagrams" => Settled = EndAt(next)
<1>1. EncInv /\ DecInv /\ PacketInv /\ OfferInv
  BY DEF StreamInv
<1>2. ASSUME transport = "datagrams"
      PROVE  EndAt(next) = LastPose(next)
  <2>1. ~ (encFinished /\ next = Len(chunks))
    <3>1. CASE offered = Absent
      BY <1>1, <1>2, <3>1, BetweenChunks DEF DecAt
    <3>2. CASE offered # Absent
      BY <1>1, <3>2, NoWrap DEF OfferInv
    <3> QED BY <3>1, <3>2
  <2> QED BY <2>1 DEF EndAt, EndOf, Finished, LastPose
<1> QED BY <1>2 DEF Settled

\* How much of the chunk on offer the consumer has been given.
LEMMA BegunIs ==
  ASSUME StreamInv, NEW m \in 0 .. Len(chunks), NEW k \in Nat, DecAt(m, k),
         transport = "datagrams", offered # Absent, buf = <<>>
  PROVE  /\ m = DueAt /\ m - 1 \in 0 .. Len(chunks) /\ EndAt(m - 1) \in Nat
         /\ EndAt(next) \in Nat /\ EndAt(next) <= EndAt(m - 1) /\ EndAt(m - 1) <= k
         /\ PacketBegun <=> EndAt(m - 1) < k
         /\ PacketBegun => Newest = k
<1>1. EncInv /\ DecInv /\ PacketInv /\ OfferInv
  BY DEF StreamInv
<1>2. /\ DueAt \in next + 1 .. Len(chunks) /\ offered = chunks[DueAt]
      /\ Len(chunks) \in Nat /\ next \in Nat
  BY <1>1, NoWrap DEF OfferInv
<1>3. IsFrame(chunks[DueAt], EndAt(DueAt - 1), EndAt(DueAt))
  BY <1>1, <1>2, Chunks
<1>4. offered # <<>>
  BY <1>1, OfferHasHeader
<1>5. m = DueAt /\ EndAt(m - 1) <= k /\ (EndAt(m - 1) < k => Newest = k)
  BY <1>4 DEF DecAt, DatagramAt
<1>6. m \in 1 .. Len(chunks) /\ m - 1 \in 0 .. Len(chunks) /\ next \in 0 .. Len(chunks)
      /\ next <= m - 1 /\ m - 1 <= m
  BY <1>2, <1>5
<1>7. /\ EndAt(m) \in Nat /\ EndAt(m - 1) \in Nat /\ EndAt(next) \in Nat
      /\ EndAt(next) <= EndAt(m - 1) /\ EndAt(m - 1) <= EndAt(m)
  BY <1>1, <1>6, Chunks
<1>8. k <= EndAt(m) /\ Len(dispatch) = EndAt(m) - k
  BY DEF DecAt, IsRun
<1>9. offered[1] = EndAt(m) - EndAt(m - 1)
  BY <1>2, <1>3, <1>5 DEF IsFrame
<1>10. PacketBegun <=> EndAt(m - 1) < k
  <2>1. PacketBegun <=> Len(dispatch) < offered[1]
    BY DEF PacketBegun
  <2> QED BY <1>7, <1>8, <1>9, <2>1
<1> QED BY <1>5, <1>6, <1>7, <1>10

\* What the mapping reads of the other steps.
LEMMA MapIdle ==
  ASSUME UNCHANGED <<pushed, decFinished, transport, got, next, PacketBegun>>,
         LastPose(next)' = LastPose(next)
  PROVE  Settled' = Settled /\ UpTo' = UpTo
<1>1. Newest' = Newest
  BY DEF Newest
<1> QED BY <1>1 DEF Settled, UpTo

LEMMA EncoderMaps ==
  ASSUME StreamInv, Produce
  PROVE  [Channel!Next]_(Channel!vars)
<1>1. /\ UNCHANGED <<decVars, transport, fed, reasmVars, offered>> /\ Encoder
      /\ EncInv /\ DecInv /\ PacketInv
  BY DEF Produce, StreamInv
<1>2. /\ decFinished' = decFinished /\ got' = got /\ threw' = threw
      /\ transport' = transport /\ next' = next /\ PacketBegun' = PacketBegun
  BY <1>1 DEF decVars, reasmVars, PacketBegun
<1>3. ~ encFinished /\ SameEnds(chunks, 0, pushed, chunks', Finished', pushed')
  BY <1>1, EncoderStep
<1>4. LastPose(next)' = LastPose(next)
  <2>1. next \in Nat /\ next <= Len(chunks) /\ Len(chunks) \in Nat
    BY <1>1, NoWrap
  <2>2. next # 0 => chunks'[next] = chunks[next]
    BY <1>3, <2>1 DEF SameEnds
  <2> QED BY <1>2, <2>2 DEF LastPose
<1>5. ~ decFinished
  BY <1>1, <1>3 DEF DecInv, DecTypes
<1>6. Settled' = Settled /\ UpTo' = UpTo
  <2>1. Newest' = Newest
    BY <1>2 DEF Newest
  <2> QED BY <1>2, <1>4, <1>5, <2>1 DEF Settled, UpTo
<1>7. CASE PushBuffered \/ PushEmits \/ PushChunkThrows
  <2>1. ~ encFinished /\ pushed' = pushed + 1 /\ encFinished' = encFinished
    BY <1>7 DEF PushBuffered, PushEmits, PushChunkThrows
  <2> QED BY <1>2, <1>6, <2>1 DEF Channel!Next, Channel!Push
<1>8. CASE Finish
  <2>1. pushed' = pushed /\ encFinished' = TRUE
    BY <1>8 DEF Finish
  <2> QED BY <1>2, <1>6, <2>1 DEF Channel!Next, Channel!Close
<1>9. CASE FinishSentinelThrows
  <2>1. pushed' = pushed /\ encFinished' = encFinished
    BY <1>9 DEF FinishSentinelThrows
  <2> QED BY <1>2, <1>6, <2>1 DEF Channel!vars
<1> QED BY <1>1, <1>7, <1>8, <1>9 DEF Encoder

LEMMA OnPoseMaps ==
  ASSUME StreamInv, OnPose, UNCHANGED <<encVars, transport, fed, reasmVars, offered>>
  PROVE  Channel!Deliver
<1>1. EncInv /\ DecInv /\ PacketInv
  BY DEF StreamInv
<1>2. /\ dispatch # <<>> /\ decPc = "dispatch" /\ dispatch' = Tail(dispatch) /\ buf' = buf
      /\ got' = Append(got, Head(dispatch)) /\ decFinished' = decFinished /\ threw' = threw
  BY DEF OnPose
<1>3. /\ pushed' = pushed /\ encFinished' = encFinished /\ transport' = transport
      /\ chunks' = chunks /\ next' = next /\ offered' = offered
  BY DEF encVars, reasmVars
<1>4. PICK m \in 0 .. Len(chunks) : \E k \in Nat : DecAt(m, k)
  BY <1>1 DEF DecInv
<1>5. PICK k \in Nat : DecAt(m, k)
  BY <1>4
<1>6. /\ k + 1 <= EndAt(m) /\ Head(dispatch) = k + 1 /\ EndAt(m) <= pushed
      /\ EndAt(m) \in Nat /\ pushed \in Nat /\ IsRun(dispatch, k, EndAt(m))
      /\ IsRun(Tail(dispatch), k + 1, EndAt(m))
  BY <1>1, <1>2, <1>5, RunHead, Chunks DEF DecAt
<1>7. ~ decFinished /\ got \in Seq(Nat) /\ transport \in {"pipe", "datagrams"}
  BY <1>1, <1>2 DEF DecInv, DecTypes
<1>8. got' = Append(got, k + 1) /\ Newest' = k + 1
  <2>1. got' = Append(got, k + 1)
    BY <1>2, <1>6
  <2>2. got' # <<>> /\ got'[Len(got')] = k + 1
    BY <1>7, <2>1
  <2> QED BY <2>1, <2>2 DEF Newest
<1>9. CASE transport = "pipe"
  <2>1. offered = Absent /\ Newest <= k /\ (~ threw => Newest = k)
    BY <1>5, <1>9 DEF DecAt, PipeAt
  <2>2. UpTo = Newest /\ Settled = Newest /\ UpTo' = k + 1 /\ Settled' = k + 1
    BY <1>2, <1>3, <1>7, <1>8, <1>9, <2>1 DEF UpTo, Settled, PacketBegun
  <2>3. Newest \in Nat
    BY <1>1, NewestNat DEF DecInv
  <2>4. k + 1 \in UpTo + 1 .. pushed
    BY <1>6, <2>1, <2>2, <2>3
  <2> QED BY <1>2, <1>3, <1>7, <1>8, <1>9, <2>1, <2>2, <2>4 DEF Channel!Deliver
<1>10. CASE transport = "datagrams"
  <2>1. offered # Absent /\ buf = <<>>
    BY <1>2, <1>5, <1>10 DEF DecAt, DatagramAt
  <2>2. /\ m = DueAt /\ EndAt(m - 1) \in Nat /\ EndAt(next) \in Nat
        /\ EndAt(next) <= EndAt(m - 1) /\ EndAt(m - 1) <= k
        /\ PacketBegun <=> EndAt(m - 1) < k
        /\ PacketBegun => Newest = k
    BY <1>5, <1>10, <2>1, BegunIs
  <2>3. UpTo \in Nat /\ UpTo <= k
    BY <1>7, <1>10, <2>2, SettledIs DEF UpTo
  <2>4. PacketBegun'
    <3>1. Len(Tail(dispatch)) = EndAt(m) - (k + 1)
      BY <1>6 DEF IsRun
    <3>2. IsFrame(chunks[m], EndAt(m - 1), EndAt(m)) /\ offered = chunks[m]
      <4>1. OfferInv /\ DueAt \in 1 .. Len(chunks)
        BY <1>1, <2>1, NoWrap DEF StreamInv, OfferInv
      <4> QED BY <1>1, <2>1, <2>2, <4>1, Chunks DEF OfferInv
    <3>3. offered[1] = EndAt(m) - EndAt(m - 1)
      BY <3>2 DEF IsFrame
    <3>4. Len(dispatch') < offered[1]
      BY <1>2, <1>6, <2>2, <3>1, <3>3
    <3> QED BY <1>2, <1>3, <2>1, <3>4 DEF PacketBegun
  <2>5. UpTo' = k + 1
    BY <1>2, <1>7, <1>8, <2>4 DEF UpTo
  <2>6. Settled' = Settled
    BY <1>2, <1>3, <1>7, <1>10 DEF Settled, LastPose
  <2>7. k + 1 \in UpTo + 1 .. pushed
    BY <1>6, <2>3
  <2> QED BY <1>2, <1>3, <1>7, <1>8, <1>10, <2>5, <2>6, <2>7 DEF Channel!Deliver
<1> QED BY <1>7, <1>9, <1>10

LEMMA SentinelMaps ==
  ASSUME StreamInv, ParseSentinel, UNCHANGED <<encVars, transport, fed, reasmVars, offered>>
  PROVE  Channel!End
<1>1. EncInv /\ DecInv /\ PacketInv /\ OfferInv
  BY DEF StreamInv
<1>2. /\ decPc = "parse" /\ IsSentinel /\ HeaderArrived
      /\ got' = got /\ decFinished' = TRUE /\ threw' = threw
  BY DEF ParseSentinel, IsSentinel
<1>3. pushed' = pushed /\ encFinished' = encFinished /\ transport' = transport
  BY DEF encVars
<1>4. PICK i \in 1 .. Len(chunks) : AtHead(i)
  BY <1>1, <1>2, HeadChunk
<1>5. encFinished /\ i = Len(chunks) /\ EndAt(i - 1) = EndAt(i)
  BY <1>1, <1>2, <1>4, HeadIsFrame DEF DecInv
<1>6. EndAt(i) = pushed
  BY <1>1, <1>5, Chunks
<1>7. transport = "pipe" /\ ~ threw => UpTo = pushed
  <2>1. transport = "pipe" /\ ~ threw => Newest = pushed /\ offered = Absent /\ ~ decFinished
    BY <1>4, <1>5, <1>6 DEF AtHead
  <2> QED BY <2>1 DEF UpTo, Settled, PacketBegun
<1>8. UpTo' = pushed /\ Settled' = pushed
  BY <1>2, <1>3 DEF UpTo, Settled
<1> QED BY <1>2, <1>3, <1>5, <1>7, <1>8 DEF Channel!End

LEMMA DecoderMaps ==
  ASSUME StreamInv, DecoderRuns
  PROVE  [Channel!Next]_(Channel!vars)
<1>1. EncInv /\ DecInv /\ PacketInv /\ OfferInv
  BY DEF StreamInv
<1>2. /\ UNCHANGED <<encVars, transport, fed, reasmVars, offered>> /\ Decoder
      /\ pushed' = pushed /\ encFinished' = encFinished /\ transport' = transport
      /\ next' = next /\ chunks' = chunks /\ offered' = offered
  BY DEF DecoderRuns, encVars, reasmVars
<1>3. CASE ParseChunk \/ ParseWaits \/ ChunkDispatched
  <2>1. decFinished' = decFinished /\ got' = got /\ threw' = threw
    BY <1>3 DEF ParseChunk, ParseWaits, ChunkDispatched
  <2>2. PacketBegun' = PacketBegun
    <3>1. CASE ParseWaits \/ ChunkDispatched
      BY <1>2, <3>1 DEF ParseWaits, ChunkDispatched, PacketBegun
    <3>2. CASE ParseChunk /\ offered = Absent
      BY <1>2, <3>2 DEF PacketBegun
    <3>3. CASE ParseChunk /\ offered # Absent
      <4>1. /\ HeaderArrived /\ decPc = "parse" /\ dispatch' = SubSeq(buf, 3, 2 + buf[2])
            /\ ChunkArrived
        BY <3>3 DEF ParseChunk, ChunkArrived
      <4>2. PICK i \in 1 .. Len(chunks) : AtHead(i)
        BY <1>1, <4>1, HeadChunk
      <4>3. buf # <<>> /\ buf = offered
        <5>1. i = DueAt /\ buf = chunks[i]
          BY <1>1, <3>3, <4>2 DEF AtHead, OfferInv
        <5> QED BY <1>1, <3>3, <4>1, <5>1 DEF OfferInv, HeaderArrived
      <4>4. IsRun(dispatch', EndAt(i - 1), EndAt(i)) /\ buf[1] = EndAt(i) - EndAt(i - 1)
            /\ EndAt(i - 1) \in Nat /\ EndAt(i) \in Nat
        <5>1. Len(chunks[i]) <= Len(buf)
          BY <1>1, <4>1, <4>2, HeadIsFrame DEF ChunkArrived, DecInv
        <5> QED BY <1>1, <4>1, <4>2, <5>1, HeadIsFrame DEF DecInv
      <4>5. ~ (Len(dispatch') < offered'[1])
        BY <1>2, <4>3, <4>4 DEF IsRun
      <4> QED BY <4>3, <4>5 DEF PacketBegun
    <3> QED BY <1>3, <3>1, <3>2, <3>3
  <2>3. Settled' = Settled /\ UpTo' = UpTo
    BY <1>2, <2>1, <2>2, MapIdle DEF LastPose
  <2> QED BY <1>2, <2>1, <2>3 DEF Channel!vars
<1>4. CASE OnPose
  BY <1>2, <1>4, OnPoseMaps DEF Channel!Next
<1>5. CASE ParseSentinel
  BY <1>2, <1>5, SentinelMaps DEF Channel!Next
<1> QED BY <1>2, <1>3, <1>4, <1>5 DEF Decoder

\* A delivery that returns settles what came.
LEMMA ReturnMaps ==
  ASSUME StreamInv, DeliverReturns
  PROVE  Channel!Settle
<1>1. EncInv /\ DecInv /\ PacketInv /\ OfferInv
  BY DEF StreamInv
<1>2. /\ decPc = "idle" /\ transport = "datagrams" /\ offered # Absent /\ offered' = Absent
      /\ UNCHANGED <<encVars, decVars, transport, fed>> /\ next' = DueAt
  BY DeliverReturnsStep DEF DeliverReturns, Delivery
<1>3. /\ pushed' = pushed /\ encFinished' = encFinished /\ transport' = transport
      /\ chunks' = chunks /\ got' = got /\ threw' = threw /\ decFinished' = decFinished
  BY <1>2 DEF encVars, decVars
<1>4. UpTo' = Settled'
  BY <1>2 DEF UpTo, PacketBegun
<1>5. Settled' = UpTo
  <2>1. CASE decFinished
    BY <1>3, <2>1 DEF Settled, UpTo
  <2>2. CASE ~ decFinished
    <3>1. PICK m \in 0 .. Len(chunks) : \E k \in Nat : DecAt(m, k)
      BY <1>1 DEF DecInv
    <3>2. PICK k \in Nat : DecAt(m, k)
      BY <3>1
    <3>3. buf = <<>> /\ dispatch = <<>> /\ ~ (encFinished /\ m = Len(chunks))
      BY <1>1, <1>2, <2>2, <3>2 DEF DecAt, DatagramAt, DecInv, DecTypes
    <3>4. /\ m = DueAt /\ EndAt(m - 1) \in Nat /\ m \in 1 .. Len(chunks)
          /\ PacketBegun <=> EndAt(m - 1) < k
          /\ PacketBegun => Newest = k
      <4>1. m - 1 \in 0 .. Len(chunks)
        BY <1>2, <3>2, <3>3, BegunIs
      <4> QED BY <1>2, <3>2, <3>3, <4>1, BegunIs
    <3>5. k = EndAt(m) /\ EndAt(m) \in Nat
      BY <1>1, <3>2, <3>3, RunLength, Chunks DEF DecAt
    <3>6. EndAt(m - 1) < EndAt(m)
      <4>1. EndAt(m - 1) # EndAt(m)
        BY <1>1, <3>3, <3>4, Chunks
      <4>2. EndAt(m - 1) <= EndAt(m)
        <5>1. m - 1 \in 0 .. Len(chunks) /\ m - 1 <= m
          BY <3>4
        <5> QED BY <1>1, <5>1, Chunks
      <4> QED BY <3>4, <3>5, <4>1, <4>2
    <3>7. UpTo = EndAt(m)
      BY <2>2, <3>4, <3>5, <3>6 DEF UpTo
    <3>8. LastPose(m)' = EndAt(m)
      <4>1. m # 0 /\ ~ (Finished = 1 /\ m = Len(chunks))
        BY <3>3, <3>4 DEF Finished
      <4> QED BY <1>3, <4>1 DEF EndAt, EndOf, LastPose
    <3>9. Settled' = LastPose(m)'
      BY <1>2, <1>3, <2>2, <3>4 DEF Settled, LastPose
    <3> QED BY <3>7, <3>8, <3>9
  <2> QED BY <2>1, <2>2
<1> QED BY <1>3, <1>4, <1>5 DEF Channel!Settle

\* An exception of on_pose ends the attempt.
LEMMA ThrowMaps ==
  ASSUME StreamInv, ConsumerThrows
  PROVE  Channel!Fail
<1>1. /\ OnPoseThrows /\ UNCHANGED <<encVars, transport, fed>>
      /\ threw' = TRUE /\ got' = got /\ decFinished' = decFinished
  BY DEF ConsumerThrows, OnPoseThrows
<1>2. next' = next /\ offered' = Absent
  <2>1. CASE transport = "pipe" /\ UNCHANGED <<reasmVars, offered>>
    <3>1. offered = Absent
      BY <2>1 DEF StreamInv, OfferInv
    <3> QED BY <2>1, <3>1 DEF reasmVars
  <2>2. CASE Delivery("threw")
    BY <1>1, <2>2, DatagramThrowsStep DEF Delivery
  <2> QED BY <2>1, <2>2 DEF ConsumerThrows
<1>3. /\ pushed' = pushed /\ encFinished' = encFinished /\ transport' = transport
      /\ chunks' = chunks
  BY <1>1 DEF encVars
<1>4. Settled' = Settled
  BY <1>1, <1>2, <1>3 DEF Settled, LastPose, Newest
<1>5. UpTo' = Settled'
  BY <1>2 DEF UpTo, PacketBegun
<1> QED BY <1>1, <1>3, <1>4, <1>5 DEF Channel!Fail

\* Until on_pose throws, poses come in order and at most once over either transport,
\* on a pipe without a gap, and only poses that were pushed. After it has thrown a
\* pipe skips poses, and a network repeats them: a packet that on_deliver left with an
\* exception may come again, one it returned from never. The end comes only after
\* finish(), on a pipe without failures after the last pose.
THEOREM StreamIsChannel == Spec => ImplementsChannel
<1>1. Init => Channel!Init
  BY ChannelInit
<1>2. ASSUME StreamInv, [Next]_vars
      PROVE  [Channel!Next]_(Channel!vars)
  <2>0. EncInv /\ DecInv /\ OfferInv
    BY <1>2 DEF StreamInv
  <2>1. CASE Produce
    BY <1>2, <2>1, EncoderMaps
  <2>2. CASE ReadPipe
    <3>1. /\ UNCHANGED <<encVars, transport, reasmVars, offered>> /\ transport = "pipe"
          /\ \E bytes : DecoderFeed(bytes)
      BY <2>2 DEF ReadPipe
    <3>2. offered = Absent /\ offered' = Absent
      BY <2>0, <3>1 DEF OfferInv
    <3>3. /\ pushed' = pushed /\ encFinished' = encFinished /\ transport' = transport
          /\ chunks' = chunks /\ next' = next /\ PacketBegun' = PacketBegun
          /\ decFinished' = decFinished /\ got' = got /\ threw' = threw
      BY <3>1, <3>2 DEF encVars, reasmVars, DecoderFeed, PacketBegun
    <3>4. Settled' = Settled /\ UpTo' = UpTo
      BY <3>3, MapIdle DEF LastPose
    <3> QED BY <3>3, <3>4 DEF Channel!vars
  <2>3. CASE Reassemble
    <3>1. /\ UNCHANGED <<encVars, decVars, transport, fed, offered>> /\ next' = next
      BY <1>2, <2>3, SilentStep DEF Reassemble, StreamInv
    <3>2. /\ pushed' = pushed /\ encFinished' = encFinished /\ transport' = transport
          /\ chunks' = chunks /\ next' = next /\ PacketBegun' = PacketBegun
          /\ decFinished' = decFinished /\ got' = got /\ threw' = threw
      BY <3>1 DEF encVars, decVars, PacketBegun
    <3>3. Settled' = Settled /\ UpTo' = UpTo
      BY <3>2, MapIdle DEF LastPose
    <3> QED BY <3>2, <3>3 DEF Channel!vars
  <2>4. CASE CallDeliver
    <3>1. /\ UNCHANGED <<encVars, transport, fed, reasmVars>> /\ offered = Absent
          /\ \E bytes : DecoderFeed(bytes)
      BY <2>4 DEF CallDeliver
    <3>2. ~ PacketBegun /\ ~ PacketBegun'
      <4>1. StreamInv'
        BY <1>2, <2>4, CallDeliverStep
      <4>2. PICK i \in 1 .. Len(chunks) : offered' = chunks[i] /\ DecoderFeed(chunks[i])
        BY <2>4 DEF CallDeliver
      <4>3. chunks[i] \in Seq(Nat) /\ Len(chunks[i]) >= 2
        BY <2>0, ChunkHasHeader
      <4>5. buf' = buf \o chunks[i] /\ buf \in Seq(Nat)
        BY <2>0, <4>2 DEF DecoderFeed, DecInv, DecTypes
      <4>6. Len(buf') > 0
        BY <4>3, <4>5
      <4>7. buf' # <<>>
        BY <4>6
      <4> QED BY <3>1, <4>7 DEF PacketBegun
    <3>3. /\ pushed' = pushed /\ encFinished' = encFinished /\ transport' = transport
          /\ chunks' = chunks /\ next' = next
          /\ decFinished' = decFinished /\ got' = got /\ threw' = threw
      BY <3>1 DEF encVars, reasmVars, DecoderFeed
    <3>4. Settled' = Settled /\ UpTo' = UpTo
      <4>1. PacketBegun' = PacketBegun
        BY <3>2 DEF PacketBegun
      <4> QED BY <3>3, <4>1, MapIdle DEF LastPose
    <3> QED BY <3>3, <3>4 DEF Channel!vars
  <2>5. CASE DeliverReturns
    BY <1>2, <2>5, ReturnMaps DEF Channel!Next
  <2>6. CASE DecoderRuns
    BY <1>2, <2>6, DecoderMaps
  <2>7. CASE ConsumerThrows
    BY <1>2, <2>7, ThrowMaps DEF Channel!Next
  <2>8. CASE UNCHANGED vars
    <3>1. /\ pushed' = pushed /\ encFinished' = encFinished /\ transport' = transport
          /\ chunks' = chunks /\ next' = next /\ PacketBegun' = PacketBegun
          /\ decFinished' = decFinished /\ got' = got /\ threw' = threw
      BY <2>8 DEF vars, encVars, decVars, reasmVars, PacketBegun
    <3>2. Settled' = Settled /\ UpTo' = UpTo
      BY <3>1, MapIdle DEF LastPose
    <3> QED BY <3>1, <3>2 DEF Channel!vars
  <2> QED BY <1>2, <2>1, <2>2, <2>3, <2>4, <2>5, <2>6, <2>7, <2>8 DEF Next
<1> QED BY <1>1, <1>2, StreamInvariant, PTL DEF Spec, ImplementsChannel, Channel!Spec

=============================================================================
