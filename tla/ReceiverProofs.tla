--------------------------- MODULE ReceiverProofs ---------------------------
(***************************************************************************)
(* Theorems about the two parts that make sense of what comes from         *)
(* outside: PacketReassembler, for every window, every range of sequence   *)
(* numbers and every client, throwing or not; and Container, for every     *)
(* block size, every limit of the decoder, every count and however well    *)
(* the payloads are coded.                                                 *)
(***************************************************************************)
EXTENDS PacketReassembler, Container, FiniteSetTheorems, SequenceTheorems, WellFoundedInduction,
        TLAPS

USE ReassemblerAssumption

(***************************************************************************)
(* The inductive invariant.                                                *)
(***************************************************************************)

\* In the middle of a draining or flushing call the awaited packet itself may
\* still be held; in every other state what is held lies strictly ahead.
FrontierInv ==
  /\ \A s \in Held : s >= next
  /\ pc \in {"idle", "close", "closeJump"} => \A s \in Held : s > next
  /\ pc \in {"closeJump", "flushJump"} => Held # {}

SizeInv ==
  /\ BufferBounded
  /\ jumps + Cardinality(Held) <= Window + 1

\* Every accepted packet of this lap lies behind the awaited number.
AcceptedBehind ==
  \A i \in 1 .. Len(log) :
    log[i].kind = "deliver" /\ SameLap(log, i, Len(log) + 1) => log[i].seq < next

-----------------------------------------------------------------------------
\* A nonempty set of sequence numbers has a least element, so Min is one.
LEMMA MinIsLeast ==
  ASSUME NEW S \in SUBSET Seqs, S # {}
  PROVE  Min(S) \in S /\ \A t \in S : Min(S) <= t
<1>1. S \subseteq Nat
  BY DEF Seqs
<1>2. PICK x \in S : \A y \in S : ~(<<y, x>> \in OpToRel(<, Nat))
  BY <1>1, NatLessThanWellFounded, WFMin
<1>3. ASSUME NEW y \in S
      PROVE  x <= y
  <2>1. y \in Nat /\ x \in Nat
    BY <1>1
  <2>2. y < x => <<y, x>> \in OpToRel(<, Nat)
    BY <2>1 DEF OpToRel
  <2>3. ~(y < x)
    BY <1>2, <2>2, Zenon
  <2>. QED
    BY <2>1, <2>3
<1>. QED
  BY <1>3 DEF Min

LEMMA HeldIsFinite ==
  IsFiniteSet(Held) /\ Cardinality(Held) \in Nat
<1>1. IsFiniteSet(Seqs)
  BY FS_Interval DEF Seqs
<1>2. Held \in SUBSET Seqs
  BY DEF Held
<1>3. IsFiniteSet(Held)
  BY <1>1, <1>2, FS_Subset
<1>. QED
  BY <1>3, FS_CardinalityType

LEMMA EarliestIsLeast ==
  ASSUME Held # {}
  PROVE  Earliest \in Held /\ Earliest \in Seqs /\ \A t \in Held : Earliest <= t
BY MinIsLeast DEF Earliest, Held

\* Erasing an entry of pending_, and buffering one.
LEMMA Erasing ==
  ASSUME TypeOK, NEW s \in Held, pending' = [pending EXCEPT ![s] = Absent]
  PROVE  /\ Held' = Held \ {s}
         /\ Cardinality(Held') = Cardinality(Held) - 1
         /\ Cardinality(Held') \in Nat
<1>1. Held' = Held \ {s}
  BY DEF Held, TypeOK
<1>. QED
  BY <1>1, HeldIsFinite, FS_RemoveElement, FS_CardinalityType

LEMMA Buffering ==
  ASSUME TypeOK, NEW s \in Seqs, NEW payload \in Payloads,
         pending' = [pending EXCEPT ![s] = payload]
  PROVE  /\ Held' = Held \union {s}
         /\ Cardinality(Held') \in Nat
         /\ Cardinality(Held') <= Cardinality(Held) + 1
<1>1. Held' = Held \union {s}
  BY DEF Held, TypeOK, ReassemblerAssumption
<1>2. IsFiniteSet(Held) /\ Cardinality(Held) \in Nat
  BY HeldIsFinite
<1>3. /\ IsFiniteSet(Held \union {s})
      /\ Cardinality(Held \union {s}) = Cardinality(Held)
         \/ Cardinality(Held \union {s}) = Cardinality(Held) + 1
  BY <1>2, FS_AddElement
<1>4. Cardinality(Held') = Cardinality(Held) \/ Cardinality(Held') = Cardinality(Held) + 1
  BY <1>1, <1>3
<1>. QED
  BY <1>1, <1>2, <1>4

-----------------------------------------------------------------------------
\* One callback to on_deliver keeps the types, whether it returns or throws.
LEMMA DeliverTypes ==
  ASSUME TypeOK, NEW s \in Seqs, NEW payload \in Payloads \union {Absent},
         NEW after \in {"drain", "closeDrain", "flush"},
         DeliverAndAdvance(s, payload, after)
  PROVE  /\ next' \in Seqs
         /\ log' \in Seq(Events)
         /\ pc' \in {"idle", after}
         /\ threw' \in BOOLEAN
<1>1. (s + 1) % SeqMod \in Seqs
  BY DEF Seqs, ReassemblerAssumption
<1>2. Event("deliver", s, 1, payload) \in Events /\ Event("threw", s, 0, payload) \in Events
  BY DEF Event, Events, ReassemblerAssumption
<1>3. \A e \in Events : Append(log, e) \in Seq(Events)
  BY DEF TypeOK
<1>4. CASE DeliverReturns(s, payload, after)
  BY <1>1, <1>2, <1>3, <1>4 DEF DeliverReturns, TypeOK
<1>5. CASE DeliverThrows(s, payload)
  BY <1>2, <1>3, <1>5 DEF DeliverThrows, TypeOK
<1>. QED
  BY <1>4, <1>5 DEF DeliverAndAdvance

\* Every step keeps the types; the frontier facts are what makes a lost range
\* one of nonnegative length.
LEMMA TypeStep ==
  ASSUME TypeOK, FrontierInv, [Next]_vars
  PROVE  TypeOK'
<1>1. ASSUME NEW s \in Seqs, NEW payload \in Payloads, FeedExpected(s, payload)
      PROVE  TypeOK'
  <2>1. DeliverAndAdvance(s, payload, "drain")
    BY <1>1 DEF FeedExpected
  <2>. QED
    BY <1>1, <2>1, DeliverTypes DEF FeedExpected, TypeOK
<1>2. ASSUME NEW s \in Seqs, NEW payload \in Payloads, FeedAhead(s, payload)
      PROVE  TypeOK'
  BY <1>2 DEF FeedAhead, TypeOK
<1>3. CASE Drain
  <2>1. DeliverAndAdvance(next, pending[next], pc) /\ pc \in {"drain", "closeDrain"}
    BY <1>3 DEF Drain
  <2>2. next \in Seqs /\ pending[next] \in Payloads \union {Absent}
    BY DEF TypeOK
  <2>. QED
    BY <1>3, <2>1, <2>2, DeliverTypes DEF Drain, TypeOK
<1>4. CASE ReportGap
  <2>1. Held # {}
    BY <1>4 DEF ReportGap, MustJump, WindowExceeded
  <2>2. Earliest > next => Event("lost", next, Earliest - next, Absent) \in Events
    BY <2>1, EarliestIsLeast DEF Event, Events, Seqs, TypeOK, ReassemblerAssumption
  <2>. QED
    BY <1>4, <2>2 DEF ReportGap, TypeOK, MustJump
<1>5. CASE Jump
  <2>1. Earliest \in Seqs
    BY <1>5, EarliestIsLeast DEF Jump, FrontierInv
  <2>2. DeliverAndAdvance(Earliest, pending[Earliest],
                          IF pc = "closeJump" THEN "closeDrain" ELSE "flush")
    BY <1>5 DEF Jump
  <2>3. pending[Earliest] \in Payloads \union {Absent}
    BY <2>1 DEF TypeOK
  <2>. QED
    BY <1>5, <2>1, <2>2, <2>3, DeliverTypes DEF Jump, TypeOK
<1>6. CASE DrainDone \/ LoopDone \/ Flush
  BY <1>6 DEF DrainDone, LoopDone, Flush, TypeOK
<1>7. CASE UNCHANGED vars
  BY <1>7 DEF vars, TypeOK
<1>. QED
  BY <1>1, <1>2, <1>3, <1>4, <1>5, <1>6, <1>7
  DEF Next, Feed, Handler, FeedInvalid, FeedStale

-----------------------------------------------------------------------------
\* Nothing is ever held behind the frontier.
LEMMA FrontierStep ==
  ASSUME TypeOK, FrontierInv, [Next]_vars
  PROVE  FrontierInv'
<1>. Held \subseteq 0 .. SeqMod - 1 /\ next \in 0 .. SeqMod - 1
  BY DEF Held, Seqs, TypeOK
<1>1. ASSUME NEW s \in Seqs, NEW payload \in Payloads, FeedExpected(s, payload)
      PROVE  FrontierInv'
  <2>1. Held' = Held /\ pc = "idle" /\ s = next
    BY <1>1 DEF FeedExpected, CanFeed, Held
  <2>2. CASE DeliverReturns(s, payload, "drain")
    BY <2>1, <2>2 DEF DeliverReturns, FrontierInv, ReassemblerAssumption
  <2>3. CASE DeliverThrows(s, payload)
    BY <2>1, <2>3 DEF DeliverThrows, FrontierInv
  <2>. QED
    BY <1>1, <2>2, <2>3 DEF FeedExpected, DeliverAndAdvance
<1>2. ASSUME NEW s \in Seqs, NEW payload \in Payloads, FeedAhead(s, payload)
      PROVE  FrontierInv'
  <2>1. Held' = Held \union {s}
    BY <1>2, Buffering DEF FeedAhead
  <2>. QED
    BY <1>2, <2>1 DEF FeedAhead, CanFeed, FrontierInv
<1>3. CASE Drain
  <2>1. Held' = Held \ {next} /\ next \in Held /\ pc \in {"drain", "closeDrain"}
    BY <1>3, Erasing DEF Drain
  <2>2. CASE DeliverReturns(next, pending[next], pc)
    BY <2>1, <2>2 DEF DeliverReturns, FrontierInv, ReassemblerAssumption
  <2>3. CASE DeliverThrows(next, pending[next])
    BY <2>1, <2>3 DEF DeliverThrows, FrontierInv
  <2>. QED
    BY <1>3, <2>2, <2>3 DEF Drain, DeliverAndAdvance
<1>4. CASE DrainDone
  BY <1>4 DEF DrainDone, FrontierInv, Held
<1>5. CASE ReportGap
  BY <1>5 DEF ReportGap, MustJump, WindowExceeded, FrontierInv, Held
<1>6. CASE Jump
  <2>1. Earliest \in Held /\ \A t \in Held : Earliest <= t
    BY <1>6, EarliestIsLeast DEF Jump, FrontierInv
  <2>2. Held' = Held \ {Earliest}
    BY <1>6, <2>1, Erasing DEF Jump
  <2>3. Earliest >= next /\ (pc = "closeJump" => Earliest > next)
    BY <2>1 DEF FrontierInv
  <2>4. CASE DeliverReturns(Earliest, pending[Earliest],
                            IF pc = "closeJump" THEN "closeDrain" ELSE "flush")
    BY <2>1, <2>2, <2>4 DEF DeliverReturns, FrontierInv, ReassemblerAssumption
  <2>5. CASE DeliverThrows(Earliest, pending[Earliest])
    BY <2>1, <2>2, <2>3, <2>5 DEF DeliverThrows, FrontierInv
  <2>. QED
    BY <1>6, <2>4, <2>5 DEF Jump, DeliverAndAdvance
<1>7. CASE LoopDone
  BY <1>7 DEF LoopDone, MustJump, FrontierInv, Held
<1>8. CASE Flush
  BY <1>8 DEF Flush, FrontierInv, Held
<1>9. CASE UNCHANGED vars
  BY <1>9 DEF vars, FrontierInv, Held
<1>. QED
  BY <1>1, <1>2, <1>3, <1>4, <1>5, <1>6, <1>7, <1>8, <1>9
  DEF Next, Feed, Handler, FeedInvalid, FeedStale

\* What is held plus the turns already taken never exceeds the window by more
\* than the one packet that made this call start closing it.
LEMMA SizeStep ==
  ASSUME TypeOK, FrontierInv, SizeInv, [Next]_vars
  PROVE  SizeInv'
<1>. USE DEF SizeInv, BufferBounded
<1>. Cardinality(Held) \in Nat /\ jumps \in Nat /\ Window \in Nat
  BY HeldIsFinite DEF TypeOK, ReassemblerAssumption
<1>1. ASSUME NEW s \in Seqs, NEW payload \in Payloads, FeedExpected(s, payload)
      PROVE  SizeInv'
  <2>1. Held' = Held /\ pc = "idle" /\ pc' \in {"idle", "drain"} /\ jumps' = 0
    BY <1>1 DEF FeedExpected, CanFeed, Held, DeliverAndAdvance, DeliverReturns,
                DeliverThrows
  <2>. QED
    BY <2>1
<1>2. ASSUME NEW s \in Seqs, NEW payload \in Payloads, FeedAhead(s, payload)
      PROVE  SizeInv'
  <2>1. /\ Cardinality(Held') \in Nat
        /\ Cardinality(Held') <= Cardinality(Held) + 1
    BY <1>2, Buffering DEF FeedAhead
  <2>. QED
    BY <1>2, <2>1 DEF FeedAhead, CanFeed
<1>3. CASE Drain
  <2>1. /\ Cardinality(Held') = Cardinality(Held) - 1
        /\ pc \in {"drain", "closeDrain"} /\ pc' \in {"idle", pc}
        /\ jumps' = jumps
    BY <1>3, Erasing DEF Drain, DeliverAndAdvance, DeliverReturns, DeliverThrows
  <2>. QED
    BY <2>1
<1>4. CASE DrainDone
  BY <1>4 DEF DrainDone, Held
<1>5. CASE ReportGap
  BY <1>5 DEF ReportGap, MustJump, Held
<1>6. CASE Jump
  <2>1. Earliest \in Held
    BY <1>6, EarliestIsLeast DEF Jump, FrontierInv
  <2>2. /\ Cardinality(Held') = Cardinality(Held) - 1
        /\ pc' \in {"idle", "closeDrain", "flush"}
        /\ jumps' = jumps + 1
    BY <1>6, <2>1, Erasing DEF Jump, DeliverAndAdvance, DeliverReturns, DeliverThrows
  <2>. QED
    BY <1>6, <2>2 DEF Jump
<1>7. CASE LoopDone
  <2>1. Held' = Held /\ jumps' = jumps /\ pc' = "idle"
    BY <1>7 DEF LoopDone, Held
  <2>2. Cardinality(Held) <= Window
    <3>1. CASE Held = {}
      BY <3>1, FS_EmptySet
    <3>2. CASE Held # {}
      BY <1>7, <3>2 DEF LoopDone, MustJump, WindowExceeded
    <3>. QED
      BY <3>1, <3>2
  <2>. QED
    BY <2>1, <2>2
<1>8. CASE Flush
  BY <1>8 DEF Flush, Held
<1>9. CASE UNCHANGED vars
  BY <1>9 DEF vars, Held
<1>. QED
  BY <1>1, <1>2, <1>3, <1>4, <1>5, <1>6, <1>7, <1>8, <1>9
  DEF Next, Feed, Handler, FeedInvalid, FeedStale

-----------------------------------------------------------------------------
\* A callback that starts where the log ended extends a tiled log.
LEMMA TilesAppend ==
  ASSUME NEW l \in Seq(Events), NEW e \in Events
  PROVE  /\ Tiles(l) /\ e.seq = LastEnd(l) => Tiles(Append(l, e))
         /\ LastEnd(Append(l, e)) = EndOf(e)
<1>1. /\ Len(Append(l, e)) = Len(l) + 1 /\ Len(l) \in Nat
      /\ \A i \in 1 .. Len(l) : Append(l, e)[i] = l[i]
      /\ Append(l, e)[Len(l) + 1] = e
      /\ Append(l, e) # <<>>
      /\ l = <<>> <=> Len(l) = 0
  OBVIOUS
<1>2. ASSUME Tiles(l), e.seq = LastEnd(l), NEW i \in 1 .. Len(l) + 1
      PROVE  Append(l, e)[i].seq = IF i = 1 THEN 0 ELSE EndOf(Append(l, e)[i - 1])
  <2>1. CASE i = Len(l) + 1
    BY <1>1, <1>2, <2>1 DEF LastEnd
  <2>2. CASE i = 1 /\ i # Len(l) + 1
    BY <1>1, <1>2, <2>2 DEF Tiles
  <2>3. CASE i # 1 /\ i # Len(l) + 1
    <3>1. i \in 1 .. Len(l) /\ i - 1 \in 1 .. Len(l)
      BY <1>1, <2>3
    <3>. QED
      BY <1>1, <1>2, <2>3, <3>1 DEF Tiles
  <2>. QED
    BY <2>1, <2>2, <2>3
<1>3. LastEnd(Append(l, e)) = EndOf(e)
  BY <1>1 DEF LastEnd
<1>. QED
  BY <1>1, <1>2, <1>3 DEF Tiles

\* A call of on_deliver for the packet the log ends at keeps the log tiled.
LEMMA DeliverTiles ==
  ASSUME TypeOK, NEW s \in Seqs, NEW payload \in Payloads \union {Absent},
         NEW after \in {"drain", "closeDrain", "flush"},
         DeliverAndAdvance(s, payload, after),
         ~threw => Tiles(log) /\ LastEnd(log) = s
  PROVE  CallbacksTile'
<1>1. CASE DeliverReturns(s, payload, after)
  <2>1. /\ Event("deliver", s, 1, payload) \in Events
        /\ Event("deliver", s, 1, payload).seq = s
        /\ EndOf(Event("deliver", s, 1, payload)) = (s + 1) % SeqMod
    BY DEF Event, Events, EndOf, ReassemblerAssumption
  <2>2. log \in Seq(Events)
    BY DEF TypeOK
  <2>3. ~threw => Tiles(log') /\ LastEnd(log') = next'
    BY <1>1, <2>1, <2>2, TilesAppend DEF DeliverReturns
  <2>. QED
    BY <1>1, <2>3 DEF DeliverReturns, CallbacksTile
<1>2. CASE DeliverThrows(s, payload)
  BY <1>2 DEF DeliverThrows, CallbacksTile
<1>. QED
  BY <1>1, <1>2 DEF DeliverAndAdvance

LEMMA TileStep ==
  ASSUME TypeOK, FrontierInv, CallbacksTile, [Next]_vars
  PROVE  CallbacksTile'
<1>. next \in Seqs /\ log \in Seq(Events)
  BY DEF TypeOK
<1>1. ASSUME NEW s \in Seqs, NEW payload \in Payloads, FeedExpected(s, payload)
      PROVE  CallbacksTile'
  BY <1>1, DeliverTiles DEF FeedExpected, CanFeed, CallbacksTile
<1>2. ASSUME NEW s \in Seqs, NEW payload \in Payloads, FeedAhead(s, payload)
      PROVE  CallbacksTile'
  BY <1>2 DEF FeedAhead, CanFeed, CallbacksTile
<1>3. CASE Drain
  <2>1. DeliverAndAdvance(next, pending[next], pc) /\ pc \in {"drain", "closeDrain"}
    BY <1>3 DEF Drain
  <2>2. pending[next] \in Payloads \union {Absent}
    BY DEF TypeOK
  <2>. QED
    BY <2>1, <2>2, DeliverTiles DEF CallbacksTile
<1>4. CASE ReportGap
  <2>1. Held # {} /\ Held' = Held /\ Earliest' = Earliest
    BY <1>4 DEF ReportGap, MustJump, WindowExceeded, Held, Earliest
  <2>2. Earliest \in Seqs /\ Earliest >= next
    BY <2>1, EarliestIsLeast DEF FrontierInv
  <2>3. /\ pc \in {"close", "flush"} /\ pc' \in {"closeJump", "flushJump"}
        /\ threw' = threw
    BY <1>4 DEF ReportGap, MustJump
  <2>4. CASE Earliest > next
    <3>. DEFINE e == Event("lost", next, Earliest - next, Absent)
    <3>1. e \in Events /\ EndOf(e) = Earliest /\ e.seq = next
      BY <2>2, <2>4 DEF Event, Events, EndOf, Seqs, ReassemblerAssumption
    <3>2. log' = Append(log, e)
      BY <1>4, <2>4 DEF ReportGap
    <3>. HIDE DEF e
    <3>3. ~threw => Tiles(log') /\ LastEnd(log') = Earliest
      BY <2>3, <3>1, <3>2, TilesAppend DEF CallbacksTile
    <3>. QED
      BY <2>1, <2>3, <3>3 DEF CallbacksTile
  <2>5. CASE ~(Earliest > next)
    <3>1. Earliest = next
      BY <2>2, <2>5 DEF Seqs
    <3>2. log' = log
      BY <1>4, <2>5 DEF ReportGap
    <3>. QED
      BY <2>1, <2>3, <3>1, <3>2 DEF CallbacksTile
  <2>. QED
    BY <2>4, <2>5
<1>5. CASE Jump
  <2>1. /\ pc \in {"closeJump", "flushJump"}
        /\ DeliverAndAdvance(Earliest, pending[Earliest],
                             IF pc = "closeJump" THEN "closeDrain" ELSE "flush")
    BY <1>5 DEF Jump
  <2>2. Earliest \in Seqs /\ pending[Earliest] \in Payloads \union {Absent}
    BY <2>1, EarliestIsLeast DEF FrontierInv, TypeOK
  <2>. QED
    BY <2>1, <2>2, DeliverTiles DEF CallbacksTile
<1>6. CASE DrainDone \/ LoopDone \/ Flush
  BY <1>6 DEF DrainDone, LoopDone, Flush, CallbacksTile
<1>7. CASE UNCHANGED vars
  <2>1. Held' = Held
    BY <1>7 DEF vars, Held
  <2>. QED
    BY <1>7, <2>1 DEF vars, CallbacksTile, Earliest
<1>. QED
  BY <1>1, <1>2, <1>3, <1>4, <1>5, <1>6, <1>7
  DEF Next, Feed, Handler, FeedInvalid, FeedStale

-----------------------------------------------------------------------------
LEMMA LogTypes ==
  ASSUME TypeOK
  PROVE  \A i \in 1 .. Len(log) : log[i].seq \in Nat
<1>1. \A i \in 1 .. Len(log) : log[i] \in Events
  BY DEF TypeOK
<1>. QED
  BY <1>1 DEF Events, Seqs, ReassemblerAssumption

\* Appending a callback to a log whose accepted packets all lie before it.
LEMMA OrderAppend ==
  ASSUME TypeOK, AcceptedInOrder, NEW e \in Events, log' = Append(log, e),
         \/ e.kind = "lost"
         \/ \A i \in 1 .. Len(log) :
              log[i].kind = "deliver" /\ SameLap(log, i, Len(log) + 1)
                => log[i].seq < e.seq
  PROVE  AcceptedInOrder'
<1>1. /\ Len(log') = Len(log) + 1 /\ Len(log) \in Nat
      /\ \A i \in 1 .. Len(log) : log'[i] = log[i]
      /\ log'[Len(log) + 1] = e
  BY DEF TypeOK
<1>2. SUFFICES ASSUME NEW i \in 1 .. Len(log) + 1, NEW j \in 1 .. Len(log) + 1,
                      i < j, SameLap(log', i, j),
                      log'[i].kind = "deliver", log'[j].kind # "lost"
               PROVE  log'[i].seq < log'[j].seq
  BY <1>1 DEF AcceptedInOrder
<1>3. i \in 1 .. Len(log) /\ SameLap(log, i, j)
  BY <1>1, <1>2 DEF SameLap
<1>4. CASE j \in 1 .. Len(log)
  BY <1>1, <1>2, <1>3, <1>4 DEF AcceptedInOrder
<1>5. CASE j = Len(log) + 1
  BY <1>1, <1>2, <1>3, <1>5
<1>. QED
  BY <1>1, <1>4, <1>5

LEMMA BehindAppend ==
  ASSUME TypeOK, AcceptedBehind, next' \in Seqs, NEW e \in Events,
         log' = Append(log, e),
         e.kind # "deliver" => next' = next,
         e.kind = "deliver" => e.seq >= next /\ e.count = 1 /\ next' = EndOf(e)
  PROVE  AcceptedBehind'
<1>1. /\ Len(log') = Len(log) + 1 /\ Len(log) \in Nat
      /\ \A i \in 1 .. Len(log) : log'[i] = log[i]
      /\ log'[Len(log) + 1] = e
  BY DEF TypeOK
<1>2. SUFFICES ASSUME NEW i \in 1 .. Len(log) + 1, log'[i].kind = "deliver",
                      SameLap(log', i, Len(log) + 2)
               PROVE  log'[i].seq < next'
  BY <1>1 DEF AcceptedBehind
<1>3. e.seq \in Seqs /\ next \in Seqs /\ next' \in Seqs
  BY DEF Events, TypeOK
<1>4. e.kind = "deliver" => EndOf(e) # 0
  BY <1>1, <1>2 DEF SameLap
<1>5. e.kind = "deliver" => next' = e.seq + 1
  <2>. SUFFICES ASSUME e.kind = "deliver" PROVE next' = e.seq + 1
    OBVIOUS
  <2>1. next' = (e.seq + 1) % SeqMod /\ next' # 0
    BY <1>4 DEF EndOf
  <2>2. e.seq + 1 \in 1 .. SeqMod /\ SeqMod \in Nat \ {0}
    BY <1>3 DEF Seqs, ReassemblerAssumption
  <2>3. e.seq + 1 # SeqMod
    BY <2>1, <2>2
  <2>. QED
    BY <2>1, <2>2, <2>3
<1>6. next' >= next
  BY <1>3, <1>5 DEF Seqs
<1>7. CASE i = Len(log) + 1
  BY <1>1, <1>2, <1>3, <1>5, <1>7 DEF Seqs
<1>8. CASE i \in 1 .. Len(log)
  <2>1. SameLap(log, i, Len(log) + 1)
    BY <1>1, <1>2, <1>8 DEF SameLap
  <2>2. log[i].kind = "deliver" /\ log[i].seq < next
    BY <1>1, <1>2, <1>8, <2>1 DEF AcceptedBehind
  <2>3. log[i].seq \in Nat
    BY <1>8, LogTypes
  <2>. QED
    BY <1>1, <1>3, <1>6, <1>8, <2>2, <2>3 DEF Seqs
<1>. QED
  BY <1>7, <1>8

\* One call of on_deliver at or ahead of the awaited number.
LEMMA DeliverOrder ==
  ASSUME TypeOK, AcceptedInOrder, AcceptedBehind,
         NEW s \in Seqs, s >= next, NEW payload \in Payloads \union {Absent},
         NEW after \in {"drain", "closeDrain", "flush"},
         DeliverAndAdvance(s, payload, after)
  PROVE  AcceptedInOrder' /\ AcceptedBehind'
<1>1. next' \in Seqs
  BY DeliverTypes
<1>2. \A i \in 1 .. Len(log) :
        log[i].kind = "deliver" /\ SameLap(log, i, Len(log) + 1) => log[i].seq < s
  <2>1. \A i \in 1 .. Len(log) : log[i].seq \in Nat
    BY LogTypes
  <2>. QED
    BY <2>1 DEF AcceptedBehind, Seqs, TypeOK
<1>3. CASE DeliverReturns(s, payload, after)
  <2>. DEFINE e == Event("deliver", s, 1, payload)
  <2>1. e \in Events /\ e.kind = "deliver" /\ e.seq = s /\ e.count = 1
    BY DEF Event, Events, ReassemblerAssumption
  <2>2. log' = Append(log, e) /\ next' = EndOf(e)
    BY <1>3, <2>1 DEF DeliverReturns, EndOf
  <2>. HIDE DEF e
  <2>. QED
    BY <1>1, <1>2, <2>1, <2>2, OrderAppend, BehindAppend
<1>4. CASE DeliverThrows(s, payload)
  <2>. DEFINE e == Event("threw", s, 0, payload)
  <2>1. e \in Events /\ e.kind = "threw" /\ e.seq = s
    BY DEF Event, Events, ReassemblerAssumption
  <2>2. log' = Append(log, e) /\ next' = next
    BY <1>4 DEF DeliverThrows
  <2>. HIDE DEF e
  <2>. QED
    BY <1>1, <1>2, <2>1, <2>2, OrderAppend, BehindAppend
<1>. QED
  BY <1>3, <1>4 DEF DeliverAndAdvance

LEMMA OrderStep ==
  ASSUME TypeOK, FrontierInv, AcceptedInOrder, AcceptedBehind, [Next]_vars
  PROVE  AcceptedInOrder' /\ AcceptedBehind'
<1>. next \in Seqs
  BY DEF TypeOK
<1>1. ASSUME NEW s \in Seqs, NEW payload \in Payloads, FeedExpected(s, payload)
      PROVE  AcceptedInOrder' /\ AcceptedBehind'
  BY <1>1, DeliverOrder DEF FeedExpected, Seqs
<1>2. CASE Drain
  <2>1. /\ DeliverAndAdvance(next, pending[next], pc) /\ pc \in {"drain", "closeDrain"}
        /\ pending[next] \in Payloads \union {Absent}
        /\ next >= next
    BY <1>2 DEF Drain, TypeOK, Seqs
  <2>. QED
    BY <2>1, DeliverOrder
<1>3. CASE ReportGap
  <2>1. Held # {}
    BY <1>3 DEF ReportGap, MustJump, WindowExceeded
  <2>2. next' = next
    BY <1>3 DEF ReportGap
  <2>3. CASE Earliest > next
    <3>. DEFINE e == Event("lost", next, Earliest - next, Absent)
    <3>1. e \in Events /\ e.kind = "lost"
      BY <2>1, <2>3, EarliestIsLeast DEF Event, Events, Seqs, ReassemblerAssumption
    <3>2. log' = Append(log, e)
      BY <1>3, <2>3 DEF ReportGap
    <3>. HIDE DEF e
    <3>. QED
      BY <2>2, <3>1, <3>2, OrderAppend, BehindAppend
  <2>4. CASE ~(Earliest > next)
    BY <1>3, <2>4 DEF ReportGap, AcceptedInOrder, AcceptedBehind
  <2>. QED
    BY <2>3, <2>4
<1>4. CASE Jump
  <2>1. Earliest \in Seqs /\ Earliest >= next
    BY <1>4, EarliestIsLeast DEF Jump, FrontierInv
  <2>2. DeliverAndAdvance(Earliest, pending[Earliest],
                          IF pc = "closeJump" THEN "closeDrain" ELSE "flush")
    BY <1>4 DEF Jump
  <2>3. pending[Earliest] \in Payloads \union {Absent}
    BY <2>1 DEF TypeOK
  <2>. QED
    BY <2>1, <2>2, <2>3, DeliverOrder
<1>5. CASE UNCHANGED <<log, next>>
  BY <1>5 DEF AcceptedInOrder, AcceptedBehind
<1>. QED
  BY <1>1, <1>2, <1>3, <1>4, <1>5
  DEF Next, Feed, Handler, FeedInvalid, FeedStale, FeedAhead, DrainDone, LoopDone,
      Flush, vars

-----------------------------------------------------------------------------
IInv ==
  /\ TypeOK
  /\ FrontierInv
  /\ SizeInv
  /\ CallbacksTile
  /\ AcceptedInOrder
  /\ AcceptedBehind

LEMMA InitEstablishes == Init => IInv
<1>. SUFFICES ASSUME Init PROVE IInv
  OBVIOUS
<1>1. Held = {} /\ Cardinality(Held) = 0
  BY FS_EmptySet DEF Init, Held
<1>2. TypeOK
  BY DEF Init, TypeOK, Seqs, ReassemblerAssumption
<1>3. FrontierInv
  BY <1>1 DEF Init, FrontierInv
<1>4. SizeInv
  BY <1>1 DEF Init, SizeInv, BufferBounded, ReassemblerAssumption
<1>5. CallbacksTile
  BY DEF Init, CallbacksTile, Tiles, LastEnd
<1>6. AcceptedInOrder /\ AcceptedBehind
  BY DEF Init, AcceptedInOrder, AcceptedBehind
<1>. QED
  BY <1>2, <1>3, <1>4, <1>5, <1>6 DEF IInv

\* The inductive invariant holds throughout every behaviour of the reassembler.
THEOREM Invariance == Spec => []IInv
<1>1. IInv /\ [Next]_vars => IInv'
  BY TypeStep, FrontierStep, SizeStep, TileStep, OrderStep DEF IInv
<1>. QED
  BY <1>1, InitEstablishes, PTL DEF Spec

\* The reassembler stays within its types: no call makes a lost range longer
\* than the sequence space, whatever arrives.
THEOREM TypeCorrect == Spec => []TypeOK
<1>1. IInv => TypeOK
  BY DEF IInv
<1>. QED
  BY <1>1, Invariance, PTL

\* Delivered packets and reported losses tile the sequence space as long as no
\* callback throws.
THEOREM LossAccounting == Spec => []CallbacksTile
<1>1. IInv => CallbacksTile
  BY DEF IInv
<1>. QED
  BY <1>1, Invariance, PTL

\* No packet is ever left in pending_ where drain_pending cannot find it.
THEOREM NoStrandedPacket == Spec => []NothingStranded
<1>1. IInv => NothingStranded
  BY DEF IInv, FrontierInv, NothingStranded
<1>. QED
  BY <1>1, Invariance, PTL

\* Memory and work per call stay within the window, throwing callbacks included.
THEOREM BoundedResources == Spec => []ResourcesBounded
<1>1. IInv => ResourcesBounded
  <2>. SUFFICES ASSUME IInv PROVE BufferBounded /\ WorkBounded
    BY DEF ResourcesBounded
  <2>1. jumps \in Nat /\ Cardinality(Held) \in Nat /\ Window \in Nat
    BY HeldIsFinite DEF IInv, TypeOK, ReassemblerAssumption
  <2>. QED
    BY <2>1 DEF IInv, SizeInv, WorkBounded
<1>. QED
  BY <1>1, Invariance, PTL

\* Whatever on_deliver accepted is final, also for a client whose callbacks
\* throw now and then.
THEOREM AcceptedIsFinal == Spec => []AcceptedInOrder
<1>1. IInv => AcceptedInOrder
  BY DEF IInv
<1>. QED
  BY <1>1, Invariance, PTL
-----------------------------------------------------------------------------
(***************************************************************************)
(* The container. A layout is a sequence that a shorter one may be a front *)
(* of; a reader is followed through it position by position, and what it   *)
(* makes of it is either what was written or nothing.                      *)
(***************************************************************************)

\* A set of numbers has a least one.
LEMMA Least ==
  ASSUME NEW S, S \subseteq Nat, S # {}
  PROVE  \E m \in S : \A k \in S : m <= k
<1>1. PICK m \in S : \A k \in S : <<k, m>> \notin OpToRel(<, Nat)
  BY NatLessThanWellFounded, WFMin, Zenon
<1>2. ASSUME NEW k \in S PROVE m <= k
  <2>1. k \in Nat /\ m \in Nat
    OBVIOUS
  <2>2. ~ (k < m)
    BY <1>1, <2>1 DEF OpToRel
  <2> QED BY <2>1, <2>2
<1> QED BY <1>2

\* A set of numbers that has 0, and with each number the next, has all.
LEMMA Climb ==
  ASSUME NEW n \in Nat, NEW S, 0 \in S, \A l \in 1 .. n : l - 1 \in S => l \in S
  PROVE  \A l \in 0 .. n : l \in S
<1> DEFINE Out == {l \in 0 .. n : l \notin S}
<1> SUFFICES ASSUME Out # {} PROVE FALSE
  OBVIOUS
<1>1. PICK m \in Out : \A l \in Out : m <= l
  <2>1. Out \subseteq Nat
    OBVIOUS
  <2> HIDE DEF Out
  <2> QED BY <2>1, Least
<1>2. m \in 1 .. n /\ m - 1 \in 0 .. n /\ ~ (m <= m - 1)
  OBVIOUS
<1>3. m - 1 \in S
  BY <1>1, <1>2
<1> QED BY <1>1, <1>2, <1>3

\* What starts at c and goes from each value to the next by G.
Evolves(f, n, c, G) == f[0] = c /\ \A l \in 1 .. n : f[l] = G[<<l, f[l - 1]>>]

\* A function on 0 .. n may be given by its first value and the step from one value to
\* the next.
LEMMA Evolution ==
  ASSUME NEW n \in Nat, NEW S, NEW c \in S, NEW G \in [(1 .. n) \X S -> S]
  PROVE  \E f \in [0 .. n -> S] : Evolves(f, n, c, G)
<1> DEFINE Upto(m, f) == f \in [0 .. m -> S] /\ f[0] = c
                         /\ \A l \in 1 .. m : f[l] = G[<<l, f[l - 1]>>]
           T == {m \in 0 .. n : \E f : Upto(m, f)}
<1>1. 0 \in T
  <2>1. Upto(0, [l \in 0 .. 0 |-> c])
    OBVIOUS
  <2> HIDE DEF Upto
  <2> QED BY <2>1
<1>2. ASSUME NEW m \in 1 .. n, m - 1 \in T PROVE m \in T
  <2>1. PICK f : Upto(m - 1, f)
    BY <1>2
  <2>2. m - 1 \in 0 .. m - 1 /\ m \in Nat /\ m # 0
    OBVIOUS
  <2> DEFINE g == [l \in 0 .. m |-> IF l = m THEN G[<<m, f[m - 1]>>] ELSE f[l]]
  <2>3. f[m - 1] \in S
    BY <2>1, <2>2
  <2>4. G[<<m, f[m - 1]>>] \in S
    BY <2>3
  <2>5. \A l \in 0 .. m : l # m => l \in 0 .. m - 1
    BY <2>2
  <2>6. g \in [0 .. m -> S]
    BY <2>1, <2>4, <2>5
  <2>7. g[0] = c
    BY <2>1, <2>2
  <2>8. ASSUME NEW l \in 1 .. m PROVE g[l] = G[<<l, g[l - 1]>>]
    <3>1. l - 1 \in 0 .. m /\ l - 1 # m /\ l \in 0 .. m
      BY <2>2
    <3>2. g[l - 1] = f[l - 1]
      BY <3>1
    <3>3. CASE l = m
      BY <3>1, <3>2, <3>3
    <3>4. CASE l # m
      <4>1. l \in 1 .. m - 1
        BY <2>2, <3>4
      <4> QED BY <2>1, <3>1, <3>2, <3>4, <4>1
    <3> QED BY <3>3, <3>4
  <2>9. Upto(m, g)
    <3> HIDE DEF g
    <3> QED BY <2>6, <2>7, <2>8
  <2> HIDE DEF Upto, g
  <2> QED BY <2>9
<1>3. n \in T
  <2> HIDE DEF T
  <2>1. \A l \in 0 .. n : l \in T
    BY <1>1, <1>2, Climb
  <2> QED BY <2>1
<1> QED BY <1>3 DEF Evolves

\* n \div b and n % b.
LEMMA DivMod ==
  ASSUME NEW n \in Int, NEW b \in Nat \ {0}
  PROVE  /\ n \div b \in Int /\ n % b \in 0 .. b - 1
         /\ n = b * (n \div b) + (n % b)
OBVIOUS

\* The powers of a base, as a function that is defined by them.
IsPowers(f, n, c) == f = CHOOSE t : t = [k \in 0 .. n |-> IF k = 0 THEN 1 ELSE c * t[k - 1]]

\* They are what the definition says, one after the other.
LEMMA PowersFrom ==
  ASSUME NEW n \in Nat, NEW c \in Nat \ {0}, NEW power, IsPowers(power, n, c)
  PROVE  /\ power \in [0 .. n -> Nat \ {0}]
         /\ power[0] = 1
         /\ \A k \in 1 .. n : power[k] = c * power[k - 1]
<1> DEFINE Eq(t) == t = [k \in 0 .. n |-> IF k = 0 THEN 1 ELSE c * t[k - 1]]
<1>1. Eq(power)
  <2> DEFINE G == [y \in (1 .. n) \X Nat |-> c * y[2]]
  <2>1. G \in [(1 .. n) \X Nat -> Nat]
    OBVIOUS
  <2>2. \A s \in 1 .. n, v \in Nat : G[<<s, v>>] = c * v
    OBVIOUS
  <2> HIDE DEF G
  <2>3. PICK t \in [0 .. n -> Nat] : Evolves(t, n, 1, G)
    <3>1. 1 \in Nat
      OBVIOUS
    <3> QED BY <2>1, <3>1, Evolution, Zenon
  <2>4. ASSUME NEW s \in 0 .. n PROVE t[s] = IF s = 0 THEN 1 ELSE c * t[s - 1]
    <3>1. CASE s # 0
      <4>1. s \in 1 .. n /\ s - 1 \in 0 .. n
        BY <3>1
      <4>2. t[s - 1] \in Nat
        BY <4>1
      <4> QED BY <2>2, <2>3, <3>1, <4>1, <4>2 DEF Evolves
    <3> QED BY <2>3, <3>1 DEF Evolves
  <2>5. Eq(t)
    BY <2>4
  <2>6. power = CHOOSE u : Eq(u)
    BY DEF IsPowers
  <2> QED BY <2>5, <2>6, Zenon
<1>2. \A k \in 0 .. n : power[k] = IF k = 0 THEN 1 ELSE c * power[k - 1]
  BY <1>1
<1>3. power[0] = 1
  BY <1>2
<1>4. ASSUME NEW k \in 1 .. n PROVE power[k] = c * power[k - 1]
  <2>1. k \in 0 .. n /\ k # 0
    OBVIOUS
  <2> QED BY <1>2, <2>1, Zenon
<1> DEFINE Good == {k \in 0 .. n : power[k] \in Nat \ {0}}
<1>5. 0 \in Good
  BY <1>3
<1>6. ASSUME NEW s \in 1 .. n, s - 1 \in Good PROVE s \in Good
  <2>1. s \in 0 .. n /\ power[s - 1] \in Nat \ {0}
    BY <1>6
  <2>2. c * power[s - 1] \in Nat \ {0}
    BY <2>1
  <2> QED BY <1>4, <2>1, <2>2
<1>7. \A s \in 0 .. n : s \in Good
  <2> HIDE DEF Good
  <2> QED BY <1>5, <1>6, Climb
<1>8. power \in [0 .. n -> Nat \ {0}]
  <2>1. \A s \in 0 .. n : power[s] \in Nat \ {0}
    BY <1>7
  <2>2. power = [k \in 0 .. n |-> IF k = 0 THEN 1 ELSE c * power[k - 1]]
    BY <1>1
  <2>3. power = [k \in 0 .. n |-> power[k]]
    BY <2>2
  <2> QED BY <2>1, <2>3
<1> QED BY <1>3, <1>4, <1>8

-----------------------------------------------------------------------------
(* Arrays one after the other.                                               *)

\* Ends is what its definition says.
LEMMA EndsAre ==
  ASSUME NEW lengths \in Seq(Nat)
  PROVE  /\ Ends(lengths) \in [0 .. Len(lengths) -> Nat]
         /\ Ends(lengths)[0] = 0
         /\ \A k \in 1 .. Len(lengths) : Ends(lengths)[k] = Ends(lengths)[k - 1] + lengths[k]
<1> DEFINE n == Len(lengths)
           Eq(f) == f = [k \in 0 .. n |-> IF k = 0 THEN 0 ELSE f[k - 1] + lengths[k]]
           end == CHOOSE f : Eq(f)
<1>1. Ends(lengths) = end
  BY Zenon DEF Ends
<1>2. n \in Nat
  OBVIOUS
<1>3. PICK f \in [0 .. n -> Nat] : Eq(f)
  <2> DEFINE G == [y \in (1 .. n) \X Nat |-> y[2] + lengths[y[1]]]
  <2>1. G \in [(1 .. n) \X Nat -> Nat]
    OBVIOUS
  <2>2. \A k \in 1 .. n, v \in Nat : G[<<k, v>>] = v + lengths[k]
    OBVIOUS
  <2> HIDE DEF G
  <2>3. PICK f \in [0 .. n -> Nat] : Evolves(f, n, 0, G)
    <3>1. 0 \in Nat
      OBVIOUS
    <3> QED BY <1>2, <2>1, <3>1, Evolution, Zenon
  <2>4. ASSUME NEW k \in 0 .. n
        PROVE  f[k] = IF k = 0 THEN 0 ELSE f[k - 1] + lengths[k]
    <3>1. CASE k # 0
      <4>1. k \in 1 .. n /\ k - 1 \in 0 .. n
        BY <1>2, <3>1
      <4>2. f[k - 1] \in Nat
        BY <2>3, <4>1
      <4>3. f[k] = G[<<k, f[k - 1]>>]
        BY <2>3, <4>1 DEF Evolves
      <4> HIDE DEF n
      <4> QED BY <2>2, <3>1, <4>1, <4>2, <4>3, Zenon
    <3> QED BY <2>3, <3>1 DEF Evolves
  <2> HIDE DEF n
  <2>5. Eq(f)
    BY <2>3, <2>4
  <2> QED BY <2>3, <2>5, Zenon
<1>4. Eq(end)
  BY <1>3, Zenon
<1> HIDE DEF end
<1>5. end[0] = 0
  BY <1>2, <1>4
<1>6. ASSUME NEW k \in 1 .. n PROVE end[k] = end[k - 1] + lengths[k]
  <2>1. k \in 0 .. n /\ k # 0
    BY <1>2
  <2> HIDE DEF n
  <2> QED BY <1>4, <2>1, Zenon
<1> DEFINE S == {k \in 0 .. n : end[k] \in Nat}
<1>7. \A k \in 0 .. n : k \in S
  <2>1. 0 \in S
    BY <1>2, <1>5
  <2>2. ASSUME NEW k \in 1 .. n, k - 1 \in S PROVE k \in S
    BY <1>2, <1>6, <2>2
  <2> HIDE DEF S, n
  <2> QED BY <1>2, <2>1, <2>2, Climb
<1>8. end \in [0 .. n -> Nat]
  <2>1. end = [k \in 0 .. n |-> end[k]]
    BY <1>4
  <2> QED BY <1>7, <2>1
<1> QED BY <1>1, <1>5, <1>6, <1>8 DEF n

\* j[k] is the first k arrays one after the other.
Joins(j, arrays, T) ==
  /\ j \in [0 .. Len(arrays) -> Seq(T)]
  /\ j[0] = <<>>
  /\ \A k \in 1 .. Len(arrays) : j[k] = j[k - 1] \o arrays[k]

\* What Joined returns is what a function that joins array by array ends in.
LEMMA JoinedIs ==
  ASSUME NEW T, NEW arrays \in Seq(Seq(T))
  PROVE  \E j : Joins(j, arrays, T) /\ Joined(arrays) = j[Len(arrays)]
<1> DEFINE n == Len(arrays)
           Eq(f) == f = [k \in 0 .. n |-> IF k = 0 THEN <<>> ELSE f[k - 1] \o arrays[k]]
           joined == CHOOSE f : Eq(f)
<1>1. Joined(arrays) = joined[n]
  BY Zenon DEF Joined
<1>2. n \in Nat
  OBVIOUS
<1>3. PICK f \in [0 .. n -> Seq(T)] : Eq(f)
  <2> DEFINE G == [y \in (1 .. n) \X Seq(T) |-> y[2] \o arrays[y[1]]]
  <2>1. G \in [(1 .. n) \X Seq(T) -> Seq(T)]
    <3>1. \A k \in 1 .. n, v \in Seq(T) : v \o arrays[k] \in Seq(T)
      BY ConcatProperties
    <3> QED BY <3>1
  <2>2. \A k \in 1 .. n, v \in Seq(T) : G[<<k, v>>] = v \o arrays[k]
    OBVIOUS
  <2> HIDE DEF G
  <2>3. PICK f \in [0 .. n -> Seq(T)] : Evolves(f, n, <<>>, G)
    <3>1. <<>> \in Seq(T)
      OBVIOUS
    <3> QED BY <1>2, <2>1, <3>1, Evolution, Zenon
  <2>4. ASSUME NEW k \in 0 .. n
        PROVE  f[k] = IF k = 0 THEN <<>> ELSE f[k - 1] \o arrays[k]
    <3>1. CASE k # 0
      <4>1. k \in 1 .. n /\ k - 1 \in 0 .. n
        BY <1>2, <3>1
      <4>2. f[k - 1] \in Seq(T)
        BY <2>3, <4>1
      <4>3. f[k] = G[<<k, f[k - 1]>>]
        BY <2>3, <4>1 DEF Evolves
      <4> HIDE DEF n
      <4> QED BY <2>2, <3>1, <4>1, <4>2, <4>3, Zenon
    <3> QED BY <2>3, <3>1 DEF Evolves
  <2> HIDE DEF n
  <2>5. Eq(f)
    BY <2>3, <2>4
  <2> QED BY <2>3, <2>5, Zenon
<1>4. Eq(joined)
  BY <1>3, Zenon
<1> HIDE DEF joined
<1>5. joined[0] = <<>>
  BY <1>2, <1>4
<1>6. ASSUME NEW k \in 1 .. n PROVE joined[k] = joined[k - 1] \o arrays[k]
  <2>1. k \in 0 .. n /\ k # 0
    BY <1>2
  <2> HIDE DEF n
  <2> QED BY <1>4, <2>1, Zenon
<1> DEFINE S == {k \in 0 .. n : joined[k] \in Seq(T)}
<1>7. \A k \in 0 .. n : k \in S
  <2>1. 0 \in S
    <3>1. <<>> \in Seq(T) /\ 0 \in 0 .. n
      BY <1>2
    <3> QED BY <1>5, <3>1
  <2>2. ASSUME NEW k \in 1 .. n, k - 1 \in S PROVE k \in S
    <3>1. joined[k - 1] \in Seq(T) /\ arrays[k] \in Seq(T) /\ k \in 0 .. n
      BY <1>2, <2>2
    <3>2. joined[k - 1] \o arrays[k] \in Seq(T)
      BY <3>1, ConcatProperties
    <3> QED BY <1>6, <3>1, <3>2
  <2> HIDE DEF S, n
  <2> QED BY <1>2, <2>1, <2>2, Climb
<1>8. joined \in [0 .. n -> Seq(T)]
  <2>1. joined = [k \in 0 .. n |-> joined[k]]
    BY <1>4
  <2> QED BY <1>7, <2>1
<1>9. Joins(joined, arrays, T)
  BY <1>5, <1>6, <1>8 DEF Joins, n
<1> QED BY <1>1, <1>9 DEF n

\* The k-th array is where Ends says.
LEMMA Split ==
  ASSUME NEW T, NEW cs \in Seq(Seq(T))
  PROVE  /\ Joined(cs) \in Seq(T)
         /\ Lengths(cs) \in Seq(Nat)
         /\ Total(Lengths(cs)) = Len(Joined(cs))
         /\ Columns(Joined(cs), Lengths(cs)) = {cs}
<1> DEFINE n == Len(cs)
           L == Lengths(cs)
           e == Ends(L)
<1>1. n \in Nat /\ \A k \in 1 .. n : cs[k] \in Seq(T) /\ Len(cs[k]) \in Nat
  <2>1. n \in Nat /\ \A k \in 1 .. n : cs[k] \in Seq(T)
    OBVIOUS
  <2> HIDE DEF n
  <2> QED BY <2>1, LenProperties
<1>2. L \in Seq(Nat) /\ Len(L) = n /\ DOMAIN L = 1 .. n /\ \A k \in 1 .. n : L[k] = Len(cs[k])
  <2>1. L = [k \in 1 .. n |-> Len(cs[k])]
    BY DEF Lengths
  <2> HIDE DEF L, n
  <2> QED BY <1>1, <2>1
<1> HIDE DEF n
<1>3. /\ e \in [0 .. n -> Nat]
      /\ e[0] = 0
      /\ \A k \in 1 .. n : e[k] = e[k - 1] + Len(cs[k])
  BY <1>2, EndsAre
<1>4. PICK j : Joins(j, cs, T) /\ Joined(cs) = j[n]
  BY JoinedIs DEF n
<1>5. /\ j \in [0 .. n -> Seq(T)]
      /\ j[0] = <<>>
      /\ \A k \in 1 .. n : j[k] = j[k - 1] \o cs[k]
  BY <1>4 DEF Joins, n
<1> HIDE DEF e, L
<1> DEFINE Good(k) == /\ Len(j[k]) = e[k]
                      /\ \A m \in 1 .. k : e[m] <= e[k]
                      /\ \A m \in 1 .. k : \A i \in 1 .. Len(cs[m]) : j[k][e[m - 1] + i] = cs[m][i]
           S == {k \in 0 .. n : Good(k)}
<1>6. 0 \in S
  <2>1. Len(j[0]) = 0
    BY <1>5
  <2> QED BY <1>1, <1>3, <2>1
<1>7. ASSUME NEW k \in 1 .. n, k - 1 \in S PROVE k \in S
  <2>1. k \in 0 .. n /\ k - 1 \in 0 .. n /\ Good(k - 1) /\ k \in Nat
    BY <1>1, <1>7
  <2> DEFINE q == j[k - 1]
             c == cs[k]
  <2>2. q \in Seq(T) /\ c \in Seq(T) /\ j[k] = q \o c /\ Len(q) = e[k - 1] /\ Len(q) \in Nat /\ Len(c) \in Nat
    BY <1>1, <1>3, <1>5, <2>1
  <2>3. e[k] = Len(q) + Len(c)
    BY <1>3, <2>2
  <2>4. /\ Len(q \o c) = Len(q) + Len(c)
        /\ \A i \in 1 .. Len(q) + Len(c) : (q \o c)[i] = IF i <= Len(q) THEN q[i] ELSE c[i - Len(q)]
    BY <2>2, ConcatProperties
  <2>5. ASSUME NEW m \in 1 .. k PROVE e[m] <= e[k]
    <3>1. CASE m = k
      BY <1>3, <2>1, <3>1
    <3>2. CASE m # k
      <4>1. m \in 1 .. k - 1 /\ e[m] \in Nat /\ e[k] \in Nat
        BY <1>1, <1>3, <2>1, <3>2
      <4>2. e[m] <= e[k - 1]
        BY <2>1, <4>1
      <4> QED BY <2>2, <2>3, <4>1, <4>2
    <3> QED BY <3>1, <3>2
  <2>6. ASSUME NEW m \in 1 .. k, NEW i \in 1 .. Len(cs[m])
        PROVE  (q \o c)[e[m - 1] + i] = cs[m][i]
    <3>1. m - 1 \in 0 .. n /\ e[m - 1] \in Nat /\ Len(cs[m]) \in Nat /\ m \in 1 .. n
      BY <1>1, <1>3, <2>1
    <3>2. CASE m = k
      <4>1. e[m - 1] + i = Len(q) + i /\ i \in 1 .. Len(c)
        BY <2>2, <3>2
      <4>2. ASSUME NEW x \in Nat, NEW y \in Nat, i \in 1 .. y
            PROVE  x + i \in 1 .. x + y /\ ~ (x + i <= x) /\ (x + i) - x = i
        BY <4>2
      <4>3. Len(q) + i \in 1 .. Len(q) + Len(c) /\ ~ (Len(q) + i <= Len(q)) /\ (Len(q) + i) - Len(q) = i
        BY <2>2, <4>1, <4>2, Zenon
      <4> QED BY <2>4, <3>2, <4>1, <4>3
    <3>3. CASE m # k
      <4>1. m \in 1 .. k - 1
        BY <2>1, <3>3
      <4>2. e[m] <= Len(q) /\ e[m] = e[m - 1] + Len(cs[m]) /\ q[e[m - 1] + i] = cs[m][i]
        BY <1>3, <2>1, <2>2, <3>1, <4>1
      <4>3. ASSUME NEW x \in Nat, NEW y \in Nat, NEW z \in Nat, NEW w \in Nat, z + w <= x, i \in 1 .. w
            PROVE  z + i \in 1 .. x + y /\ z + i <= x
        BY <4>3
      <4>4. e[m - 1] + Len(cs[m]) <= Len(q)
        BY <4>2
      <4>5. e[m - 1] + i \in 1 .. Len(q) + Len(c) /\ e[m - 1] + i <= Len(q)
        BY <2>2, <3>1, <4>3, <4>4, Zenon
      <4> QED BY <2>4, <4>2, <4>5
    <3> QED BY <3>2, <3>3
  <2>7. Good(k)
    BY <2>2, <2>3, <2>4, <2>5, <2>6
  <2> QED BY <2>1, <2>7
<1>8. Good(n)
  <2> HIDE DEF S
  <2>1. \A k \in 0 .. n : k \in S
    BY <1>1, <1>6, <1>7, Climb
  <2> QED BY <1>1, <2>1 DEF S
<1> DEFINE q == j[n]
<1>9. q \in Seq(T) /\ Len(q) = e[n] /\ e[n] \in Nat
  BY <1>1, <1>3, <1>5, <1>8
<1>10. ASSUME NEW k \in 1 .. n PROVE SubSeq(q, e[k - 1] + 1, e[k]) = cs[k]
  <2>1. k - 1 \in 0 .. n /\ k \in 0 .. n /\ e[k - 1] \in Nat /\ e[k] = e[k - 1] + Len(cs[k])
        /\ e[k] <= Len(q) /\ cs[k] \in Seq(T) /\ Len(cs[k]) \in Nat
    BY <1>1, <1>3, <1>8, <1>9
  <2> DEFINE a == e[k - 1]
             b == e[k]
             c == cs[k]
  <2>2. \A i \in 1 .. Len(c) : q[a + i] = c[i]
    BY <1>8
  <2>3. a \in Nat /\ b \in Nat /\ b = a + Len(c) /\ b <= Len(q) /\ c \in Seq(T) /\ Len(c) \in Nat
    BY <2>1
  <2> HIDE DEF a, b, c, q
  <2>4. \A i \in a + 1 .. b : q[i] \in T
    BY <1>9, <2>3
  <2>5. /\ SubSeq(q, a + 1, b) \in Seq(T)
        /\ Len(SubSeq(q, a + 1, b)) = IF a + 1 <= b THEN b - (a + 1) + 1 ELSE 0
        /\ \A i \in 1 .. b - (a + 1) + 1 : SubSeq(q, a + 1, b)[i] = q[(a + 1) + i - 1]
    <3>1. a + 1 \in Int /\ b \in Int
      BY <2>3
    <3> QED BY <2>4, <3>1, SubSeqProperties
  <2>6. Len(SubSeq(q, a + 1, b)) = Len(c) /\ b - (a + 1) + 1 = Len(c)
    BY <2>3, <2>5
  <2>7. ASSUME NEW i \in 1 .. Len(c) PROVE SubSeq(q, a + 1, b)[i] = c[i]
    <3>1. (a + 1) + i - 1 = a + i
      BY <2>3
    <3> QED BY <2>2, <2>5, <2>6, <3>1
  <2>8. SubSeq(q, a + 1, b) = c
    BY <2>3, <2>5, <2>6, <2>7, SeqEqual
  <2> QED BY <2>8 DEF a, b, c
<1>11. Total(L) = Len(q)
  BY <1>2, <1>9 DEF Total, e
<1>12. Columns(q, L) = {cs}
  <2>1. Columns(q, L) = {[k \in 1 .. n |-> SubSeq(q, e[k - 1] + 1, e[k])]}
    <3>1. ~ (Total(L) > Len(q))
      BY <1>9, <1>11
    <3>2. Columns(q, L) = {[k \in DOMAIN L |-> SubSeq(q, Ends(L)[k - 1] + 1, Ends(L)[k])]}
      BY <3>1, Zenon DEF Columns
    <3> QED BY <1>2, <3>2, Zenon DEF e
  <2>2. cs = [k \in 1 .. n |-> cs[k]]
    BY DEF n
  <2>3. [k \in 1 .. n |-> SubSeq(q, e[k - 1] + 1, e[k])] = [k \in 1 .. n |-> cs[k]]
    BY <1>10
  <2> QED BY <2>1, <2>2, <2>3
<1> QED BY <1>2, <1>4, <1>9, <1>11, <1>12 DEF L

\* As many numbers, and the same ones back.
LEMMA ThereAndBack ==
  ASSUME NEW s \in Seq(Int)
  PROVE  /\ ZigZags(s) \in Seq(Int)
         /\ Len(ZigZags(s)) = Len(s)
         /\ UnZigZags(ZigZags(s)) = s
<1> DEFINE n == Len(s)
           z == ZigZags(s)
<1>1. n \in Nat /\ s \in [1 .. n -> Int]
  OBVIOUS
<1>2. z = [i \in 1 .. n |-> ZigZag(s[i])]
  BY <1>1 DEF ZigZags
<1>3. ASSUME NEW v \in Int PROVE ZigZag(v) \in Int /\ UnZigZag(ZigZag(v)) = v
  BY DEF ZigZag, UnZigZag
<1> HIDE DEF n, z
<1>4. z \in [1 .. n -> Int] /\ \A i \in 1 .. n : z[i] = ZigZag(s[i])
  BY <1>1, <1>2, <1>3
<1>5. z \in Seq(Int) /\ Len(z) = n
  BY <1>1, <1>4
<1>6. UnZigZags(z) = [i \in 1 .. n |-> UnZigZag(z[i])]
  BY <1>4 DEF UnZigZags
<1>7. ASSUME NEW i \in 1 .. n PROVE UnZigZag(z[i]) = s[i]
  BY <1>1, <1>3, <1>4
<1>8. [i \in 1 .. n |-> UnZigZag(z[i])] = s
  BY <1>1, <1>7
<1> QED BY <1>5, <1>6, <1>8 DEF z, n

\* The same of several arrays.
LEMMA ZigZaggedAre ==
  ASSUME NEW cs \in Seq(Seq(Int))
  PROVE  /\ ZigZagged(cs) \in Seq(Seq(Int))
         /\ Len(ZigZagged(cs)) = Len(cs)
         /\ \A k \in 1 .. Len(cs) : ZigZagged(cs)[k] = ZigZags(cs[k])
         /\ Lengths(ZigZagged(cs)) = Lengths(cs)
<1> DEFINE n == Len(cs)
           z == ZigZagged(cs)
<1>1. n \in Nat /\ DOMAIN cs = 1 .. n /\ \A k \in 1 .. n : cs[k] \in Seq(Int)
  OBVIOUS
<1>2. z = [k \in 1 .. n |-> ZigZags(cs[k])]
  BY <1>1 DEF ZigZagged
<1> HIDE DEF n, z
<1>3. z \in [1 .. n -> Seq(Int)]
  BY <1>1, <1>2, ThereAndBack
<1>4. z \in Seq(Seq(Int)) /\ Len(z) = n /\ DOMAIN z = 1 .. n
  BY <1>1, <1>3
<1>5. \A k \in 1 .. n : z[k] = ZigZags(cs[k])
  BY <1>2
<1>6. \A k \in 1 .. n : Len(z[k]) = Len(cs[k])
  BY <1>1, <1>5, ThereAndBack
<1>7. Lengths(z) = [k \in 1 .. n |-> Len(z[k])] /\ Lengths(cs) = [k \in 1 .. n |-> Len(cs[k])]
  BY <1>1, <1>4, Zenon DEF Lengths
<1>8. Lengths(z) = Lengths(cs)
  BY <1>6, <1>7
<1> QED BY <1>4, <1>5, <1>8 DEF z, n

\* Lengths lists the length of each array.
LEMMA LengthsAre ==
  ASSUME NEW T, NEW a \in Seq(Seq(T))
  PROVE  /\ Lengths(a) \in Seq(Nat)
         /\ Len(Lengths(a)) = Len(a)
         /\ \A k \in 1 .. Len(a) : Lengths(a)[k] = Len(a[k])
<1>1. Len(a) \in Nat /\ DOMAIN a = 1 .. Len(a) /\ \A k \in 1 .. Len(a) : Len(a[k]) \in Nat
  <2>1. Len(a) \in Nat /\ DOMAIN a = 1 .. Len(a) /\ \A k \in 1 .. Len(a) : a[k] \in Seq(T)
    OBVIOUS
  <2> QED BY <2>1, LenProperties
<1>2. Lengths(a) = [k \in 1 .. Len(a) |-> Len(a[k])]
  BY <1>1 DEF Lengths
<1> QED BY <1>1, <1>2

\* What is coded: numbers, and the parts an entropy coder's output has.
Chunks == [of : Seq(Int), part : Nat, parts : Nat] \cup [of : Seq(Int), part : {"extra"}]
Units == Int \cup Chunks

\* A payload has as many units as the coder made of it, each of which knows the whole.
LEMMA CodedIs ==
  ASSUME NEW content \in Seq(Int), NEW c \in Nat
  PROVE  /\ Coded(content, c) \in Seq(Units)
         /\ Len(Coded(content, c)) = c
         /\ \A k \in 1 .. c : Coded(content, c)[k].of = content /\ Coded(content, c)[k].parts = c
<1> DEFINE f == Coded(content, c)
<1>1. f = [k \in 1 .. c |-> [of |-> content, part |-> k, parts |-> c]]
  BY DEF Coded
<1> HIDE DEF f
<1>2. ASSUME NEW k \in 1 .. c PROVE f[k] \in Units /\ f[k].of = content /\ f[k].parts = c
  <2>1. f[k] = [of |-> content, part |-> k, parts |-> c] /\ k \in Nat
    BY <1>1
  <2> QED BY <2>1 DEF Units, Chunks
<1>3. f \in [1 .. c -> Units]
  BY <1>1, <1>2
<1>4. f \in Seq(Units) /\ Len(f) = c
  BY <1>3
<1> QED BY <1>2, <1>4 DEF f

\* Behind the first pos units of s, as far as s goes, are the units of w.
At(s, pos, w) == \A i \in 1 .. Len(w) : pos + i <= Len(s) => s[pos + i] = w[i]

\* Where two parts are, the second is behind the first.
LEMMA AtConcat ==
  ASSUME NEW s \in Seq(Units), NEW pos \in Nat, NEW u \in Seq(Units), NEW v \in Seq(Units),
         At(s, pos, u \o v)
  PROVE  At(s, pos, u) /\ At(s, pos + Len(u), v)
<1> DEFINE m == Len(u)
           n == Len(v)
           uv == u \o v
<1>1. m \in Nat /\ n \in Nat
  OBVIOUS
<1>2. Len(uv) = m + n /\ \A i \in 1 .. m + n : uv[i] = IF i <= m THEN u[i] ELSE v[i - m]
  BY ConcatProperties
<1>3. \A i \in 1 .. Len(uv) : pos + i <= Len(s) => s[pos + i] = uv[i]
  BY DEF At
<1> HIDE DEF uv, m, n
<1>4. ASSUME NEW i \in 1 .. m, pos + i <= Len(s) PROVE s[pos + i] = u[i]
  <2>1. i \in 1 .. m + n /\ i <= m
    BY <1>1
  <2> QED BY <1>2, <1>3, <1>4, <2>1
<1>5. ASSUME NEW i \in 1 .. n, (pos + m) + i <= Len(s) PROVE s[(pos + m) + i] = v[i]
  <2>1. m + i \in 1 .. m + n /\ ~ (m + i <= m) /\ (m + i) - m = i /\ pos + (m + i) = (pos + m) + i
    BY <1>1
  <2>2. uv[m + i] = v[i]
    BY <1>2, <2>1
  <2>3. s[pos + (m + i)] = uv[m + i]
    BY <1>2, <1>3, <1>5, <2>1
  <2> QED BY <2>1, <2>2, <2>3
<1> QED BY <1>4, <1>5 DEF At, m, n

\* The lengths of some arrays and more arrays are theirs one after the other.
LEMMA LengthsConcat ==
  ASSUME NEW T, NEW a \in Seq(Seq(T)), NEW b \in Seq(Seq(T))
  PROVE  Lengths(a \o b) = Lengths(a) \o Lengths(b)
<1> DEFINE m == Len(a)
           n == Len(b)
           p == Lengths(a)
           q == Lengths(b)
           r == Lengths(a \o b)
<1>1. m \in Nat /\ n \in Nat
  OBVIOUS
<1>2. /\ a \o b \in Seq(Seq(T)) /\ Len(a \o b) = m + n
      /\ \A i \in 1 .. m + n : (a \o b)[i] = IF i <= m THEN a[i] ELSE b[i - m]
  BY ConcatProperties
<1>3. /\ p \in Seq(Nat) /\ Len(p) = m /\ \A k \in 1 .. m : p[k] = Len(a[k])
      /\ q \in Seq(Nat) /\ Len(q) = n /\ \A k \in 1 .. n : q[k] = Len(b[k])
  BY LengthsAre
<1>4. r \in Seq(Nat) /\ Len(r) = m + n /\ \A k \in 1 .. m + n : r[k] = Len((a \o b)[k])
  <2>1. r \in Seq(Nat) /\ Len(r) = Len(a \o b) /\ \A k \in 1 .. Len(a \o b) : r[k] = Len((a \o b)[k])
    BY <1>2, LengthsAre
  <2> QED BY <1>2, <2>1
<1> HIDE DEF m, n, p, q, r
<1>5. /\ p \o q \in Seq(Nat) /\ Len(p \o q) = m + n
      /\ \A i \in 1 .. m + n : (p \o q)[i] = IF i <= m THEN p[i] ELSE q[i - m]
  <2>1. p \in Seq(Nat) /\ q \in Seq(Nat) /\ Len(p) = m /\ Len(q) = n
    BY <1>3
  <2>2. /\ p \o q \in Seq(Nat) /\ Len(p \o q) = Len(p) + Len(q)
        /\ \A i \in 1 .. Len(p) + Len(q) : (p \o q)[i] = IF i <= Len(p) THEN p[i] ELSE q[i - Len(p)]
    BY <2>1, ConcatProperties
  <2> QED BY <2>1, <2>2
<1>6. ASSUME NEW k \in 1 .. m + n PROVE r[k] = (p \o q)[k]
  <2>1. CASE k <= m
    <3>1. k \in 1 .. m
      BY <1>1, <2>1
    <3>2. r[k] = Len((a \o b)[k]) /\ (a \o b)[k] = a[k] /\ (p \o q)[k] = p[k]
      BY <1>2, <1>4, <1>5, <2>1
    <3>3. p[k] = Len(a[k])
      BY <1>3, <3>1
    <3> QED BY <3>2, <3>3
  <2>2. CASE ~ (k <= m)
    <3>1. k - m \in 1 .. n
      BY <1>1, <2>2
    <3>2. r[k] = Len((a \o b)[k]) /\ (a \o b)[k] = b[k - m] /\ (p \o q)[k] = q[k - m]
      BY <1>2, <1>4, <1>5, <2>2
    <3>3. q[k - m] = Len(b[k - m])
      BY <1>3, <3>1
    <3> QED BY <3>2, <3>3
  <2> QED BY <2>1, <2>2
<1>7. r = p \o q
  BY <1>4, <1>5, <1>6, SeqEqual
<1> QED BY <1>7 DEF p, q, r

\* Those units are w, if they are all there.
LEMMA SliceAt ==
  ASSUME NEW s \in Seq(Units), NEW pos \in Nat, NEW w \in Seq(Units), At(s, pos, w),
         pos + Len(w) <= Len(s)
  PROVE  SubSeq(s, pos + 1, pos + Len(w)) = w
<1> DEFINE n == Len(w)
           u == SubSeq(s, pos + 1, pos + n)
<1>1. n \in Nat /\ pos + n <= Len(s)
  OBVIOUS
<1>2. \A i \in 1 .. n : pos + i <= Len(s) => s[pos + i] = w[i]
  BY DEF At
<1> HIDE DEF n, u
<1>3. PICK x \in Int, y \in Int : x = pos + 1 /\ y = pos + n
  BY <1>1
<1>4. \A i \in x .. y : s[i] \in Units
  BY <1>1, <1>3
<1>5. /\ SubSeq(s, x, y) \in Seq(Units)
      /\ Len(SubSeq(s, x, y)) = IF x <= y THEN y - x + 1 ELSE 0
      /\ \A i \in 1 .. y - x + 1 : SubSeq(s, x, y)[i] = s[x + i - 1]
  BY <1>4, SubSeqProperties
<1>6. y - x + 1 = n /\ (IF x <= y THEN y - x + 1 ELSE 0) = n /\ u = SubSeq(s, x, y)
  BY <1>1, <1>3 DEF u
<1>7. /\ u \in Seq(Units) /\ Len(u) = n
      /\ \A i \in 1 .. n : u[i] = w[i]
  <2>1. ASSUME NEW i \in 1 .. n PROVE u[i] = w[i]
    <3>1. x + i - 1 = pos + i /\ pos + i <= Len(s)
      BY <1>1, <1>3
    <3>2. u[i] = s[x + i - 1]
      BY <1>5, <1>6
    <3> QED BY <1>2, <3>1, <3>2
  <2> QED BY <1>5, <1>6, <2>1
<1>8. u = w
  BY <1>7, SeqEqual DEF n
<1> QED BY <1>8 DEF u, n

\* All of what the coder gave is decoded to what it was given.
LEMMA Recovered ==
  ASSUME NEW s \in Seq(Units), NEW pos \in Nat, NEW content \in Seq(Int), NEW c \in Nat \ {0},
         At(s, pos, Coded(content, c)), pos + c <= Len(s)
  PROVE  RangeDecode(SubSeq(s, pos + 1, pos + c), Len(content)) = content
<1> DEFINE u == SubSeq(s, pos + 1, pos + c)
<1>1. u \in Seq(Units) /\ Len(u) = c /\ u[1].of = content /\ u[1].parts = c
  <2>1. Coded(content, c) \in Seq(Units) /\ Len(Coded(content, c)) = c /\ 1 \in 1 .. c
        /\ Coded(content, c)[1].of = content /\ Coded(content, c)[1].parts = c
    BY CodedIs
  <2>2. u = Coded(content, c)
    BY <2>1, SliceAt
  <2> QED BY <2>1, <2>2
<1> HIDE DEF u
<1>3. u # <<>>
  BY <1>1
<1>4. RangeDecode(u, Len(content)) = SubSeq(content, 1, Len(content))
  BY <1>1, <1>3 DEF RangeDecode
<1>5. SubSeq(content, 1, Len(content)) = content
  BY SubSeqFull
<1> QED BY <1>4, <1>5 DEF u

\* A result is one item if all is well, and nothing otherwise.
Yields(result, ok, item) == result = IF ok THEN {item} ELSE {}

\* A payload with its two lengths in front.
LEMMA FramedIs ==
  ASSUME NEW flat \in Seq(Int), NEW c \in Nat \ {0}
  PROVE  Framed(flat, c) \in Seq(Units) /\ Len(Framed(flat, c)) = 2 + c
<1> DEFINE h == <<Len(flat), c>>
<1>1. h \in Seq(Units) /\ Len(h) = 2
  <2>1. Len(flat) \in Units /\ c \in Units
    BY DEF Units
  <2> QED BY <2>1
<1>2. Coded(flat, c) \in Seq(Units) /\ Len(Coded(flat, c)) = c
  BY CodedIs
<1> HIDE DEF h
<1> QED BY <1>1, <1>2, ConcatProperties DEF Framed, h

\* A payload is read whole, or nothing is: when it ends early or is too long.
LEMMA PayloadIs ==
  ASSUME NEW s \in Seq(Units), NEW pos \in Nat, NEW flat \in Seq(Int), NEW c \in Nat \ {0},
         At(s, pos, Framed(flat, c))
  PROVE  Yields(Payload(s, pos), pos + (2 + c) <= Len(s) /\ Len(flat) <= MaxDecoded,
                [flat |-> flat, next |-> pos + (2 + c)])
<1> DEFINE h == <<Len(flat), c>>
<1>1. h \in Seq(Units) /\ Len(h) = 2 /\ h[1] = Len(flat) /\ h[2] = c
  <2>1. Len(flat) \in Units /\ c \in Units
    BY DEF Units
  <2> QED BY <2>1
<1>2. Coded(flat, c) \in Seq(Units)
  BY CodedIs
<1>3. At(s, pos, h) /\ At(s, pos + 2, Coded(flat, c))
  <2> HIDE DEF h
  <2>1. Framed(flat, c) = h \o Coded(flat, c)
    BY Zenon DEF Framed, h
  <2>2. At(s, pos, h \o Coded(flat, c))
    BY <2>1
  <2> QED BY <1>1, <1>2, <2>2, AtConcat
<1> HIDE DEF h
<1>4. ASSUME pos + 2 <= Len(s) PROVE s[pos + 1] = Len(flat) /\ s[pos + 2] = c
  <2>1. 1 \in 1 .. Len(h) /\ 2 \in 1 .. Len(h) /\ pos + 1 <= Len(s)
    BY <1>1, <1>4
  <2> QED BY <1>1, <1>3, <1>4, <2>1 DEF At
<1>5. Len(flat) \in Nat /\ Len(s) \in Nat /\ MaxDecoded \in Nat
  BY ContainerAssumption
<1>6. CASE pos + 2 + c <= Len(s) /\ Len(flat) <= MaxDecoded
  <2>1. pos + 2 <= Len(s) /\ c <= Len(s) - pos - 2
    BY <1>5, <1>6
  <2>2. s[pos + 1] = Len(flat) /\ s[pos + 2] = c
    BY <1>4, <2>1
  <2>3. ~ (pos + 2 > Len(s) \/ s[pos + 2] > Len(s) - pos - 2 \/ s[pos + 1] > MaxDecoded)
    BY <1>5, <1>6, <2>1, <2>2
  <2>4. Payload(s, pos) = {[flat |-> RangeDecode(SubSeq(s, pos + 3, pos + 2 + s[pos + 2]), s[pos + 1]),
                            next |-> pos + 2 + s[pos + 2]]}
    BY <2>3, Zenon DEF Payload
  <2>5. RangeDecode(SubSeq(s, pos + 2 + 1, pos + 2 + c), Len(flat)) = flat
    BY <1>3, <1>6, Recovered
  <2>6. pos + 2 + 1 = pos + 3 /\ pos + 2 + c = pos + (2 + c)
    OBVIOUS
  <2>7. Payload(s, pos) = {[flat |-> flat, next |-> pos + (2 + c)]}
    BY <2>2, <2>4, <2>5, <2>6
  <2> QED BY <1>6, <2>6, <2>7 DEF Yields
<1>7. CASE ~ (pos + 2 + c <= Len(s) /\ Len(flat) <= MaxDecoded)
  <2>1. pos + 2 > Len(s) \/ s[pos + 2] > Len(s) - pos - 2 \/ s[pos + 1] > MaxDecoded
    <3>1. CASE pos + 2 <= Len(s)
      BY <1>4, <1>5, <1>7, <3>1
    <3> QED BY <1>5, <3>1
  <2>2. Payload(s, pos) = {}
    BY <2>1, Zenon DEF Payload
  <2>3. pos + 2 + c = pos + (2 + c)
    OBVIOUS
  <2> QED BY <1>7, <2>2, <2>3 DEF Yields
<1> QED BY <1>6, <1>7
-----------------------------------------------------------------------------
(* What the transforms find.                                                 *)

\* The model's columns are sequences of numbers.
LEMMA ColumnIs ==
  ASSUME NEW f \in Int, NEW n \in Nat
  PROVE  Column(f, n) \in Seq(Int) /\ Len(Column(f, n)) = n
<1>1. Column(f, n) \in [1 .. n -> Int]
  BY DEF Column
<1> QED BY <1>1

\* Rounded up.
LEMMA CeilDivIs ==
  ASSUME NEW n \in Nat, NEW d \in Nat \ {0}
  PROVE  CeilDiv(n, d) \in Nat /\ CeilDiv(n, d) <= n
<1> DEFINE m == n + d - 1
<1>1. m \in Nat
  OBVIOUS
<1> DEFINE x == m \div d
           y == d * x
<1>2. x \in Int /\ m % d \in 0 .. d - 1 /\ m = y + (m % d)
  BY <1>1, DivMod
<1>3. x >= 0
  BY <1>1
<1>4. x <= n
  <2> SUFFICES ASSUME x >= n + 1 PROVE FALSE
    BY <1>2
  <2>1. y >= d * (n + 1)
    BY <1>2
  <2>2. d * (n + 1) = d * n + d
    OBVIOUS
  <2>3. d * n >= n
    OBVIOUS
  <2> DEFINE z == d * n
  <2> HIDE DEF z
  <2>4. z \in Int
    BY DEF z
  <2>5. y >= z + d /\ z >= n /\ m >= y
    <3>1. y \in Int
      BY <1>2
    <3> HIDE DEF y, m
    <3> QED BY <1>2, <2>1, <2>2, <2>3, <3>1 DEF z
  <2> QED BY <2>4, <2>5, <1>2
<1> QED BY <1>2, <1>3, <1>4 DEF CeilDiv

\* The powers of two the levels are counted with are positive.
LEMMA TwoToIs ==
  /\ TwoTo \in [0 .. MaxLevels -> Nat \ {0}]
  /\ TwoTo[0] = 1
<1>1. MaxLevels \in Nat
  BY ContainerAssumption
<1>2. IsPowers(TwoTo, MaxLevels, 2)
  BY Zenon DEF TwoTo, IsPowers
<1>3. 2 \in Nat \ {0}
  OBVIOUS
<1> QED BY <1>1, <1>2, <1>3, PowersFrom, Zenon

\* There are so many levels that one value is left, and no more.
LEMMA LevelsAre ==
  ASSUME NEW n \in Counts
  PROVE  Levels(n) \in 0 .. MaxLevels
<1> DEFINE Fits == {l \in 0 .. MaxLevels : TwoTo[l] >= n}
<1>1. n \in Nat /\ MaxLevels \in Nat /\ n <= TwoTo[MaxLevels]
  BY ContainerAssumption, TwoToIs
<1>2. PICK m \in Fits : \A k \in Fits : m <= k
  <2>1. Fits \subseteq Nat /\ MaxLevels \in Fits
    BY <1>1, TwoToIs
  <2> HIDE DEF Fits
  <2> QED BY <2>1, Least
<1>3. m \in 0 .. MaxLevels /\ TwoTo[m] >= n /\ (m = 0 \/ TwoTo[m - 1] < n)
  <2>1. CASE m # 0
    <3>1. m - 1 \in 0 .. MaxLevels /\ ~ (m <= m - 1)
      BY <1>1, <2>1
    <3>2. ~ (TwoTo[m - 1] >= n) /\ TwoTo[m - 1] \in Nat
      BY <1>2, <3>1, TwoToIs
    <3> QED BY <1>1, <3>2
  <2> QED BY <2>1
<1> QED BY <1>3 DEF Levels

\* A lift has a number of pairs on each of its levels.
LEMMA PairsAre ==
  ASSUME NEW n \in Counts
  PROVE  LevelPairs(n, Levels(n)) \in [1 .. Levels(n) -> Nat]
<1> DEFINE v == Levels(n)
<1>1. v \in 0 .. MaxLevels /\ MaxLevels \in Nat
  BY LevelsAre, ContainerAssumption
<1> HIDE DEF v
<1>2. ASSUME NEW l \in 1 .. v PROVE TwoTo[v] \div TwoTo[l] \in Nat
  <2>1. l \in 0 .. MaxLevels
    BY <1>1
  <2> DEFINE a == TwoTo[v]
             b == TwoTo[l]
  <2>2. a \in Nat \ {0} /\ b \in Nat \ {0}
    BY <1>1, <2>1, TwoToIs
  <2> HIDE DEF a, b
  <2>3. a \div b \in Nat
    BY <2>2
  <2> QED BY <2>3 DEF a, b
<1> QED BY <1>2 DEF LevelPairs, v

\* A lift of n values, whatever it found.
LiftOf(r, n, q) ==
  LET levels == Levels(n)
      pairs == LevelPairs(n, levels)
      blocks == [l \in 1 .. levels |-> CeilDiv(pairs[l], LiftBlock)]
  IN  /\ r = [length |-> n, quant |-> q, base |-> r.base,
              ratios |-> r.ratios, offsets |-> r.offsets, residuals |-> r.residuals]
      /\ r.base \in Seq(Int) /\ Len(r.base) = IF n > 0 THEN 1 ELSE 0
      /\ r.ratios \in Seq(Seq(Int)) /\ Lengths(r.ratios) = blocks
      /\ r.offsets \in Seq(Seq(Int)) /\ Lengths(r.offsets) = blocks
      /\ r.residuals \in Seq(Seq(Int)) /\ Lengths(r.residuals) = pairs

\* The lift the model writes has the shape of one.
LEMMA LiftIs ==
  ASSUME NEW n \in Counts, NEW q \in {1, 3}
  PROVE  LiftOf(Lift(n, q), n, q)
<1> DEFINE levels == Levels(n)
           pairs == LevelPairs(n, levels)
           blocks == [l \in 1 .. levels |-> CeilDiv(pairs[l], LiftBlock)]
           ratios == [l \in 1 .. levels |-> Column(l, CeilDiv(pairs[l], LiftBlock))]
           offsets == [l \in 1 .. levels |-> Column(5 + l, CeilDiv(pairs[l], LiftBlock))]
           residuals == [l \in 1 .. levels |-> Column(10 + l, pairs[l])]
           r == Lift(n, q)
<1>1. levels \in Nat /\ pairs \in [1 .. levels -> Nat] /\ n \in Nat
  BY LevelsAre, PairsAre, ContainerAssumption
<1>2. r = [length |-> n, quant |-> q, base |-> IF n > 0 THEN <<-8>> ELSE <<>>,
           ratios |-> ratios, offsets |-> offsets, residuals |-> residuals]
  BY Zenon DEF Lift
<1> HIDE DEF levels, pairs, r
<1>3. blocks \in [1 .. levels -> Nat]
  BY <1>1, CeilDivIs, ContainerAssumption
<1> HIDE DEF blocks
<1>4. ratios \in Seq(Seq(Int)) /\ Lengths(ratios) = blocks
  <2>1. ASSUME NEW l \in 1 .. levels PROVE ratios[l] \in Seq(Int) /\ Len(ratios[l]) = blocks[l]
    <3>1. l \in Int /\ blocks[l] \in Nat /\ ratios[l] = Column(l, blocks[l])
      BY <1>1, <1>3 DEF blocks
    <3> HIDE DEF ratios
    <3> QED BY <3>1, ColumnIs
  <2>2. ratios \in [1 .. levels -> Seq(Int)] /\ DOMAIN ratios = 1 .. levels
    BY <2>1
  <2> HIDE DEF ratios
  <2>3. Lengths(ratios) = [l \in 1 .. levels |-> Len(ratios[l])]
    BY <2>2 DEF Lengths
  <2> QED BY <1>1, <1>3, <2>1, <2>2, <2>3
<1>5. offsets \in Seq(Seq(Int)) /\ Lengths(offsets) = blocks
  <2>1. ASSUME NEW l \in 1 .. levels PROVE offsets[l] \in Seq(Int) /\ Len(offsets[l]) = blocks[l]
    <3>1. 5 + l \in Int /\ blocks[l] \in Nat /\ offsets[l] = Column(5 + l, blocks[l])
      BY <1>1, <1>3 DEF blocks
    <3> HIDE DEF offsets
    <3> QED BY <3>1, ColumnIs
  <2>2. offsets \in [1 .. levels -> Seq(Int)] /\ DOMAIN offsets = 1 .. levels
    BY <2>1
  <2> HIDE DEF offsets
  <2>3. Lengths(offsets) = [l \in 1 .. levels |-> Len(offsets[l])]
    BY <2>2 DEF Lengths
  <2> QED BY <1>1, <1>3, <2>1, <2>2, <2>3
<1>6. residuals \in Seq(Seq(Int)) /\ Lengths(residuals) = pairs
  <2>1. ASSUME NEW l \in 1 .. levels PROVE residuals[l] \in Seq(Int) /\ Len(residuals[l]) = pairs[l]
    <3>1. 10 + l \in Int /\ pairs[l] \in Nat /\ residuals[l] = Column(10 + l, pairs[l])
      BY <1>1
    <3> HIDE DEF residuals
    <3> QED BY <3>1, ColumnIs
  <2>2. residuals \in [1 .. levels -> Seq(Int)] /\ DOMAIN residuals = 1 .. levels
    BY <2>1
  <2> HIDE DEF residuals
  <2>3. Lengths(residuals) = [l \in 1 .. levels |-> Len(residuals[l])]
    BY <2>2 DEF Lengths
  <2> QED BY <1>1, <2>1, <2>2, <2>3
<1> HIDE DEF ratios, offsets, residuals
<1>7. r.base \in Seq(Int) /\ Len(r.base) = IF n > 0 THEN 1 ELSE 0
  BY <1>2
<1>8. r.ratios = ratios /\ r.offsets = offsets /\ r.residuals = residuals
      /\ r = [length |-> n, quant |-> q, base |-> r.base,
              ratios |-> r.ratios, offsets |-> r.offsets, residuals |-> r.residuals]
  BY <1>2
<1> QED BY <1>4, <1>5, <1>6, <1>7, <1>8, Zenon DEF LiftOf, blocks, pairs, levels, r
-----------------------------------------------------------------------------
(* What is read of what was written.                                         *)

\* Numbers are units of a blob.
LEMMA IntsAreUnits == Seq(Int) \subseteq Seq(Units)
<1>1. ASSUME NEW s \in Seq(Int) PROVE s \in Seq(Units)
  BY SeqMonotonic DEF Units
<1> QED BY <1>1

\* Three arrays of each level, zigzagged and joined.
LiftParts(r, n, a) ==
  LET levels == Levels(n)
      pairs == LevelPairs(n, levels)
      blocks == [l \in 1 .. levels |-> CeilDiv(pairs[l], LiftBlock)]
  IN  /\ levels \in Nat /\ levels <= MaxLevels
      /\ Len(r.residuals) = levels
      /\ a \in Seq(Seq(Int))
      /\ Lengths(a) = blocks \o blocks \o pairs
      /\ Long(r.ratios \o r.offsets \o r.residuals) <=> Len(Joined(a)) > MaxDecoded
      /\ r.ratios = [l \in 1 .. levels |-> UnZigZags(a[l])]
      /\ r.offsets = [l \in 1 .. levels |-> UnZigZags(a[levels + l])]
      /\ r.residuals = [l \in 1 .. levels |-> UnZigZags(a[2 * levels + l])]

\* What SerializeLift joins are the arrays whose lengths DeserializeLift computes.
LEMMA LiftArrays ==
  ASSUME NEW n \in Counts, NEW q, NEW r, LiftOf(r, n, q)
  PROVE  LiftParts(r, n, ZigZagged(r.ratios \o r.offsets \o r.residuals))
<1> DEFINE levels == Levels(n)
           pairs == LevelPairs(n, levels)
           blocks == [l \in 1 .. levels |-> CeilDiv(pairs[l], LiftBlock)]
           a == ZigZagged(r.ratios \o r.offsets \o r.residuals)
<1>1. levels \in Nat /\ levels <= MaxLevels /\ pairs \in [1 .. levels -> Nat]
  BY LevelsAre, PairsAre, ContainerAssumption
<1>2. blocks \in [1 .. levels -> Nat]
  BY <1>1, CeilDivIs, ContainerAssumption
<1> HIDE DEF levels, pairs, blocks
<1> DEFINE x == r.ratios
           y == r.offsets
           z == r.residuals
           w == x \o y \o z
<1>3. /\ x \in Seq(Seq(Int)) /\ Lengths(x) = blocks
      /\ y \in Seq(Seq(Int)) /\ Lengths(y) = blocks
      /\ z \in Seq(Seq(Int)) /\ Lengths(z) = pairs
  BY Zenon DEF LiftOf, levels, pairs, blocks
<1>4. a = ZigZagged(w)
  OBVIOUS
<1> HIDE DEF a, x, y, z
<1>5. Len(x) = levels /\ Len(y) = levels /\ Len(z) = levels
  <2>1. Len(blocks) = levels /\ Len(pairs) = levels
    BY <1>1, <1>2
  <2>2. Len(Lengths(x)) = Len(x) /\ Len(Lengths(y)) = Len(y) /\ Len(Lengths(z)) = Len(z)
    BY <1>3, LengthsAre
  <2> QED BY <1>3, <2>1, <2>2
<1>6. x \o y \in Seq(Seq(Int)) /\ Len(x \o y) = 2 * levels
      /\ \A i \in 1 .. 2 * levels : (x \o y)[i] = IF i <= levels THEN x[i] ELSE y[i - levels]
  <2>1. /\ x \o y \in Seq(Seq(Int)) /\ Len(x \o y) = Len(x) + Len(y)
        /\ \A i \in 1 .. Len(x) + Len(y) : (x \o y)[i] = IF i <= Len(x) THEN x[i] ELSE y[i - Len(x)]
    BY <1>3, ConcatProperties
  <2>2. levels + levels = 2 * levels
    BY <1>1
  <2> QED BY <1>5, <2>1, <2>2
<1>7. w \in Seq(Seq(Int)) /\ Len(w) = 3 * levels
      /\ \A i \in 1 .. 3 * levels : w[i] = IF i <= 2 * levels THEN (x \o y)[i] ELSE z[i - 2 * levels]
  <2> DEFINE v == x \o y
  <2>1. v \in Seq(Seq(Int)) /\ Len(v) = 2 * levels
    BY <1>6
  <2> HIDE DEF v
  <2>2. /\ v \o z \in Seq(Seq(Int)) /\ Len(v \o z) = Len(v) + Len(z)
        /\ \A i \in 1 .. Len(v) + Len(z) : (v \o z)[i] = IF i <= Len(v) THEN v[i] ELSE z[i - Len(v)]
    BY <1>3, <2>1, ConcatProperties
  <2>3. 2 * levels + levels = 3 * levels
    BY <1>1
  <2> QED BY <1>5, <2>1, <2>2, <2>3 DEF v
<1>8. /\ a \in Seq(Seq(Int)) /\ Len(a) = Len(w) /\ Lengths(a) = Lengths(w)
      /\ \A k \in 1 .. Len(w) : a[k] = ZigZags(w[k])
  BY <1>4, <1>7, ZigZaggedAre
<1>9. Lengths(w) = blocks \o blocks \o pairs
  <2>1. Lengths(x \o y) = Lengths(x) \o Lengths(y)
    BY <1>3, LengthsConcat
  <2>2. Lengths(x \o y \o z) = Lengths(x \o y) \o Lengths(z)
    BY <1>3, <1>6, LengthsConcat
  <2> QED BY <1>3, <2>1, <2>2
<1>10. Long(w) <=> Len(Joined(a)) > MaxDecoded
  <2>1. Total(Lengths(a)) = Len(Joined(a))
    BY <1>8, Split
  <2> QED BY <1>8, <2>1 DEF Long
<1> HIDE DEF w
<1>11. ASSUME NEW l \in 1 .. levels
       PROVE  /\ x[l] = UnZigZags(a[l])
              /\ y[l] = UnZigZags(a[levels + l])
              /\ z[l] = UnZigZags(a[2 * levels + l])
  <2>1. /\ l \in 1 .. 3 * levels /\ l \in 1 .. 2 * levels /\ l <= 2 * levels /\ l <= levels
        /\ levels + l \in 1 .. 3 * levels /\ levels + l \in 1 .. 2 * levels
        /\ levels + l <= 2 * levels /\ ~ (levels + l <= levels) /\ (levels + l) - levels = l
        /\ 2 * levels + l \in 1 .. 3 * levels
        /\ ~ (2 * levels + l <= 2 * levels) /\ (2 * levels + l) - 2 * levels = l
    BY <1>1
  <2>2. w[l] = x[l] /\ w[levels + l] = y[l] /\ w[2 * levels + l] = z[l]
    BY <1>6, <1>7, <2>1
  <2>3. a[l] = ZigZags(x[l]) /\ a[levels + l] = ZigZags(y[l]) /\ a[2 * levels + l] = ZigZags(z[l])
    BY <1>7, <1>8, <2>1, <2>2
  <2>4. x[l] \in Seq(Int) /\ y[l] \in Seq(Int) /\ z[l] \in Seq(Int)
    BY <1>3, <1>5
  <2> QED BY <2>3, <2>4, ThereAndBack
<1>12. /\ x = [l \in 1 .. levels |-> x[l]]
       /\ y = [l \in 1 .. levels |-> y[l]]
       /\ z = [l \in 1 .. levels |-> z[l]]
  BY <1>3, <1>5, LenProperties
<1>13. /\ x = [l \in 1 .. levels |-> UnZigZags(a[l])]
       /\ y = [l \in 1 .. levels |-> UnZigZags(a[levels + l])]
       /\ z = [l \in 1 .. levels |-> UnZigZags(a[2 * levels + l])]
  BY <1>11, <1>12
<1> QED
  BY <1>1, <1>5, <1>8, <1>9, <1>10, <1>13, Zenon
  DEF LiftParts, levels, pairs, blocks, a, w, x, y, z

\* A header and a payload behind it.
LEMMA HeadedIs ==
  ASSUME NEW s \in Seq(Units), NEW pos \in Nat, NEW head \in Seq(Units), NEW flat \in Seq(Int),
         NEW c \in Nat \ {0}, At(s, pos, head \o Framed(flat, c))
  PROVE  /\ head \o Framed(flat, c) \in Seq(Units)
         /\ Len(head \o Framed(flat, c)) = Len(head) + (2 + c)
         /\ At(s, pos, head)
         /\ Yields(Payload(s, pos + Len(head)),
                   pos + (Len(head) + (2 + c)) <= Len(s) /\ Len(flat) <= MaxDecoded,
                   [flat |-> flat, next |-> pos + (Len(head) + (2 + c))])
<1> DEFINE v == Framed(flat, c)
           m == Len(head)
<1>1. v \in Seq(Units) /\ Len(v) = 2 + c /\ m \in Nat
  BY FramedIs
<1>2. At(s, pos, head \o v)
  OBVIOUS
<1>3. head \o v \in Seq(Units) /\ Len(head \o v) = m + (2 + c)
  <2> HIDE DEF v
  <2> QED BY <1>1, ConcatProperties
<1>4. At(s, pos, head) /\ At(s, pos + m, v)
  <2> HIDE DEF v
  <2> QED BY <1>1, <1>2, AtConcat
<1>5. Yields(Payload(s, pos + m), pos + m + (2 + c) <= Len(s) /\ Len(flat) <= MaxDecoded,
             [flat |-> flat, next |-> pos + m + (2 + c)])
  <2>1. pos + m \in Nat
    BY <1>1
  <2> HIDE DEF m
  <2> QED BY <1>4, <2>1, PayloadIs
<1>6. pos + m + (2 + c) = pos + (m + (2 + c))
  BY <1>1
<1> QED BY <1>3, <1>4, <1>5, <1>6

\* A lift is read back from any place in a blob, with where it ends.
LEMMA LiftRead ==
  ASSUME NEW s \in Seq(Units), NEW pos \in Nat, NEW n \in Counts, NEW q \in {1, 3},
         NEW c \in Nat \ {0}, NEW r, LiftOf(r, n, q), At(s, pos, SerializeLift(r, c))
  PROVE  /\ SerializeLift(r, c) \in Seq(Units)
         /\ Yields(DeserializeLift(s, pos),
                   pos + Len(SerializeLift(r, c)) <= Len(s) /\ ~LiftTooLarge(r),
                   [r |-> r, next |-> pos + Len(SerializeLift(r, c))])
<1> DEFINE levels == Levels(n)
           pairs == LevelPairs(n, levels)
           blocks == [l \in 1 .. levels |-> CeilDiv(pairs[l], LiftBlock)]
           w == r.ratios \o r.offsets \o r.residuals
           z == ZigZagged(w)
           J == Joined(z)
           h == <<n, levels, q>>
           b == Len(r.base)
           k == 3 + b + (2 + c)
<1>1. /\ levels \in Nat /\ levels <= MaxLevels
      /\ Len(r.residuals) = levels
      /\ z \in Seq(Seq(Int))
      /\ Lengths(z) = blocks \o blocks \o pairs
      /\ Long(w) <=> Len(J) > MaxDecoded
      /\ r.ratios = [l \in 1 .. levels |-> UnZigZags(z[l])]
      /\ r.offsets = [l \in 1 .. levels |-> UnZigZags(z[levels + l])]
      /\ r.residuals = [l \in 1 .. levels |-> UnZigZags(z[2 * levels + l])]
  <2>1. LiftParts(r, n, z)
    BY LiftArrays
  <2> QED BY <2>1, Zenon DEF LiftParts
<1>2. /\ r = [length |-> n, quant |-> q, base |-> r.base,
              ratios |-> r.ratios, offsets |-> r.offsets, residuals |-> r.residuals]
      /\ r.base \in Seq(Int) /\ b = IF n > 0 THEN 1 ELSE 0
  BY Zenon DEF LiftOf
<1>3. n \in Nat /\ q \in Nat /\ q # 0 /\ r.length = n /\ r.quant = q
  BY <1>2, ContainerAssumption
<1>4. J \in Seq(Int) /\ Columns(J, blocks \o blocks \o pairs) = {z}
  BY <1>1, Split
<1> HIDE DEF levels, pairs, blocks, w, z, J, b
<1>5. b \in Nat /\ (n > 0 => b = 1) /\ (~ (n > 0) => b = 0)
  BY <1>2, <1>3
<1>6. h \in Seq(Units) /\ Len(h) = 3 /\ h[1] = n /\ h[2] = levels /\ h[3] = q
  <2>1. n \in Units /\ levels \in Units /\ q \in Units
    BY <1>1, <1>3 DEF Units
  <2> QED BY <2>1
<1>7. r.base \in Seq(Units)
  BY <1>2, IntsAreUnits
<1>8. SerializeLift(r, c) = h \o r.base \o Framed(J, c)
  BY <1>1, <1>3 DEF SerializeLift, J, z, w
<1> HIDE DEF h
<1>9. h \o r.base \in Seq(Units) /\ Len(h \o r.base) = 3 + b
  <2>1. /\ h \o r.base \in Seq(Units)
        /\ Len(h \o r.base) = Len(h) + Len(r.base)
    BY <1>6, <1>7, ConcatProperties
  <2> QED BY <1>6, <2>1 DEF b
<1>10. /\ SerializeLift(r, c) \in Seq(Units) /\ Len(SerializeLift(r, c)) = k
       /\ At(s, pos, h \o r.base)
       /\ Yields(Payload(s, pos + (3 + b)), pos + k <= Len(s) /\ Len(J) <= MaxDecoded,
                 [flat |-> J, next |-> pos + k])
  <2> DEFINE u == h \o r.base
  <2>1. u \in Seq(Units) /\ Len(u) = 3 + b
    BY <1>9
  <2>2. At(s, pos, u \o Framed(J, c)) /\ SerializeLift(r, c) = u \o Framed(J, c)
    BY <1>8
  <2> HIDE DEF u
  <2>3. /\ u \o Framed(J, c) \in Seq(Units)
        /\ Len(u \o Framed(J, c)) = Len(u) + (2 + c)
        /\ At(s, pos, u)
        /\ Yields(Payload(s, pos + Len(u)),
                  pos + (Len(u) + (2 + c)) <= Len(s) /\ Len(J) <= MaxDecoded,
                  [flat |-> J, next |-> pos + (Len(u) + (2 + c))])
    BY <1>4, <2>1, <2>2, HeadedIs
  <2> QED BY <2>1, <2>2, <2>3 DEF u
<1>11. At(s, pos, h) /\ At(s, pos + 3, r.base)
  BY <1>6, <1>7, <1>10, AtConcat
<1>12. Len(s) \in Nat
  OBVIOUS
<1>13. Yields(Payload(s, pos + (3 + b)), pos + k <= Len(s) /\ Len(J) <= MaxDecoded,
              [flat |-> J, next |-> pos + k])
  BY <1>10
<1>14. CASE pos + 3 > Len(s)
  <2>1. DeserializeLift(s, pos) = {}
    BY <1>14, Zenon DEF DeserializeLift
  <2>2. ~ (pos + k <= Len(s))
    BY <1>5, <1>12, <1>14
  <2> QED BY <1>10, <2>1, <2>2 DEF Yields
<1>15. CASE ~ (pos + 3 > Len(s))
  <2>1. s[pos + 1] = n /\ s[pos + 2] = levels /\ s[pos + 3] = q
    <3>1. pos + 1 <= Len(s) /\ pos + 2 <= Len(s) /\ pos + 3 <= Len(s)
          /\ 1 \in 1 .. Len(h) /\ 2 \in 1 .. Len(h) /\ 3 \in 1 .. Len(h)
      BY <1>6, <1>12, <1>15
    <3> QED BY <1>6, <1>11, <3>1 DEF At
  <2> DEFINE length == s[pos + 1]
             stages == s[pos + 2]
             header == IF length > 0 THEN 4 ELSE 3
             sizes == LevelPairs(length, stages)
             counts == [l \in 1 .. stages |-> CeilDiv(sizes[l], LiftBlock)]
             Found(a) == [length |-> length, quant |-> IF s[pos + 3] = 0 THEN 1 ELSE s[pos + 3],
                          base |-> SubSeq(s, pos + 4, pos + header),
                          ratios |-> [l \in 1 .. stages |-> UnZigZags(a[l])],
                          offsets |-> [l \in 1 .. stages |-> UnZigZags(a[stages + l])],
                          residuals |-> [l \in 1 .. stages |-> UnZigZags(a[2 * stages + l])]]
             Refused == length > MaxElements \/ stages > MaxLevels \/ pos + header > Len(s)
  <2>2. DeserializeLift(s, pos)
          = IF Refused THEN {}
            ELSE UNION {{[r |-> Found(a), next |-> p.next] :
                          a \in Columns(p.flat, counts \o counts \o sizes)} :
                        p \in Payload(s, pos + header)}
    BY <1>15, Zenon DEF DeserializeLift
  <2>3. header = 3 + b
    BY <1>5, <2>1
  <2>4. sizes = pairs /\ counts = blocks
    BY <2>1 DEF pairs, blocks
  <2>5. Refused <=> n > MaxElements \/ pos + (3 + b) > Len(s)
    <3>1. levels \in Nat /\ MaxLevels \in Nat /\ ~ (levels > MaxLevels)
      BY <1>1, ContainerAssumption
    <3> QED BY <2>1, <2>3, <3>1
  <2>6. ASSUME pos + k <= Len(s) PROVE Found(z) = r
    <3>1. SubSeq(s, pos + 4, pos + (3 + b)) = r.base
      <4>1. pos + 3 \in Nat /\ (pos + 3) + b <= Len(s)
            /\ (pos + 3) + 1 = pos + 4 /\ (pos + 3) + b = pos + (3 + b)
        BY <1>5, <1>12, <2>6
      <4>2. SubSeq(s, (pos + 3) + 1, (pos + 3) + Len(r.base)) = r.base
        BY <1>7, <1>11, <4>1, SliceAt DEF b
      <4> QED BY <4>1, <4>2 DEF b
    <3>2. Found(z) = [length |-> n, quant |-> q, base |-> r.base,
                      ratios |-> r.ratios, offsets |-> r.offsets, residuals |-> r.residuals]
      <4>1. length = n /\ stages = levels
        BY <2>1
      <4>2. SubSeq(s, pos + 4, pos + header) = r.base
        BY <2>3, <3>1
      <4>3. (IF s[pos + 3] = 0 THEN 1 ELSE s[pos + 3]) = q
        BY <1>3, <2>1
      <4> HIDE DEF length, stages, header
      <4> QED BY <1>1, <4>1, <4>2, <4>3
    <3> QED BY <1>2, <3>2
  <2> HIDE DEF Found, Refused, counts, sizes, header
  <2>7. DeserializeLift(s, pos)
          = IF Refused THEN {}
            ELSE UNION {{[r |-> Found(a), next |-> p.next] :
                          a \in Columns(p.flat, blocks \o blocks \o pairs)} :
                        p \in Payload(s, pos + (3 + b))}
    BY <2>2, <2>3, <2>4
  <2>8. LiftTooLarge(r) <=> n > MaxElements \/ ~ (Len(J) <= MaxDecoded)
    <3>1. Len(J) \in Nat /\ MaxDecoded \in Nat
      BY <1>4, ContainerAssumption
    <3> QED BY <1>1, <1>3, <3>1 DEF LiftTooLarge, w
  <2>9. CASE pos + k <= Len(s) /\ ~LiftTooLarge(r)
    <3>1. ~Refused
      BY <1>5, <1>12, <2>5, <2>8, <2>9
    <3>2. Payload(s, pos + (3 + b)) = {[flat |-> J, next |-> pos + k]}
      BY <1>13, <2>8, <2>9 DEF Yields
    <3>3. DeserializeLift(s, pos) = {[r |-> Found(z), next |-> pos + k]}
      <4> DEFINE x == [flat |-> J, next |-> pos + k]
      <4>1. x.flat = J /\ x.next = pos + k
        OBVIOUS
      <4> HIDE DEF x
      <4>2. Payload(s, pos + (3 + b)) = {x}
        BY <3>2 DEF x
      <4> DEFINE Of(p) == {[r |-> Found(a), next |-> p.next] :
                             a \in Columns(p.flat, blocks \o blocks \o pairs)}
      <4>3. Of(x) = {[r |-> Found(z), next |-> pos + k]}
        BY <1>4, <4>1
      <4>4. DeserializeLift(s, pos) = UNION {Of(p) : p \in {x}}
        BY <2>7, <3>1, <4>2
      <4> HIDE DEF Of
      <4> QED BY <4>3, <4>4
    <3> QED BY <1>10, <2>6, <2>9, <3>3 DEF Yields
  <2>10. CASE ~ (pos + k <= Len(s) /\ ~LiftTooLarge(r))
    <3>1. Refused \/ Payload(s, pos + (3 + b)) = {}
      BY <1>13, <2>5, <2>8, <2>10 DEF Yields
    <3>2. DeserializeLift(s, pos) = {}
      BY <2>7, <3>1
    <3> QED BY <1>10, <2>10, <3>2 DEF Yields
  <2> QED BY <2>9, <2>10
<1> QED BY <1>10, <1>14, <1>15

\* A planar joint of n points, whatever it found.
Joint2DOf(r, n, q) ==
  LET rods == Rods(n)
      blocks == CeilDiv(rods, RodBlock)
  IN  /\ r = [count |-> n, anchor |-> r.anchor, quant |-> q, resync |-> 3,
              lag |-> r.lag, re |-> r.re, im |-> r.im, x |-> r.x, y |-> r.y]
      /\ r.anchor \in Seq(Int) /\ Len(r.anchor) = 2
      /\ r.lag \in Seq(Int) /\ Len(r.lag) = blocks
      /\ r.re \in Seq(Int) /\ Len(r.re) = blocks
      /\ r.im \in Seq(Int) /\ Len(r.im) = blocks
      /\ r.x \in Seq(Int) /\ Len(r.x) = rods
      /\ r.y \in Seq(Int) /\ Len(r.y) = rods

\* A path of n points has fewer rods, and no more blocks than rods.
LEMMA RodsAre ==
  ASSUME NEW n \in Counts
  PROVE  /\ n \in Nat /\ Rods(n) \in Nat /\ Rods(n) <= n
         /\ CeilDiv(Rods(n), RodBlock) \in Nat /\ CeilDiv(Rods(n), RodBlock) <= n
<1>1. n \in Nat /\ RodBlock \in Nat \ {0}
  BY ContainerAssumption
<1>2. Rods(n) \in Nat /\ Rods(n) <= n
  BY <1>1 DEF Rods
<1>3. CeilDiv(Rods(n), RodBlock) \in Nat /\ CeilDiv(Rods(n), RodBlock) <= Rods(n)
  BY <1>1, <1>2, CeilDivIs
<1> QED BY <1>1, <1>2, <1>3

\* The planar joint the model writes has the shape of one.
LEMMA Joint2DIs ==
  ASSUME NEW n \in Counts, NEW q \in {1, 3}
  PROVE  Joint2DOf(Joint2D(n, q), n, q)
<1> DEFINE rods == Rods(n)
           blocks == CeilDiv(rods, RodBlock)
           lag == [b \in 1 .. blocks |-> 900 + b]
           r == Joint2D(n, q)
<1>1. rods \in Nat /\ blocks \in Nat
  BY RodsAre
<1>2. r = [count |-> n, anchor |-> Column(1, 2), quant |-> q, resync |-> 3, lag |-> lag,
           re |-> Column(2, blocks), im |-> Column(3, blocks),
           x |-> Column(4, rods), y |-> Column(5, rods)]
  BY Zenon DEF Joint2D
<1> HIDE DEF rods, blocks, r
<1>3. lag \in Seq(Int) /\ Len(lag) = blocks
  <2>1. lag \in [1 .. blocks -> Int]
    BY <1>1
  <2> HIDE DEF lag
  <2> QED BY <1>1, <2>1
<1> HIDE DEF lag
<1>4. /\ Column(1, 2) \in Seq(Int) /\ Len(Column(1, 2)) = 2
      /\ Column(2, blocks) \in Seq(Int) /\ Len(Column(2, blocks)) = blocks
      /\ Column(3, blocks) \in Seq(Int) /\ Len(Column(3, blocks)) = blocks
      /\ Column(4, rods) \in Seq(Int) /\ Len(Column(4, rods)) = rods
      /\ Column(5, rods) \in Seq(Int) /\ Len(Column(5, rods)) = rods
  <2>1. \A f \in Int, m \in Nat : Column(f, m) \in Seq(Int) /\ Len(Column(f, m)) = m
    BY ColumnIs
  <2>2. 1 \in Int /\ 2 \in Int /\ 3 \in Int /\ 4 \in Int /\ 5 \in Int /\ 2 \in Nat
    OBVIOUS
  <2> QED BY <1>1, <2>1, <2>2, Zenon
<1>5. /\ r.anchor = Column(1, 2) /\ r.lag = lag
      /\ r.re = Column(2, blocks) /\ r.im = Column(3, blocks)
      /\ r.x = Column(4, rods) /\ r.y = Column(5, rods)
      /\ r = [count |-> n, anchor |-> r.anchor, quant |-> q, resync |-> 3,
              lag |-> r.lag, re |-> r.re, im |-> r.im, x |-> r.x, y |-> r.y]
  BY <1>2
<1> QED BY <1>3, <1>4, <1>5 DEF Joint2DOf, blocks, rods, r

\* The five arrays of a planar joint.
Joint2DParts(r, n, a) ==
  LET rods == Rods(n)
      blocks == CeilDiv(rods, RodBlock)
  IN  /\ a \in Seq(Seq(Int))
      /\ Lengths(a) = <<blocks, blocks, blocks, rods, rods>>
      /\ Len(Joined(a)) = 3 * blocks + 2 * rods
      /\ Long(<<r.lag, r.re, r.im, r.x, r.y>>) <=> Len(Joined(a)) > MaxDecoded
      /\ r.lag = a[1] /\ r.re = UnZigZags(a[2]) /\ r.im = UnZigZags(a[3])
      /\ r.x = UnZigZags(a[4]) /\ r.y = UnZigZags(a[5])

\* What SerializeGeo2D joins are the arrays whose lengths DeserializeGeo2D computes.
LEMMA Joint2DArrays ==
  ASSUME NEW n \in Counts, NEW q, NEW r, Joint2DOf(r, n, q)
  PROVE  Joint2DParts(r, n, <<r.lag>> \o ZigZagged(<<r.re, r.im, r.x, r.y>>))
<1> DEFINE rods == Rods(n)
           blocks == CeilDiv(rods, RodBlock)
           z == <<r.re, r.im, r.x, r.y>>
           lag == <<r.lag>>
           a == lag \o ZigZagged(z)
           L == <<blocks, blocks, blocks, rods, rods>>
           all == <<r.lag, r.re, r.im, r.x, r.y>>
<1>1. rods \in Nat /\ blocks \in Nat
  BY RodsAre
<1>2. /\ r.lag \in Seq(Int) /\ Len(r.lag) = blocks
      /\ r.re \in Seq(Int) /\ Len(r.re) = blocks
      /\ r.im \in Seq(Int) /\ Len(r.im) = blocks
      /\ r.x \in Seq(Int) /\ Len(r.x) = rods
      /\ r.y \in Seq(Int) /\ Len(r.y) = rods
  BY Zenon DEF Joint2DOf
<1> HIDE DEF rods, blocks
<1>3. z \in Seq(Seq(Int)) /\ Len(z) = 4
      /\ z[1] = r.re /\ z[2] = r.im /\ z[3] = r.x /\ z[4] = r.y
  BY <1>2
<1>4. lag \in Seq(Seq(Int)) /\ Len(lag) = 1 /\ lag[1] = r.lag
  BY <1>2
<1>5. all \in Seq(Seq(Int)) /\ Len(all) = 5
      /\ all[1] = r.lag /\ all[2] = r.re /\ all[3] = r.im /\ all[4] = r.x /\ all[5] = r.y
  BY <1>2
<1> HIDE DEF z, lag, all
<1> DEFINE y == ZigZagged(z)
<1>6. /\ y \in Seq(Seq(Int)) /\ Len(y) = 4 /\ \A k \in 1 .. 4 : y[k] = ZigZags(z[k])
  BY <1>3, ZigZaggedAre
<1> HIDE DEF y
<1>7. /\ a \in Seq(Seq(Int)) /\ Len(a) = 5
      /\ a[1] = r.lag /\ a[2] = ZigZags(r.re) /\ a[3] = ZigZags(r.im)
      /\ a[4] = ZigZags(r.x) /\ a[5] = ZigZags(r.y)
  <2>1. /\ lag \o y \in Seq(Seq(Int)) /\ Len(lag \o y) = 1 + 4
        /\ \A i \in 1 .. 1 + 4 : (lag \o y)[i] = IF i <= 1 THEN lag[i] ELSE y[i - 1]
    <3>1. /\ lag \o y \in Seq(Seq(Int)) /\ Len(lag \o y) = Len(lag) + Len(y)
          /\ \A i \in 1 .. Len(lag) + Len(y) :
               (lag \o y)[i] = IF i <= Len(lag) THEN lag[i] ELSE y[i - Len(lag)]
      BY <1>4, <1>6, ConcatProperties
    <3> QED BY <1>4, <1>6, <3>1
  <2>2. (lag \o y)[1] = lag[1] /\ (lag \o y)[2] = y[1] /\ (lag \o y)[3] = y[2]
        /\ (lag \o y)[4] = y[3] /\ (lag \o y)[5] = y[4]
    <3> DEFINE v == lag \o y
    <3>1. \A i \in 1 .. 1 + 4 : v[i] = IF i <= 1 THEN lag[i] ELSE y[i - 1]
      BY <2>1
    <3> HIDE DEF v
    <3>2. v[1] = lag[1] /\ v[2] = y[1] /\ v[3] = y[2] /\ v[4] = y[3] /\ v[5] = y[4]
      BY <3>1
    <3> QED BY <3>2 DEF v
  <2>3. y[1] = ZigZags(r.re) /\ y[2] = ZigZags(r.im) /\ y[3] = ZigZags(r.x) /\ y[4] = ZigZags(r.y)
    BY <1>3, <1>6
  <2>4. a = lag \o y
    BY DEF y
  <2>5. 1 + 4 = 5
    OBVIOUS
  <2> HIDE DEF a
  <2> QED BY <1>4, <2>1, <2>2, <2>3, <2>4, <2>5, Zenon
<1> HIDE DEF a
<1>8. /\ r.re = UnZigZags(a[2]) /\ r.im = UnZigZags(a[3])
      /\ r.x = UnZigZags(a[4]) /\ r.y = UnZigZags(a[5])
      /\ Len(a[2]) = blocks /\ Len(a[3]) = blocks /\ Len(a[4]) = rods /\ Len(a[5]) = rods
  BY <1>2, <1>7, ThereAndBack
<1>9. L \in Seq(Nat) /\ Len(L) = 5
      /\ L[1] = blocks /\ L[2] = blocks /\ L[3] = blocks /\ L[4] = rods /\ L[5] = rods
  BY <1>1
<1> HIDE DEF L
<1>10. Lengths(a) = L
  <2>1. Lengths(a) \in Seq(Nat) /\ Len(Lengths(a)) = 5
        /\ \A k \in 1 .. 5 : Lengths(a)[k] = Len(a[k])
    BY <1>7, LengthsAre
  <2>2. ASSUME NEW k \in 1 .. 5 PROVE Lengths(a)[k] = L[k]
    <3>1. k = 1 \/ k = 2 \/ k = 3 \/ k = 4 \/ k = 5
      OBVIOUS
    <3> QED BY <1>2, <1>7, <1>8, <1>9, <2>1, <3>1
  <2> QED BY <1>9, <2>1, <2>2, SeqEqual
<1>11. Lengths(all) = L
  <2>1. Lengths(all) \in Seq(Nat) /\ Len(Lengths(all)) = 5
        /\ \A k \in 1 .. 5 : Lengths(all)[k] = Len(all[k])
    BY <1>5, LengthsAre
  <2>2. ASSUME NEW k \in 1 .. 5 PROVE Lengths(all)[k] = L[k]
    <3>1. k = 1 \/ k = 2 \/ k = 3 \/ k = 4 \/ k = 5
      OBVIOUS
    <3> QED BY <1>2, <1>5, <1>9, <2>1, <3>1
  <2> QED BY <1>9, <2>1, <2>2, SeqEqual
<1>12. Len(Joined(a)) = Total(L)
  BY <1>7, <1>10, Split
<1>13. Total(L) = 3 * blocks + 2 * rods
  <2> DEFINE e == Ends(L)
  <2>1. e[0] = 0 /\ \A k \in 1 .. 5 : e[k] = e[k - 1] + L[k]
    BY <1>9, EndsAre
  <2> HIDE DEF e
  <2>2. e[1] = e[0] + L[1] /\ e[2] = e[1] + L[2] /\ e[3] = e[2] + L[3]
        /\ e[4] = e[3] + L[4] /\ e[5] = e[4] + L[5]
    BY <2>1
  <2>3. e[5] = 3 * blocks + 2 * rods
    BY <1>1, <1>9, <2>1, <2>2
  <2> QED BY <1>9, <2>3 DEF Total, e
<1>14. Long(all) <=> Len(Joined(a)) > MaxDecoded
  BY <1>11, <1>12 DEF Long
<1> QED
  BY <1>7, <1>8, <1>10, <1>12, <1>13, <1>14
  DEF Joint2DParts, a, L, all, y, z, lag, blocks, rods

\* A planar joint is read back from any place in a blob, with where it ends.
LEMMA Joint2DRead ==
  ASSUME NEW s \in Seq(Units), NEW pos \in Nat, NEW n \in Counts, NEW q \in {1, 3},
         NEW c \in Nat \ {0}, NEW r, Joint2DOf(r, n, q), At(s, pos, SerializeGeo2D(r, c))
  PROVE  /\ SerializeGeo2D(r, c) \in Seq(Units)
         /\ Yields(DeserializeGeo2D(s, pos),
                   pos + Len(SerializeGeo2D(r, c)) <= Len(s) /\ ~Joint2DTooLarge(r),
                   [r |-> r, next |-> pos + Len(SerializeGeo2D(r, c))])
<1> DEFINE rods == Rods(n)
           blocks == CeilDiv(rods, RodBlock)
           z == <<r.lag>> \o ZigZagged(<<r.re, r.im, r.x, r.y>>)
           L == <<blocks, blocks, blocks, rods, rods>>
           J == Joined(z)
           h == <<n>>
           f == <<q, 3>>
           k == 5 + (2 + c)
<1>1. /\ z \in Seq(Seq(Int))
      /\ Lengths(z) = L
      /\ Len(J) = 3 * blocks + 2 * rods
      /\ Long(<<r.lag, r.re, r.im, r.x, r.y>>) <=> Len(J) > MaxDecoded
      /\ r.lag = z[1] /\ r.re = UnZigZags(z[2]) /\ r.im = UnZigZags(z[3])
      /\ r.x = UnZigZags(z[4]) /\ r.y = UnZigZags(z[5])
  <2>1. Joint2DParts(r, n, z)
    BY Joint2DArrays
  <2> QED BY <2>1, Zenon DEF Joint2DParts
<1>2. /\ r = [count |-> n, anchor |-> r.anchor, quant |-> q, resync |-> 3,
              lag |-> r.lag, re |-> r.re, im |-> r.im, x |-> r.x, y |-> r.y]
      /\ r.anchor \in Seq(Int) /\ Len(r.anchor) = 2
  BY Zenon DEF Joint2DOf
<1>3. n \in Nat /\ q \in Nat /\ r.count = n /\ r.quant = q /\ r.resync = 3
      /\ rods \in Nat /\ blocks \in Nat
  BY <1>2, RodsAre
<1>4. J \in Seq(Int) /\ Columns(J, L) = {z}
  BY <1>1, Split
<1>5. SerializeGeo2D(r, c) = h \o r.anchor \o f \o Framed(J, c)
  BY <1>3 DEF SerializeGeo2D
<1> HIDE DEF rods, blocks, z, J, L
<1>6. h \in Seq(Units) /\ Len(h) = 1 /\ h[1] = n /\ f \in Seq(Units) /\ Len(f) = 2 /\ f[1] = q /\ f[2] = 3
  <2>1. n \in Units /\ q \in Units /\ 3 \in Units
    BY <1>3 DEF Units
  <2> QED BY <2>1
<1>7. r.anchor \in Seq(Units)
  BY <1>2, IntsAreUnits
<1> HIDE DEF h, f
<1> DEFINE g == h \o r.anchor
<1>8. g \in Seq(Units) /\ Len(g) = 3
  <2>1. h \o r.anchor \in Seq(Units) /\ Len(h \o r.anchor) = Len(h) + Len(r.anchor)
    BY <1>6, <1>7, ConcatProperties
  <2> QED BY <1>2, <1>6, <2>1
<1>9. SerializeGeo2D(r, c) = (g \o f) \o Framed(J, c)
  BY <1>5
<1> HIDE DEF g
<1>10. g \o f \in Seq(Units) /\ Len(g \o f) = 5
  <2>1. g \o f \in Seq(Units) /\ Len(g \o f) = Len(g) + Len(f)
    BY <1>6, <1>8, ConcatProperties
  <2> QED BY <1>6, <1>8, <2>1
<1>11. /\ SerializeGeo2D(r, c) \in Seq(Units) /\ Len(SerializeGeo2D(r, c)) = k
       /\ At(s, pos, g \o f)
       /\ Yields(Payload(s, pos + 5), pos + k <= Len(s) /\ Len(J) <= MaxDecoded,
                 [flat |-> J, next |-> pos + k])
  <2> DEFINE u == g \o f
  <2>1. u \in Seq(Units) /\ Len(u) = 5
    BY <1>10
  <2>2. At(s, pos, u \o Framed(J, c)) /\ SerializeGeo2D(r, c) = u \o Framed(J, c)
    BY <1>9
  <2> HIDE DEF u
  <2>3. /\ u \o Framed(J, c) \in Seq(Units)
        /\ Len(u \o Framed(J, c)) = Len(u) + (2 + c)
        /\ At(s, pos, u)
        /\ Yields(Payload(s, pos + Len(u)),
                  pos + (Len(u) + (2 + c)) <= Len(s) /\ Len(J) <= MaxDecoded,
                  [flat |-> J, next |-> pos + (Len(u) + (2 + c))])
    BY <1>4, <2>1, <2>2, HeadedIs
  <2> QED BY <2>1, <2>2, <2>3 DEF u
<1>12. At(s, pos, h) /\ At(s, pos + 1, r.anchor) /\ At(s, pos + 3, f)
  <2>1. At(s, pos, g) /\ At(s, pos + 3, f)
    BY <1>6, <1>8, <1>11, AtConcat
  <2>2. At(s, pos, h \o r.anchor)
    BY <2>1 DEF g
  <2> QED BY <1>6, <1>7, <2>1, <2>2, AtConcat
<1>13. Len(s) \in Nat
  OBVIOUS
<1>14. CASE pos + 5 > Len(s)
  <2>1. DeserializeGeo2D(s, pos) = {}
    BY <1>14, Zenon DEF DeserializeGeo2D
  <2>2. ~ (pos + k <= Len(s))
    BY <1>13, <1>14
  <2> QED BY <1>11, <2>1, <2>2 DEF Yields
<1>15. CASE ~ (pos + 5 > Len(s))
  <2>1. s[pos + 1] = n /\ s[pos + 4] = q /\ s[pos + 5] = 3
    <3>1. pos + 1 <= Len(s) /\ (pos + 3) + 1 <= Len(s) /\ (pos + 3) + 2 <= Len(s)
          /\ (pos + 3) + 1 = pos + 4 /\ (pos + 3) + 2 = pos + 5
          /\ 1 \in 1 .. Len(h) /\ 1 \in 1 .. Len(f) /\ 2 \in 1 .. Len(f)
      BY <1>6, <1>13, <1>15
    <3>2. s[pos + 1] = h[1] /\ s[(pos + 3) + 1] = f[1] /\ s[(pos + 3) + 2] = f[2]
      BY <1>12, <3>1 DEF At
    <3> QED BY <1>6, <3>1, <3>2
  <2>2. SubSeq(s, pos + 2, pos + 3) = r.anchor
    <3>1. pos + 1 \in Nat /\ (pos + 1) + 2 <= Len(s) /\ (pos + 1) + 1 = pos + 2 /\ (pos + 1) + 2 = pos + 3
      BY <1>13, <1>15
    <3>2. SubSeq(s, (pos + 1) + 1, (pos + 1) + Len(r.anchor)) = r.anchor
      BY <1>2, <1>7, <1>12, <3>1, SliceAt
    <3> QED BY <1>2, <3>1, <3>2
  <2> DEFINE count == s[pos + 1]
             links == Rods(count)
             parts == CeilDiv(links, RodBlock)
             sizes == <<parts, parts, parts, links, links>>
             Found(a) == [count |-> count, anchor |-> SubSeq(s, pos + 2, pos + 3),
                          quant |-> s[pos + 4], resync |-> s[pos + 5], lag |-> a[1],
                          re |-> UnZigZags(a[2]), im |-> UnZigZags(a[3]),
                          x |-> UnZigZags(a[4]), y |-> UnZigZags(a[5])]
             Fits(p) == CountFeasible(3 * parts + 2 * links, Len(p.flat))
             Of(p) == {[r |-> Found(a), next |-> p.next] :
                         a \in IF Fits(p) THEN Columns(p.flat, sizes) ELSE {}}
             Refused == pos + 5 > Len(s) \/ count > MaxElements
  <2>3. DeserializeGeo2D(s, pos) = IF Refused THEN {} ELSE UNION {Of(p) : p \in Payload(s, pos + 5)}
    BY Zenon DEF DeserializeGeo2D
  <2>4. links = rods /\ parts = blocks /\ sizes = L
    BY <2>1 DEF rods, blocks, L
  <2>5. Refused <=> n > MaxElements
    BY <1>15, <2>1
  <2>6. Found(z) = r
    <3>1. Found(z) = [count |-> n, anchor |-> r.anchor, quant |-> q, resync |-> 3,
                      lag |-> r.lag, re |-> r.re, im |-> r.im, x |-> r.x, y |-> r.y]
      BY <1>1, <2>1, <2>2
    <3> QED BY <1>2, <3>1
  <2>7. Joint2DTooLarge(r) <=> n > MaxElements \/ ~ (Len(J) <= MaxDecoded)
    <3>1. Len(J) \in Nat /\ MaxDecoded \in Nat
      BY <1>4, ContainerAssumption
    <3>2. Joint2DTooLarge(r) <=> r.count > MaxElements \/ Len(J) > MaxDecoded
      BY <1>1, Zenon DEF Joint2DTooLarge
    <3>3. Len(J) > MaxDecoded <=> ~ (Len(J) <= MaxDecoded)
      <4> HIDE DEF J
      <4> QED BY <3>1
    <3>4. r.count = n
      BY <1>3
    <3> QED BY <3>2, <3>3, <3>4, Zenon
  <2> HIDE DEF Found, Refused, links, parts, sizes, count
  <2>8. CASE pos + k <= Len(s) /\ ~Joint2DTooLarge(r)
    <3> DEFINE x == [flat |-> J, next |-> pos + k]
    <3>1. x.flat = J /\ x.next = pos + k
      OBVIOUS
    <3>2. Payload(s, pos + 5) = {x}
      BY <1>11, <2>7, <2>8 DEF Yields
    <3> HIDE DEF x
    <3>3. Fits(x)
      <4>1. Len(J) \in Nat
        BY <1>4
      <4>2. 3 * parts + 2 * links = Len(J)
        BY <1>1, <2>4
      <4> QED BY <3>1, <4>1, <4>2 DEF CountFeasible
    <3> HIDE DEF Fits
    <3>4. Of(x) = {[r |-> Found(z), next |-> pos + k]}
      BY <1>4, <2>4, <3>1, <3>3
    <3> HIDE DEF Of
    <3>5. DeserializeGeo2D(s, pos) = Of(x)
      BY <2>3, <2>5, <2>7, <2>8, <3>2
    <3> QED BY <1>11, <2>6, <2>8, <3>4, <3>5 DEF Yields
  <2>9. CASE ~ (pos + k <= Len(s) /\ ~Joint2DTooLarge(r))
    <3>1. Refused \/ Payload(s, pos + 5) = {}
      BY <1>11, <2>5, <2>7, <2>9 DEF Yields
    <3> HIDE DEF Of
    <3>2. DeserializeGeo2D(s, pos) = {}
      BY <2>3, <3>1
    <3> QED BY <1>11, <2>9, <3>2 DEF Yields
  <2> QED BY <2>8, <2>9
<1> QED BY <1>11, <1>14, <1>15

\* A joint of n points in d axes, with k coefficients a block, whatever it found.
JointOf(r, n, q, d, k) ==
  /\ r = [count |-> n, anchor |-> r.anchor, quant |-> q, resync |-> 3, len |-> r.len,
          lag |-> r.lag, coefs |-> r.coefs, residual |-> r.residual]
  /\ r.anchor \in Seq(Int) /\ Len(r.anchor) = d
  /\ r.lag \in Seq(Int) /\ Len(r.lag) <= n
  /\ r.len \in Seq(Int) /\ (r.len # <<>> => Len(r.len) = Len(r.lag))
  /\ r.coefs \in Seq(Seq(Int)) /\ Lengths(r.coefs) = [b \in 1 .. Len(r.lag) |-> k]
  /\ r.residual \in Seq(Seq(Int)) /\ Lengths(r.residual) = [x \in 1 .. d |-> Rods(n)]

\* Blocks have a rod each at least, so there are no more of them than points.
LEMMA LensAre ==
  ASSUME NEW n \in Counts, NEW lens \in Lens(n)
  PROVE  lens \in Seq(Int) /\ Len(lens) <= n
<1>1. n \in Nat /\ Rods(n) \in Nat /\ Rods(n) <= n
  BY RodsAre
<1>2. CASE lens = <<>>
  BY <1>1, <1>2
<1>3. CASE lens # <<>>
  <2>1. PICK k \in 1 .. Rods(n) : lens \in [1 .. k -> 1 .. Rods(n)]
    BY <1>3 DEF Lens, Partitions
  <2>2. k \in Nat /\ k <= n
    BY <1>1
  <2>3. lens \in [1 .. k -> Int]
    BY <2>1, <1>1
  <2> QED BY <2>2, <2>3
<1> QED BY <1>2, <1>3

\* The joints of more axes the model writes have the shape of one.
LEMMA JointIs ==
  ASSUME NEW n \in Counts, NEW q \in {1, 3}, NEW d \in Nat, NEW k \in Nat, NEW lens \in Lens(n)
  PROVE  JointOf(Joint(n, q, d, k, lens), n, q, d, k)
<1> DEFINE rods == Rods(n)
           blocks == IF lens = <<>> THEN CeilDiv(rods, RodBlock) ELSE Len(lens)
           lag == [b \in 1 .. blocks |-> 900 + b]
           coefs == [b \in 1 .. blocks |-> Column(10 + b, k)]
           residual == [a \in 1 .. d |-> Column(5 + a, rods)]
           r == Joint(n, q, d, k, lens)
<1>1. rods \in Nat /\ blocks \in Nat /\ blocks <= n /\ lens \in Seq(Int)
      /\ (lens # <<>> => Len(lens) = blocks)
  BY RodsAre, LensAre
<1>2. r = [count |-> n, anchor |-> Column(1, d), quant |-> q, resync |-> 3, len |-> lens,
           lag |-> lag, coefs |-> coefs, residual |-> residual]
  BY Zenon DEF Joint
<1> HIDE DEF rods, blocks, r
<1>3. lag \in Seq(Int) /\ Len(lag) = blocks
  <2>1. lag \in [1 .. blocks -> Int]
    BY <1>1
  <2> HIDE DEF lag
  <2> QED BY <1>1, <2>1
<1> HIDE DEF lag
<1>4. Column(1, d) \in Seq(Int) /\ Len(Column(1, d)) = d
  BY ColumnIs
<1>5. coefs \in Seq(Seq(Int)) /\ Lengths(coefs) = [b \in 1 .. blocks |-> k]
  <2>1. ASSUME NEW l \in 1 .. blocks PROVE coefs[l] \in Seq(Int) /\ Len(coefs[l]) = k
    <3>1. 10 + l \in Int /\ coefs[l] = Column(10 + l, k)
      OBVIOUS
    <3> HIDE DEF coefs
    <3> QED BY <3>1, ColumnIs
  <2>2. coefs \in [1 .. blocks -> Seq(Int)] /\ DOMAIN coefs = 1 .. blocks
    BY <2>1
  <2> HIDE DEF coefs
  <2>3. Lengths(coefs) = [l \in 1 .. blocks |-> Len(coefs[l])]
    BY <2>2 DEF Lengths
  <2> QED BY <1>1, <2>1, <2>2, <2>3
<1>6. residual \in Seq(Seq(Int)) /\ Lengths(residual) = [x \in 1 .. d |-> rods]
  <2>1. ASSUME NEW l \in 1 .. d PROVE residual[l] \in Seq(Int) /\ Len(residual[l]) = rods
    <3>1. 5 + l \in Int /\ residual[l] = Column(5 + l, rods)
      OBVIOUS
    <3> HIDE DEF residual
    <3> QED BY <1>1, <3>1, ColumnIs
  <2>2. residual \in [1 .. d -> Seq(Int)] /\ DOMAIN residual = 1 .. d
    BY <2>1
  <2> HIDE DEF residual
  <2>3. Lengths(residual) = [l \in 1 .. d |-> Len(residual[l])]
    BY <2>2 DEF Lengths
  <2> QED BY <2>1, <2>2, <2>3
<1> HIDE DEF coefs, residual
<1>7. /\ r.anchor = Column(1, d) /\ r.len = lens /\ r.lag = lag
      /\ r.coefs = coefs /\ r.residual = residual
      /\ r = [count |-> n, anchor |-> r.anchor, quant |-> q, resync |-> 3, len |-> r.len,
              lag |-> r.lag, coefs |-> r.coefs, residual |-> r.residual]
  BY <1>2
<1> QED BY <1>1, <1>3, <1>4, <1>5, <1>6, <1>7, Zenon DEF JointOf, rods, r

\* The arrays of a joint: lengths, lags, a block's coefficients, an axis's residuals.
JointSizes(rods, blocks, adaptive, d, k) ==
  <<adaptive, blocks>> \o [b \in 1 .. blocks |-> k] \o [x \in 1 .. d |-> rods]

JointParts(r, n, d, k, a) ==
  LET rods == Rods(n)
      blocks == Len(r.lag)
  IN  /\ a \in Seq(Seq(Int))
      /\ Lengths(a) = JointSizes(rods, blocks, Len(r.len), d, k)
      /\ 2 * blocks + d * rods <= Len(Joined(a))
      /\ Long(<<r.len, r.lag>> \o r.coefs \o r.residual) <=> Len(Joined(a)) > MaxDecoded
      /\ r.len = a[1] /\ r.lag = a[2]
      /\ r.coefs = [b \in 1 .. blocks |-> UnZigZags(a[2 + b])]
      /\ r.residual = [x \in 1 .. d |-> UnZigZags(a[2 + blocks + x])]

\* No element takes less than a byte.
LEMMA SizesFeasible ==
  ASSUME NEW rods \in Nat, NEW blocks \in Nat, NEW adaptive \in Nat, NEW d \in Nat,
         NEW k \in Nat \ {0}
  PROVE  2 * blocks + d * rods <= Total(JointSizes(rods, blocks, adaptive, d, k))
<1> DEFINE A == <<adaptive, blocks>>
           B == [b \in 1 .. blocks |-> k]
           C == [x \in 1 .. d |-> rods]
           AB == A \o B
           L == AB \o C
           e == Ends(L)
<1>1. A \in Seq(Nat) /\ Len(A) = 2 /\ A[1] = adaptive /\ A[2] = blocks
  OBVIOUS
<1>2. B \in Seq(Nat) /\ Len(B) = blocks /\ \A b \in 1 .. blocks : B[b] = k
  OBVIOUS
<1>3. C \in Seq(Nat) /\ Len(C) = d /\ \A x \in 1 .. d : C[x] = rods
  OBVIOUS
<1> HIDE DEF A, B, C
<1>4. /\ AB \in Seq(Nat) /\ Len(AB) = 2 + blocks
      /\ \A i \in 1 .. 2 + blocks : AB[i] = IF i <= 2 THEN A[i] ELSE B[i - 2]
  <2>1. /\ AB \in Seq(Nat) /\ Len(AB) = Len(A) + Len(B)
        /\ \A i \in 1 .. Len(A) + Len(B) : AB[i] = IF i <= Len(A) THEN A[i] ELSE B[i - Len(A)]
    BY <1>1, <1>2, ConcatProperties
  <2> HIDE DEF AB
  <2> QED BY <1>1, <1>2, <2>1
<1> HIDE DEF AB
<1>5. /\ L \in Seq(Nat) /\ Len(L) = 2 + blocks + d
      /\ \A i \in 1 .. 2 + blocks + d :
           L[i] = IF i <= 2 + blocks THEN AB[i] ELSE C[i - (2 + blocks)]
  <2>1. /\ L \in Seq(Nat) /\ Len(L) = Len(AB) + Len(C)
        /\ \A i \in 1 .. Len(AB) + Len(C) : L[i] = IF i <= Len(AB) THEN AB[i] ELSE C[i - Len(AB)]
    BY <1>3, <1>4, ConcatProperties
  <2> HIDE DEF L
  <2> QED BY <1>3, <1>4, <2>1
<1> HIDE DEF L
<1>6. e \in [0 .. 2 + blocks + d -> Nat] /\ e[0] = 0
      /\ \A i \in 1 .. 2 + blocks + d : e[i] = e[i - 1] + L[i]
  BY <1>5, EndsAre
<1> HIDE DEF e
<1>7. e[2] >= blocks
  <2>1. e[1] = e[0] + L[1] /\ e[2] = e[1] + L[2]
    <3>1. 1 \in 1 .. 2 + blocks + d /\ 2 \in 1 .. 2 + blocks + d /\ 1 - 1 = 0 /\ 2 - 1 = 1
      OBVIOUS
    <3> QED BY <1>6, <3>1
  <2>2. L[1] = adaptive /\ L[2] = blocks
    <3>1. 1 \in 1 .. 2 + blocks + d /\ 2 \in 1 .. 2 + blocks + d
          /\ 1 \in 1 .. 2 + blocks /\ 2 \in 1 .. 2 + blocks
          /\ 1 <= 2 + blocks /\ 2 <= 2 + blocks
      OBVIOUS
    <3> QED BY <1>1, <1>4, <1>5, <3>1
  <2> QED BY <1>6, <2>1, <2>2
<1> DEFINE S == {b \in 0 .. blocks : e[2 + b] >= blocks + b}
<1>8. \A b \in 0 .. blocks : b \in S
  <2>1. 0 \in S
    BY <1>7
  <2>2. ASSUME NEW b \in 1 .. blocks, b - 1 \in S PROVE b \in S
    <3>1. e[2 + (b - 1)] >= blocks + (b - 1)
      BY <2>2
    <3>2. 2 + b \in 1 .. 2 + blocks + d /\ 2 + b \in 1 .. 2 + blocks /\ 2 + b <= 2 + blocks
          /\ ~ (2 + b <= 2) /\ (2 + b) - 2 = b /\ (2 + b) - 1 = 2 + (b - 1)
          /\ 2 + (b - 1) \in 0 .. 2 + blocks + d /\ b \in 0 .. blocks
      OBVIOUS
    <3>3. L[2 + b] = k
      BY <1>2, <1>4, <1>5, <3>2
    <3>4. e[2 + b] = e[2 + (b - 1)] + k /\ e[2 + (b - 1)] \in Nat
      BY <1>6, <3>2, <3>3
    <3> QED BY <3>1, <3>2, <3>4
  <2> HIDE DEF S
  <2> QED BY <2>1, <2>2, Climb
<1> DEFINE m == 2 + blocks
           T == {x \in 0 .. d : e[m + x] >= 2 * blocks + x * rods}
<1>9. \A x \in 0 .. d : x \in T
  <2>1. 0 \in T
    <3>1. e[2 + blocks] >= blocks + blocks
      BY <1>8
    <3>2. m + 0 = 2 + blocks /\ 2 * blocks + 0 * rods = blocks + blocks /\ 0 \in 0 .. d
      OBVIOUS
    <3> QED BY <3>1, <3>2
  <2>2. ASSUME NEW x \in 1 .. d, x - 1 \in T PROVE x \in T
    <3>1. e[m + (x - 1)] >= 2 * blocks + (x - 1) * rods
      BY <2>2
    <3>2. m + x \in 1 .. 2 + blocks + d /\ ~ (m + x <= 2 + blocks) /\ (m + x) - (2 + blocks) = x
          /\ (m + x) - 1 = m + (x - 1) /\ m + (x - 1) \in 0 .. 2 + blocks + d /\ x \in 0 .. d
      OBVIOUS
    <3>3. L[m + x] = rods
      BY <1>3, <1>5, <3>2
    <3>4. e[m + x] = e[m + (x - 1)] + rods /\ e[m + (x - 1)] \in Nat
      BY <1>6, <3>2, <3>3
    <3> DEFINE u == (x - 1) * rods
               v == x * rods
    <3>5. u \in Int /\ v = u + rods
      OBVIOUS
    <3>6. e[m + (x - 1)] >= 2 * blocks + u
      BY <3>1
    <3> HIDE DEF u, v, m
    <3>7. e[m + x] >= 2 * blocks + v
      BY <3>4, <3>5, <3>6
    <3> QED BY <3>2, <3>7 DEF v
  <2> HIDE DEF T
  <2> QED BY <2>1, <2>2, Climb
<1>10. e[2 + blocks + d] >= 2 * blocks + d * rods
  BY <1>9
<1>11. Total(L) = e[2 + blocks + d]
  BY <1>5 DEF Total, e
<1>12. e[2 + blocks + d] \in Nat /\ d * rods \in Int
  BY <1>6
<1>13. JointSizes(rods, blocks, adaptive, d, k) = L
  BY Zenon DEF JointSizes, L, AB, A, B, C
<1> DEFINE w == d * rods
           t == Total(L)
<1>14. t \in Nat /\ w \in Int /\ t >= 2 * blocks + w
  BY <1>10, <1>11, <1>12
<1> HIDE DEF w, t
<1>15. 2 * blocks + w <= t
  BY <1>14
<1> QED BY <1>13, <1>15 DEF w, t

\* What SerializeJoint joins are the arrays whose lengths DeserializeJoint computes.
LEMMA JointArrays ==
  ASSUME NEW n \in Counts, NEW q, NEW d \in Nat, NEW k \in Nat \ {0}, NEW r, JointOf(r, n, q, d, k)
  PROVE  JointParts(r, n, d, k, <<r.len, r.lag>> \o ZigZagged(r.coefs \o r.residual))
<1> DEFINE rods == Rods(n)
           blocks == Len(r.lag)
           x == <<r.len, r.lag>>
           y == r.coefs
           z == r.residual
           w == y \o z
           v == ZigZagged(w)
           a == x \o v
           B == [b \in 1 .. blocks |-> k]
           C == [i \in 1 .. d |-> rods]
           A == <<Len(r.len), blocks>>
<1>1. rods \in Nat /\ n \in Nat
  BY RodsAre
<1>2. /\ r.lag \in Seq(Int) /\ blocks \in Nat
      /\ r.len \in Seq(Int)
      /\ y \in Seq(Seq(Int)) /\ Lengths(y) = B
      /\ z \in Seq(Seq(Int)) /\ Lengths(z) = C
  BY LenProperties DEF JointOf
<1>3. x \in Seq(Seq(Int)) /\ Len(x) = 2 /\ x[1] = r.len /\ x[2] = r.lag
  BY <1>2
<1>4. Lengths(x) = A
  <2>1. Lengths(x) \in Seq(Nat) /\ Len(Lengths(x)) = 2
        /\ Lengths(x)[1] = Len(r.len) /\ Lengths(x)[2] = blocks
    <3> HIDE DEF x
    <3>1. Lengths(x) \in Seq(Nat) /\ Len(Lengths(x)) = 2
          /\ \A i \in 1 .. 2 : Lengths(x)[i] = Len(x[i])
      BY <1>3, LengthsAre
    <3>2. 1 \in 1 .. 2 /\ 2 \in 1 .. 2
      OBVIOUS
    <3> QED BY <1>3, <3>1, <3>2
  <2>2. A \in Seq(Nat) /\ Len(A) = 2 /\ A[1] = Len(r.len) /\ A[2] = blocks
    BY <1>2
  <2> DEFINE f == Lengths(x)
  <2> HIDE DEF f, A
  <2>3. \A i \in 1 .. Len(f) : f[i] = A[i]
    <3>1. \A i \in 1 .. 2 : i = 1 \/ i = 2
      OBVIOUS
    <3> QED BY <2>1, <2>2, <3>1 DEF f
  <2>4. f = A
    BY <2>1, <2>2, <2>3, SeqEqual DEF f
  <2> QED BY <2>4 DEF f
<1> HIDE DEF rods, blocks, x, y, z
<1>5. Len(y) = blocks /\ Len(z) = d
  <2>1. Len(B) = blocks /\ Len(C) = d
    BY <1>2
  <2>2. Len(Lengths(y)) = Len(y) /\ Len(Lengths(z)) = Len(z)
    BY <1>2, LengthsAre
  <2> QED BY <1>2, <2>1, <2>2
<1> HIDE DEF A, B, C
<1>6. /\ w \in Seq(Seq(Int)) /\ Len(w) = blocks + d
      /\ \A i \in 1 .. blocks + d : w[i] = IF i <= blocks THEN y[i] ELSE z[i - blocks]
  <2>1. /\ y \o z \in Seq(Seq(Int)) /\ Len(y \o z) = Len(y) + Len(z)
        /\ \A i \in 1 .. Len(y) + Len(z) : (y \o z)[i] = IF i <= Len(y) THEN y[i] ELSE z[i - Len(y)]
    BY <1>2, ConcatProperties
  <2> QED BY <1>5, <2>1
<1>7. Lengths(w) = B \o C
  BY <1>2, LengthsConcat
<1> HIDE DEF w
<1>8. /\ v \in Seq(Seq(Int)) /\ Len(v) = blocks + d /\ Lengths(v) = B \o C
      /\ \A i \in 1 .. blocks + d : v[i] = ZigZags(w[i])
  BY <1>6, <1>7, ZigZaggedAre
<1> HIDE DEF v
<1>9. /\ a \in Seq(Seq(Int)) /\ Len(a) = 2 + (blocks + d)
      /\ \A i \in 1 .. 2 + (blocks + d) : a[i] = IF i <= 2 THEN x[i] ELSE v[i - 2]
  <2>1. /\ x \o v \in Seq(Seq(Int)) /\ Len(x \o v) = Len(x) + Len(v)
        /\ \A i \in 1 .. Len(x) + Len(v) : (x \o v)[i] = IF i <= Len(x) THEN x[i] ELSE v[i - Len(x)]
    BY <1>3, <1>8, ConcatProperties
  <2> QED BY <1>3, <1>8, <2>1
<1>10. Lengths(a) = JointSizes(rods, blocks, Len(r.len), d, k)
  <2>1. Lengths(a) = A \o (B \o C)
    BY <1>3, <1>4, <1>8, LengthsConcat
  <2>2. A \o (B \o C) = A \o B \o C
    <3>1. A \in Seq(Nat) /\ B \in Seq(Nat) /\ C \in Seq(Nat)
      BY <1>2, <1>3, <1>4, LengthsAre
    <3> QED BY <3>1, ConcatAssociative
  <2> QED BY <2>1, <2>2 DEF JointSizes, A, B, C
<1>11. Long(x \o y \o z) <=> Len(Joined(a)) > MaxDecoded
  <2>1. Total(Lengths(a)) = Len(Joined(a))
    BY <1>9, Split
  <2>2. Lengths(x \o w) = A \o (B \o C)
    BY <1>3, <1>4, <1>6, <1>7, LengthsConcat
  <2>3. Lengths(a) = A \o (B \o C)
    BY <1>3, <1>4, <1>8, LengthsConcat
  <2>4. x \o w = x \o y \o z
    <3>1. x \in Seq(Seq(Int)) /\ y \in Seq(Seq(Int)) /\ z \in Seq(Seq(Int))
      BY <1>2, <1>3
    <3>2. \A t, u, e \in Seq(Seq(Int)) : (t \o u) \o e = t \o (u \o e)
      BY ConcatAssociative
    <3>3. (x \o y) \o z = x \o (y \o z)
      BY <3>1, <3>2, Zenon
    <3>4. w = y \o z
      BY DEF w
    <3> HIDE DEF w
    <3> QED BY <3>3, <3>4
  <2> QED BY <2>1, <2>2, <2>3, <2>4 DEF Long
<1>12. 2 * blocks + d * rods <= Len(Joined(a))
  <2>1. Total(Lengths(a)) = Len(Joined(a))
    BY <1>9, Split
  <2>2. Len(r.len) \in Nat
    BY <1>2
  <2>3. 2 * blocks + d * rods <= Total(JointSizes(rods, blocks, Len(r.len), d, k))
    BY <1>1, <1>2, <2>2, SizesFeasible
  <2> QED BY <1>10, <2>1, <2>3
<1>13. r.len = a[1] /\ r.lag = a[2]
  <2>1. 1 \in 1 .. 2 + (blocks + d) /\ 2 \in 1 .. 2 + (blocks + d) /\ 1 <= 2 /\ 2 <= 2
    BY <1>2
  <2> HIDE DEF a
  <2> QED BY <1>3, <1>9, <2>1
<1> HIDE DEF a
<1>14. ASSUME NEW b \in 1 .. blocks PROVE y[b] = UnZigZags(a[2 + b])
  <2>1. /\ 2 + b \in 1 .. 2 + (blocks + d) /\ ~ (2 + b <= 2) /\ (2 + b) - 2 = b
        /\ b \in 1 .. blocks + d /\ b <= blocks
    BY <1>2
  <2>2. a[2 + b] = ZigZags(y[b])
    BY <1>6, <1>8, <1>9, <2>1
  <2>3. y[b] \in Seq(Int)
    BY <1>2, <1>5
  <2> QED BY <2>2, <2>3, ThereAndBack
<1>15. ASSUME NEW i \in 1 .. d PROVE z[i] = UnZigZags(a[2 + blocks + i])
  <2>1. /\ 2 + blocks + i \in 1 .. 2 + (blocks + d) /\ ~ (2 + blocks + i <= 2)
        /\ (2 + blocks + i) - 2 = blocks + i
        /\ blocks + i \in 1 .. blocks + d /\ ~ (blocks + i <= blocks) /\ (blocks + i) - blocks = i
    BY <1>2
  <2>2. a[2 + blocks + i] = ZigZags(z[i])
    BY <1>6, <1>8, <1>9, <2>1
  <2>3. z[i] \in Seq(Int)
    BY <1>2, <1>5
  <2> QED BY <2>2, <2>3, ThereAndBack
<1>16. /\ y = [b \in 1 .. blocks |-> UnZigZags(a[2 + b])]
       /\ z = [i \in 1 .. d |-> UnZigZags(a[2 + blocks + i])]
  <2>1. y = [b \in 1 .. blocks |-> y[b]] /\ z = [i \in 1 .. d |-> z[i]]
    BY <1>2, <1>5, LenProperties
  <2> QED BY <1>14, <1>15, <2>1
<1> QED
  BY <1>9, <1>10, <1>11, <1>12, <1>13, <1>16, Zenon
  DEF JointParts, a, v, w, x, y, z, blocks, rods

\* A joint of more axes is read back from any place in a blob, with where it ends.
LEMMA JointRead ==
  ASSUME NEW s \in Seq(Units), NEW pos \in Nat, NEW n \in Counts, NEW q \in {1, 3},
         NEW d \in Nat, NEW k \in Nat \ {0}, NEW c \in Nat \ {0}, NEW r, JointOf(r, n, q, d, k),
         At(s, pos, SerializeJoint(r, c))
  PROVE  /\ SerializeJoint(r, c) \in Seq(Units)
         /\ Yields(DeserializeJoint(s, pos, d, k),
                   pos + Len(SerializeJoint(r, c)) <= Len(s) /\ ~JointTooLarge(r),
                   [r |-> r, next |-> pos + Len(SerializeJoint(r, c))])
<1> DEFINE rods == Rods(n)
           blocks == Len(r.lag)
           z == <<r.len, r.lag>> \o ZigZagged(r.coefs \o r.residual)
           L == JointSizes(rods, blocks, Len(r.len), d, k)
           J == Joined(z)
           flag == IF r.len = <<>> THEN 0 ELSE 1
           h == <<n>>
           f == <<q, 3, blocks, flag>>
           m == (d + 5) + (2 + c)
<1>1. /\ z \in Seq(Seq(Int))
      /\ Lengths(z) = L
      /\ 2 * blocks + d * rods <= Len(J)
      /\ Long(<<r.len, r.lag>> \o r.coefs \o r.residual) <=> Len(J) > MaxDecoded
      /\ r.len = z[1] /\ r.lag = z[2]
      /\ r.coefs = [b \in 1 .. blocks |-> UnZigZags(z[2 + b])]
      /\ r.residual = [x \in 1 .. d |-> UnZigZags(z[2 + blocks + x])]
  <2>1. JointParts(r, n, d, k, z)
    BY JointArrays
  <2> QED BY <2>1, Zenon DEF JointParts
<1>2. /\ r = [count |-> n, anchor |-> r.anchor, quant |-> q, resync |-> 3, len |-> r.len,
              lag |-> r.lag, coefs |-> r.coefs, residual |-> r.residual]
      /\ r.anchor \in Seq(Int) /\ Len(r.anchor) = d
      /\ r.lag \in Seq(Int) /\ blocks <= n
      /\ r.len \in Seq(Int) /\ (r.len # <<>> => Len(r.len) = blocks)
  BY Zenon DEF JointOf
<1>3. n \in Nat /\ q \in Nat /\ r.count = n /\ r.quant = q /\ r.resync = 3
      /\ rods \in Nat /\ blocks \in Nat
  <2>1. Len(r.lag) \in Nat
    BY <1>2, LenProperties
  <2> QED BY <1>2, <2>1, RodsAre
<1>4. J \in Seq(Int) /\ Columns(J, L) = {z}
  BY <1>1, Split
<1>5. SerializeJoint(r, c) = h \o r.anchor \o f \o Framed(J, c)
  BY <1>3 DEF SerializeJoint
<1>6. flag \in Nat /\ (flag = 0 => Len(r.len) = 0) /\ (flag # 0 => Len(r.len) = blocks)
  BY <1>2
<1> HIDE DEF rods, blocks, z, J, L, flag
<1>7. h \in Seq(Units) /\ Len(h) = 1 /\ h[1] = n /\ f \in Seq(Units) /\ Len(f) = 4
      /\ f[1] = q /\ f[2] = 3 /\ f[3] = blocks /\ f[4] = flag
  <2>1. n \in Units /\ q \in Units /\ 3 \in Units /\ blocks \in Units /\ flag \in Units
    BY <1>3, <1>6 DEF Units
  <2> QED BY <2>1
<1>8. r.anchor \in Seq(Units)
  BY <1>2, IntsAreUnits
<1> HIDE DEF h, f
<1> DEFINE g == h \o r.anchor
<1>9. g \in Seq(Units) /\ Len(g) = 1 + d
  <2>1. h \o r.anchor \in Seq(Units) /\ Len(h \o r.anchor) = Len(h) + Len(r.anchor)
    BY <1>7, <1>8, ConcatProperties
  <2> QED BY <1>2, <1>7, <2>1
<1>10. SerializeJoint(r, c) = (g \o f) \o Framed(J, c)
  BY <1>5
<1> HIDE DEF g
<1>11. g \o f \in Seq(Units) /\ Len(g \o f) = d + 5
  <2>1. g \o f \in Seq(Units) /\ Len(g \o f) = Len(g) + Len(f)
    BY <1>7, <1>9, ConcatProperties
  <2>2. 1 + d + 4 = d + 5
    OBVIOUS
  <2> QED BY <1>7, <1>9, <2>1, <2>2
<1>12. /\ SerializeJoint(r, c) \in Seq(Units) /\ Len(SerializeJoint(r, c)) = m
       /\ At(s, pos, g \o f)
       /\ Yields(Payload(s, pos + (d + 5)), pos + m <= Len(s) /\ Len(J) <= MaxDecoded,
                 [flat |-> J, next |-> pos + m])
  <2> DEFINE u == g \o f
  <2>1. u \in Seq(Units) /\ Len(u) = d + 5
    BY <1>11
  <2>2. At(s, pos, u \o Framed(J, c)) /\ SerializeJoint(r, c) = u \o Framed(J, c)
    BY <1>10
  <2> HIDE DEF u
  <2>3. /\ u \o Framed(J, c) \in Seq(Units)
        /\ Len(u \o Framed(J, c)) = Len(u) + (2 + c)
        /\ At(s, pos, u)
        /\ Yields(Payload(s, pos + Len(u)),
                  pos + (Len(u) + (2 + c)) <= Len(s) /\ Len(J) <= MaxDecoded,
                  [flat |-> J, next |-> pos + (Len(u) + (2 + c))])
    BY <1>4, <2>1, <2>2, HeadedIs
  <2> QED BY <2>1, <2>2, <2>3 DEF u
<1>13. At(s, pos, h) /\ At(s, pos + 1, r.anchor) /\ At(s, pos + (1 + d), f)
  <2>1. At(s, pos, g) /\ At(s, pos + (1 + d), f)
    BY <1>7, <1>9, <1>12, AtConcat
  <2>2. At(s, pos, h \o r.anchor)
    BY <2>1 DEF g
  <2> QED BY <1>7, <1>8, <2>1, <2>2, AtConcat
<1>14. Len(s) \in Nat /\ pos + (d + 5) = pos + d + 5
  OBVIOUS
<1>15. CASE pos + d + 5 > Len(s)
  <2>1. DeserializeJoint(s, pos, d, k) = {}
    BY <1>15, Zenon DEF DeserializeJoint
  <2>2. ~ (pos + m <= Len(s))
    BY <1>14, <1>15
  <2> QED BY <1>12, <2>1, <2>2 DEF Yields
<1>16. CASE ~ (pos + d + 5 > Len(s))
  <2>1. s[pos + 1] = n /\ s[pos + d + 2] = q /\ s[pos + d + 3] = 3
        /\ s[pos + d + 4] = blocks /\ s[pos + d + 5] = flag
    <3> DEFINE o == pos + (1 + d)
    <3>1. pos + 1 <= Len(s) /\ o + 1 <= Len(s) /\ o + 2 <= Len(s) /\ o + 3 <= Len(s) /\ o + 4 <= Len(s)
          /\ o + 1 = pos + d + 2 /\ o + 2 = pos + d + 3 /\ o + 3 = pos + d + 4 /\ o + 4 = pos + d + 5
      BY <1>14, <1>16
    <3>2. 1 \in 1 .. Len(h) /\ 1 \in 1 .. Len(f) /\ 2 \in 1 .. Len(f) /\ 3 \in 1 .. Len(f) /\ 4 \in 1 .. Len(f)
      BY <1>7
    <3>3. At(s, o, f)
      BY <1>13
    <3> HIDE DEF o
    <3>4. s[pos + 1] = h[1] /\ s[o + 1] = f[1] /\ s[o + 2] = f[2] /\ s[o + 3] = f[3] /\ s[o + 4] = f[4]
      BY <1>13, <3>1, <3>2, <3>3 DEF At
    <3> QED BY <1>7, <3>1, <3>4
  <2>2. SubSeq(s, pos + 2, pos + d + 1) = r.anchor
    <3>1. pos + 1 \in Nat /\ (pos + 1) + d <= Len(s) /\ (pos + 1) + 1 = pos + 2
          /\ (pos + 1) + d = pos + d + 1
      BY <1>14, <1>16
    <3>2. SubSeq(s, (pos + 1) + 1, (pos + 1) + Len(r.anchor)) = r.anchor
      BY <1>2, <1>8, <1>13, <3>1, SliceAt
    <3> QED BY <1>2, <3>1, <3>2
  <2> DEFINE count == s[pos + 1]
             links == Rods(count)
             parts == s[pos + d + 4]
             adaptive == IF s[pos + d + 5] = 0 THEN 0 ELSE parts
             sizes == <<adaptive, parts>> \o [b \in 1 .. parts |-> k] \o [x \in 1 .. d |-> links]
             Found(a) == [count |-> count, anchor |-> SubSeq(s, pos + 2, pos + d + 1),
                          quant |-> s[pos + d + 2], resync |-> s[pos + d + 3],
                          len |-> a[1], lag |-> a[2],
                          coefs |-> [b \in 1 .. parts |-> UnZigZags(a[2 + b])],
                          residual |-> [x \in 1 .. d |-> UnZigZags(a[2 + parts + x])]]
             Fits(p) == CountFeasible(2 * parts + d * links, Len(p.flat))
             Of(p) == {[r |-> Found(a), next |-> p.next] :
                         a \in IF Fits(p) THEN Columns(p.flat, sizes) ELSE {}}
             Refused == count > MaxElements \/ parts > MaxElements
  <2>3. DeserializeJoint(s, pos, d, k)
          = IF Refused THEN {} ELSE UNION {Of(p) : p \in Payload(s, pos + d + 5)}
    BY <1>16, Zenon DEF DeserializeJoint
  <2>4. links = rods /\ parts = blocks /\ adaptive = Len(r.len)
    BY <1>6, <2>1 DEF rods
  <2>5. sizes = L
    BY <2>4 DEF L, JointSizes
  <2>6. Refused <=> n > MaxElements
    <3>1. MaxElements \in Nat /\ count = n /\ parts = blocks /\ blocks <= n
      BY <1>2, <2>1, ContainerAssumption DEF blocks
    <3> HIDE DEF count, parts
    <3> QED BY <1>3, <3>1
  <2>7. Found(z) = r
    <3>1. Found(z) = [count |-> n, anchor |-> r.anchor, quant |-> q, resync |-> 3, len |-> r.len,
                      lag |-> r.lag, coefs |-> r.coefs, residual |-> r.residual]
      BY <1>1, <2>1, <2>2
    <3> QED BY <1>2, <3>1
  <2>8. JointTooLarge(r) <=> n > MaxElements \/ ~ (Len(J) <= MaxDecoded)
    <3>1. Len(J) \in Nat /\ MaxDecoded \in Nat
      BY <1>4, ContainerAssumption
    <3> QED BY <1>1, <1>3, <3>1 DEF JointTooLarge
  <2> HIDE DEF Found, Refused, links, parts, adaptive, sizes, count
  <2>9. CASE pos + m <= Len(s) /\ ~JointTooLarge(r)
    <3> DEFINE x == [flat |-> J, next |-> pos + m]
    <3>1. x.flat = J /\ x.next = pos + m
      OBVIOUS
    <3>2. Payload(s, pos + d + 5) = {x}
      BY <1>12, <1>14, <2>8, <2>9 DEF Yields
    <3> HIDE DEF x
    <3>3. Fits(x)
      BY <1>1, <2>4, <3>1 DEF CountFeasible
    <3> HIDE DEF Fits
    <3>4. Of(x) = {[r |-> Found(z), next |-> pos + m]}
      BY <1>4, <2>5, <3>1, <3>3
    <3> HIDE DEF Of
    <3>5. DeserializeJoint(s, pos, d, k) = Of(x)
      BY <2>3, <2>6, <2>8, <2>9, <3>2
    <3> QED BY <1>12, <2>7, <2>9, <3>4, <3>5 DEF Yields
  <2>10. CASE ~ (pos + m <= Len(s) /\ ~JointTooLarge(r))
    <3>1. Refused \/ Payload(s, pos + d + 5) = {}
      BY <1>12, <1>14, <2>6, <2>8, <2>10 DEF Yields
    <3> HIDE DEF Of
    <3>2. DeserializeJoint(s, pos, d, k) = {}
      BY <2>3, <3>1
    <3> QED BY <1>12, <2>10, <3>2 DEF Yields
  <2> QED BY <2>9, <2>10
<1> QED BY <1>12, <1>15, <1>16
-----------------------------------------------------------------------------
(* Bytes: as they are, coded by LZ, and by BWT.                              *)

\* Bytes as they are, behind their number.
LEMMA RawRead ==
  ASSUME NEW s \in Seq(Units), NEW pos \in Nat, NEW bytes \in Seq(Int),
         At(s, pos, <<Len(bytes)>> \o bytes)
  PROVE  /\ <<Len(bytes)>> \o bytes \in Seq(Units)
         /\ Len(<<Len(bytes)>> \o bytes) = 1 + Len(bytes)
         /\ pos + 1 <= Len(s) => s[pos + 1] = Len(bytes)
         /\ pos + (1 + Len(bytes)) <= Len(s) =>
              SubSeq(s, pos + 2, pos + 1 + Len(bytes)) = bytes
<1> DEFINE h == <<Len(bytes)>>
           n == Len(bytes)
<1>1. n \in Nat /\ bytes \in Seq(Units)
  BY IntsAreUnits
<1>2. h \in Seq(Units) /\ Len(h) = 1 /\ h[1] = n
  <2>1. n \in Units
    BY <1>1 DEF Units
  <2> QED BY <2>1
<1>3. At(s, pos, h \o bytes)
  OBVIOUS
<1> HIDE DEF h
<1>4. h \o bytes \in Seq(Units) /\ Len(h \o bytes) = 1 + n
  BY <1>1, <1>2, ConcatProperties
<1>5. At(s, pos, h) /\ At(s, pos + 1, bytes)
  BY <1>1, <1>2, <1>3, AtConcat
<1>6. pos + 1 <= Len(s) => s[pos + 1] = n
  <2>1. 1 \in 1 .. Len(h)
    BY <1>2
  <2> QED BY <1>2, <1>5, <2>1 DEF At
<1>7. ASSUME pos + (1 + n) <= Len(s) PROVE SubSeq(s, pos + 2, pos + 1 + n) = bytes
  <2>1. pos + 1 \in Nat /\ (pos + 1) + n <= Len(s) /\ (pos + 1) + 1 = pos + 2
    BY <1>1, <1>7
  <2>2. SubSeq(s, (pos + 1) + 1, (pos + 1) + Len(bytes)) = bytes
    BY <1>1, <1>5, <2>1, SliceAt
  <2> QED BY <2>1, <2>2
<1> QED BY <1>4, <1>6, <1>7 DEF h

\* An LZ payload is read back, if both of its parts are there.
LEMMA LzRead ==
  ASSUME NEW s \in Seq(Units), NEW pos \in Nat, NEW bytes \in Seq(Int), bytes # <<>>,
         NEW c \in Nat \ {0}, At(s, pos, LzPayload(bytes, c))
  PROVE  /\ LzPayload(bytes, c) \in Seq(Units)
         /\ Yields(LzDecode(s, pos), pos + Len(LzPayload(bytes, c)) <= Len(s), bytes)
<1> DEFINE n == Len(bytes)
           h == <<n, c>>
           v == Coded(bytes, c)
           e == <<1, [of |-> bytes, part |-> "extra"]>>
           k == 2 + c + 2
<1>1. n \in Nat /\ n # 0
  OBVIOUS
<1>2. h \in Seq(Units) /\ Len(h) = 2 /\ h[1] = n /\ h[2] = c
  <2>1. n \in Units /\ c \in Units
    BY <1>1 DEF Units
  <2> QED BY <2>1
<1>3. v \in Seq(Units) /\ Len(v) = c
  BY CodedIs
<1>4. e \in Seq(Units) /\ Len(e) = 2 /\ e[1] = 1
  <2>1. 1 \in Units /\ [of |-> bytes, part |-> "extra"] \in Units
    BY DEF Units, Chunks
  <2> QED BY <2>1
<1>5. LzPayload(bytes, c) = h \o v \o e
  BY DEF LzPayload
<1> HIDE DEF h, v, e
<1>6. h \o v \in Seq(Units) /\ Len(h \o v) = 2 + c
  <2>1. h \o v \in Seq(Units) /\ Len(h \o v) = Len(h) + Len(v)
    BY <1>2, <1>3, ConcatProperties
  <2> QED BY <1>2, <1>3, <2>1
<1>7. LzPayload(bytes, c) \in Seq(Units) /\ Len(LzPayload(bytes, c)) = k
  <2> DEFINE u == h \o v
  <2>1. LzPayload(bytes, c) = u \o e /\ u \in Seq(Units) /\ Len(u) = 2 + c
    BY <1>5, <1>6
  <2> HIDE DEF u
  <2>2. u \o e \in Seq(Units) /\ Len(u \o e) = Len(u) + Len(e)
    BY <1>4, <2>1, ConcatProperties
  <2> QED BY <1>4, <2>1, <2>2
<1>8. At(s, pos, h) /\ At(s, pos + 2, v) /\ At(s, pos + (2 + c), e)
  <2>1. At(s, pos, h \o v \o e)
    BY <1>5
  <2>2. At(s, pos, h \o v) /\ At(s, pos + (2 + c), e)
    BY <1>4, <1>6, <2>1, AtConcat
  <2> QED BY <1>2, <1>3, <2>2, AtConcat
<1>9. Len(s) \in Nat
  OBVIOUS
<1>10. CASE pos + 2 > Len(s)
  <2>1. LzDecode(s, pos) = {}
    BY <1>10, Zenon DEF LzDecode
  <2>2. ~ (pos + k <= Len(s))
    BY <1>9, <1>10
  <2> QED BY <1>7, <2>1, <2>2 DEF Yields
<1>11. CASE ~ (pos + 2 > Len(s))
  <2>1. s[pos + 1] = n /\ s[pos + 2] = c
    <3>1. pos + 1 <= Len(s) /\ pos + 2 <= Len(s) /\ 1 \in 1 .. Len(h) /\ 2 \in 1 .. Len(h)
      BY <1>2, <1>9, <1>11
    <3> QED BY <1>2, <1>8, <3>1 DEF At
  <2> DEFINE extra == pos + 3 + s[pos + 2]
             decoded == RangeDecode(SubSeq(s, pos + 3, extra - 1), s[pos + 1])
  <2>2. LzDecode(s, pos) = IF extra > Len(s) THEN {}
                           ELSE IF extra + s[extra] > Len(s) THEN {}
                           ELSE IF s[pos + 1] = 0 THEN {<<>>} ELSE {decoded}
    BY <1>11, Zenon DEF LzDecode
  <2>3. extra = pos + 3 + c
    BY <2>1
  <2>4. ASSUME ~ (extra > Len(s)) PROVE s[extra] = 1
    <3>1. (pos + (2 + c)) + 1 = extra /\ (pos + (2 + c)) + 1 <= Len(s) /\ 1 \in 1 .. Len(e)
      BY <1>4, <1>9, <2>3, <2>4
    <3>2. s[(pos + (2 + c)) + 1] = e[1]
      BY <1>8, <3>1 DEF At
    <3> QED BY <1>4, <3>1, <3>2
  <2>5. CASE pos + k <= Len(s)
    <3>1. ~ (extra > Len(s))
      BY <1>9, <2>3, <2>5
    <3>2. ~ (extra + s[extra] > Len(s))
      BY <1>9, <2>3, <2>4, <2>5, <3>1
    <3>3. LzDecode(s, pos) = {decoded}
      BY <1>1, <2>1, <2>2, <3>1, <3>2
    <3>4. (pos + 2) + 1 = pos + 3 /\ (pos + 2) + c = extra - 1 /\ pos + 2 \in Nat /\ (pos + 2) + c <= Len(s)
      BY <1>9, <2>3, <2>5
    <3>5. RangeDecode(SubSeq(s, (pos + 2) + 1, (pos + 2) + c), n) = bytes
      BY <1>8, <3>4, Recovered DEF v
    <3>6. decoded = bytes
      BY <2>1, <3>4, <3>5
    <3> QED BY <1>7, <2>5, <3>3, <3>6 DEF Yields
  <2>6. CASE ~ (pos + k <= Len(s))
    <3>1. extra > Len(s) \/ extra + s[extra] > Len(s)
      BY <1>9, <2>3, <2>4, <2>6
    <3>2. LzDecode(s, pos) = {}
      BY <2>2, <3>1
    <3> QED BY <1>7, <2>6, <3>2 DEF Yields
  <2> QED BY <2>5, <2>6
<1> QED BY <1>7, <1>10, <1>11

\* What is left of n after m times b.
LEMMA Remainder ==
  ASSUME NEW b \in Nat \ {0}, NEW m \in Nat, NEW x \in 0 .. b - 1
  PROVE  (b * m + x) % b = x
<1> DEFINE n == b * m + x
           d == n \div b
           r == n % b
           p == b * m
           g == b * d
<1>1. n \in Nat /\ p \in Nat
  OBVIOUS
<1>2. d \in Int /\ r \in 0 .. b - 1 /\ n = g + r
  <2>1. n \in Int
    BY <1>1
  <2> HIDE DEF n
  <2> QED BY <2>1, DivMod
<1>3. d = m
  <2>1. CASE d >= m + 1
    <3>1. g >= b * (m + 1)
      BY <1>2, <2>1
    <3>2. b * (m + 1) = p + b
      OBVIOUS
    <3>3. g \in Int
      BY <1>2
    <3>4. n = p + x
      OBVIOUS
    <3> HIDE DEF g, p, n, d
    <3> QED BY <1>1, <1>2, <3>1, <3>2, <3>3, <3>4
  <2>2. CASE d <= m - 1
    <3>1. g <= b * (m - 1)
      BY <1>2, <2>2
    <3>2. b * (m - 1) = p - b
      OBVIOUS
    <3>3. g \in Int
      BY <1>2
    <3>4. n = p + x
      OBVIOUS
    <3> HIDE DEF g, p, n, d
    <3> QED BY <1>1, <1>2, <3>1, <3>2, <3>3, <3>4
  <2> QED BY <1>2, <2>1, <2>2
<1>4. g = p
  BY <1>3
<1>5. n = p + x
  OBVIOUS
<1> HIDE DEF g, p, n, r
<1>6. r = x
  BY <1>1, <1>2, <1>4, <1>5
<1> QED BY <1>6 DEF r, n, p

\* The blocks are full but for the last one, and of n bytes together.
LEMMA BwtLengthsAre ==
  ASSUME NEW n \in Nat
  PROVE  /\ BwtLengths(n) \in Seq(Nat)
         /\ Len(BwtLengths(n)) = CeilDiv(n, BwtBlock)
         /\ Total(BwtLengths(n)) = n
<1> DEFINE B == BwtBlock
           K == CeilDiv(n, B)
           L == BwtLengths(n)
           e == Ends(L)
<1>1. B \in Nat \ {0} /\ K \in Nat
  BY CeilDivIs, ContainerAssumption
<1>2. L = [b \in 1 .. K |-> IF b * B <= n THEN B ELSE n % B]
  BY Zenon DEF BwtLengths
<1>3. \A b \in 1 .. K : L[b] \in Nat /\ L[b] = IF b * B <= n THEN B ELSE n % B
  <2>1. n % B \in Nat
    BY <1>1
  <2> HIDE DEF K, L, B
  <2> QED BY <1>1, <1>2, <2>1
<1>4. L \in Seq(Nat) /\ Len(L) = K
  <2> HIDE DEF K, L, B
  <2> QED BY <1>1, <1>2, <1>3
<1>5. \A b \in 1 .. K : B * (b - 1) < n
  <2> DEFINE m == n + B - 1
             p == B * K
  <2>1. m \in Nat
    BY <1>1
  <2>2. m % B \in 0 .. B - 1 /\ m = p + (m % B)
    BY <1>1, <2>1, DivMod DEF CeilDiv
  <2>3. p - B < n /\ p \in Int
    <3>1. p \in Int
      BY <1>1
    <3> HIDE DEF p, K
    <3> QED BY <1>1, <2>2, <3>1
  <2> TAKE b \in 1 .. K
  <2>4. B * (b - 1) <= B * (K - 1)
    <3> HIDE DEF B, K
    <3> QED BY <1>1
  <2>5. B * (K - 1) = p - B
    <3> HIDE DEF B, K
    <3> QED BY <1>1 DEF p
  <2>6. B * (b - 1) \in Int
    BY <1>1
  <2> QED BY <1>1, <2>3, <2>4, <2>5, <2>6
<1>6. n <= B * K
  <2> DEFINE m == n + B - 1
             p == B * K
  <2>1. m \in Nat
    BY <1>1
  <2>2. m % B \in 0 .. B - 1 /\ m = p + (m % B)
    BY <1>1, <2>1, DivMod DEF CeilDiv
  <2>3. p \in Int
    BY <1>1
  <2> HIDE DEF p, K
  <2>4. n <= p
    BY <1>1, <2>2, <2>3
  <2> QED BY <2>4 DEF p, K
<1> HIDE DEF B, K, L
<1>7. e \in [0 .. K -> Nat] /\ e[0] = 0 /\ \A b \in 1 .. K : e[b] = e[b - 1] + L[b]
  BY <1>4, EndsAre
<1> HIDE DEF e
<1> DEFINE S == {b \in 0 .. K : e[b] = IF B * b <= n THEN B * b ELSE n}
<1>8. \A b \in 0 .. K : b \in S
  <2>1. 0 \in S
    <3>1. B * 0 = 0 /\ 0 \in 0 .. K
      BY <1>1
    <3> QED BY <1>7, <3>1
  <2>2. ASSUME NEW b \in 1 .. K, b - 1 \in S PROVE b \in S
    <3> DEFINE x == B * (b - 1)
               y == B * b
    <3>1. x \in Nat /\ y \in Nat /\ y = x + B /\ x < n /\ b * B = y /\ b \in 0 .. K /\ b - 1 \in Nat
      BY <1>1, <1>5
    <3>2. e[b - 1] = x
      BY <2>2, <3>1
    <3>3. e[b] = x + L[b]
      BY <1>7, <3>2
    <3>4. L[b] = IF y <= n THEN B ELSE n % B
      BY <1>3, <3>1
    <3>5. CASE y <= n
      BY <3>1, <3>3, <3>4, <3>5
    <3>6. CASE ~ (y <= n)
      <4>1. n - x \in 0 .. B - 1 /\ n = x + (n - x)
        <5> HIDE DEF x, y
        <5> QED BY <1>1, <3>1, <3>6
      <4>2. (x + (n - x)) % B = n - x
        BY <1>1, <3>1, <4>1, Remainder
      <4>3. e[b] = n
        <5>1. n % B = n - x
          BY <4>1, <4>2
        <5> HIDE DEF x, y
        <5> QED BY <1>1, <3>1, <3>3, <3>4, <3>6, <5>1
      <4> QED BY <3>1, <3>6, <4>3
    <3> QED BY <3>5, <3>6
  <2> HIDE DEF S
  <2> QED BY <1>1, <2>1, <2>2, Climb
<1>9. e[K] = n
  <2>1. e[K] = IF B * K <= n THEN B * K ELSE n
    BY <1>1, <1>8
  <2>2. B * K \in Int
    BY <1>1
  <2> QED BY <1>6, <2>1, <2>2
<1> QED BY <1>4, <1>9 DEF Total, e, K, L, B

\* A BWT payload is read back, if the lengths of its blocks and its payload are there.
LEMMA BwtRead ==
  ASSUME NEW s \in Seq(Units), NEW pos \in Nat, NEW bytes \in Seq(Int), bytes # <<>>,
         NEW c \in Nat \ {0}, At(s, pos, BwtPayload(bytes, c))
  PROVE  /\ BwtPayload(bytes, c) \in Seq(Units)
         /\ Yields(BwtDecode(s, pos), pos + Len(BwtPayload(bytes, c)) <= Len(s), bytes)
<1> DEFINE n == Len(bytes)
           K == CeilDiv(n, BwtBlock)
           h == <<n, K>>
           l == BwtLengths(n)
           f == <<c>>
           v == Coded(bytes, c)
           k == 2 + K + 1 + c
<1>1. n \in Nat /\ n # 0 /\ K \in Nat
  <2>1. n \in Nat /\ n # 0
    OBVIOUS
  <2> QED BY <2>1, CeilDivIs, ContainerAssumption
<1>2. l \in Seq(Units) /\ Len(l) = K /\ Total(l) = n
  <2>1. l \in Seq(Nat) /\ Len(l) = K /\ Total(l) = n
    BY <1>1, BwtLengthsAre
  <2>2. l \in Seq(Units)
    BY <2>1, SeqMonotonic DEF Units
  <2> QED BY <2>1, <2>2
<1>3. BwtPayload(bytes, c) = h \o l \o f \o v
  BY DEF BwtPayload
<1> HIDE DEF K, l
<1>4. h \in Seq(Units) /\ Len(h) = 2 /\ h[1] = n /\ h[2] = K /\ f \in Seq(Units) /\ Len(f) = 1 /\ f[1] = c
  <2>1. n \in Units /\ K \in Units /\ c \in Units
    BY <1>1 DEF Units
  <2> QED BY <2>1
<1>5. v \in Seq(Units) /\ Len(v) = c
  BY CodedIs
<1> HIDE DEF h, f, v
<1> DEFINE hl == h \o l
<1>6. hl \in Seq(Units) /\ Len(hl) = 2 + K
  <2>1. h \o l \in Seq(Units) /\ Len(h \o l) = Len(h) + Len(l)
    BY <1>2, <1>4, ConcatProperties
  <2> QED BY <1>2, <1>4, <2>1
<1>7. BwtPayload(bytes, c) = hl \o f \o v
  BY <1>3
<1>8. At(s, pos, hl \o f \o v)
  BY <1>3
<1>9. At(s, pos, hl) => At(s, pos, h) /\ At(s, pos + 2, l)
  BY <1>2, <1>4, AtConcat
<1> HIDE DEF hl
<1> DEFINE hlf == hl \o f
<1>10. hlf \in Seq(Units) /\ Len(hlf) = 2 + K + 1
  <2>1. hl \o f \in Seq(Units) /\ Len(hl \o f) = Len(hl) + Len(f)
    BY <1>4, <1>6, ConcatProperties
  <2> QED BY <1>4, <1>6, <2>1
<1>11. BwtPayload(bytes, c) = hlf \o v /\ At(s, pos, hlf \o v)
  BY <1>7, <1>8
<1>12. At(s, pos, hlf) => At(s, pos, hl) /\ At(s, pos + (2 + K), f)
  BY <1>4, <1>6, AtConcat
<1> HIDE DEF hlf
<1>13. BwtPayload(bytes, c) \in Seq(Units) /\ Len(BwtPayload(bytes, c)) = k
  <2>1. hlf \o v \in Seq(Units) /\ Len(hlf \o v) = Len(hlf) + Len(v)
    BY <1>5, <1>10, ConcatProperties
  <2> QED BY <1>5, <1>10, <1>11, <2>1
<1>14. At(s, pos, h) /\ At(s, pos + 2, l) /\ At(s, pos + (2 + K), f) /\ At(s, pos + (2 + K + 1), v)
  <2>1. At(s, pos, hlf) /\ At(s, pos + (2 + K + 1), v)
    BY <1>5, <1>10, <1>11, AtConcat
  <2> QED BY <1>9, <1>12, <2>1
<1>15. Len(s) \in Nat
  OBVIOUS
<1>16. CASE pos + 1 > Len(s)
  <2>1. BwtDecode(s, pos) = {}
    BY <1>16, Zenon DEF BwtDecode
  <2>2. ~ (pos + k <= Len(s))
    BY <1>1, <1>15, <1>16
  <2> QED BY <1>13, <2>1, <2>2 DEF Yields
<1>17. CASE ~ (pos + 1 > Len(s)) /\ pos + 2 > Len(s)
  <2>1. s[pos + 1] = n
    <3>1. pos + 1 <= Len(s) /\ 1 \in 1 .. Len(h)
      BY <1>4, <1>15, <1>17
    <3> QED BY <1>4, <1>14, <3>1 DEF At
  <2>2. s[pos + 1] # 0
    BY <1>1, <2>1
  <2>3. BwtDecode(s, pos) = {}
    BY <1>17, <2>2, Zenon DEF BwtDecode
  <2>4. ~ (pos + k <= Len(s))
    BY <1>1, <1>15, <1>17
  <2> QED BY <1>13, <2>3, <2>4 DEF Yields
<1>18. CASE ~ (pos + 1 > Len(s)) /\ ~ (pos + 2 > Len(s))
  <2>1. s[pos + 1] = n /\ s[pos + 2] = K
    <3>1. pos + 1 <= Len(s) /\ pos + 2 <= Len(s) /\ 1 \in 1 .. Len(h) /\ 2 \in 1 .. Len(h)
      BY <1>4, <1>15, <1>18
    <3> QED BY <1>4, <1>14, <3>1 DEF At
  <2> DEFINE coded == pos + 3 + s[pos + 2]
             sum == Total(SubSeq(s, pos + 3, coded - 1))
             decoded == RangeDecode(SubSeq(s, coded + 1, coded + s[coded]), sum)
  <2>2. BwtDecode(s, pos) = IF coded > Len(s) THEN {}
                            ELSE IF coded + s[coded] > Len(s) THEN {}
                            ELSE IF sum # s[pos + 1] THEN {} ELSE {decoded}
    <3>1. s[pos + 1] # 0
      BY <1>1, <2>1
    <3> QED BY <1>18, <3>1, Zenon DEF BwtDecode
  <2>3. coded = pos + 3 + K
    BY <2>1
  <2>4. ASSUME ~ (coded > Len(s)) PROVE s[coded] = c /\ sum = n
    <3>1. (pos + (2 + K)) + 1 = coded /\ (pos + (2 + K)) + 1 <= Len(s) /\ 1 \in 1 .. Len(f)
          /\ pos + 2 \in Nat /\ (pos + 2) + 1 = pos + 3 /\ (pos + 2) + K = coded - 1
          /\ (pos + 2) + K <= Len(s)
      BY <1>1, <1>4, <1>15, <2>3, <2>4
    <3>2. s[(pos + (2 + K)) + 1] = f[1]
      BY <1>14, <3>1 DEF At
    <3>3. SubSeq(s, (pos + 2) + 1, (pos + 2) + Len(l)) = l
      BY <1>2, <1>14, <3>1, SliceAt
    <3> QED BY <1>2, <1>4, <3>1, <3>2, <3>3
  <2>5. CASE pos + k <= Len(s)
    <3>1. ~ (coded > Len(s))
      BY <1>1, <1>15, <2>3, <2>5
    <3>2. ~ (coded + s[coded] > Len(s)) /\ sum = n /\ s[coded] = c
      BY <1>1, <1>15, <2>3, <2>4, <2>5, <3>1
    <3>3. BwtDecode(s, pos) = {decoded}
      BY <2>1, <2>2, <3>1, <3>2
    <3>4. (pos + (2 + K + 1)) = coded /\ coded \in Nat /\ coded + c <= Len(s)
      BY <1>1, <1>15, <2>3, <2>5
    <3>5. RangeDecode(SubSeq(s, coded + 1, coded + c), n) = bytes
      <4> HIDE DEF coded
      <4> QED BY <1>14, <3>4, Recovered DEF v
    <3>6. decoded = bytes
      BY <3>2, <3>5
    <3> QED BY <1>13, <2>5, <3>3, <3>6 DEF Yields
  <2>6. CASE ~ (pos + k <= Len(s))
    <3>1. coded > Len(s) \/ coded + s[coded] > Len(s)
      BY <1>1, <1>15, <2>3, <2>4, <2>6
    <3>2. BwtDecode(s, pos) = {}
      BY <2>2, <3>1
    <3> QED BY <1>13, <2>6, <3>2 DEF Yields
  <2> QED BY <2>5, <2>6
<1> QED BY <1>13, <1>16, <1>17, <1>18
-----------------------------------------------------------------------------
(* Whole blobs.                                                              *)

ModeNames == {"Raw", "General", "Geo2D", "Geo3D", "GeneralLZ", "GeneralBWT", "Pose"}

\* A blob is of the mode it was written with, and of no other.
LEMMA ModeIs ==
  ASSUME NEW s \in Seq(Units), NEW mode \in ModeNames, NEW payload \in Seq(Units),
         At(s, 0, WithMode(mode, payload))
  PROVE  /\ WithMode(mode, payload) \in Seq(Units)
         /\ Len(WithMode(mode, payload)) = 2 + Len(payload)
         /\ At(s, 2, payload)
         /\ \A m \in ModeNames : HasMode(s, m) <=> Len(s) >= 2 /\ m = mode
<1> DEFINE h == <<Magic, Modes[mode]>>
<1>1. Modes[mode] \in Nat /\ \A m \in ModeNames : Modes[m] = Modes[mode] <=> m = mode
  BY DEF Modes, ModeNames
<1>2. h \in Seq(Units) /\ Len(h) = 2 /\ h[1] = Magic /\ h[2] = Modes[mode]
  <2>1. Magic \in Units /\ Modes[mode] \in Units
    BY <1>1 DEF Units, Magic
  <2> QED BY <2>1
<1>3. WithMode(mode, payload) = h \o payload
  BY DEF WithMode
<1> HIDE DEF h
<1>4. h \o payload \in Seq(Units) /\ Len(h \o payload) = 2 + Len(payload)
  <2>1. h \o payload \in Seq(Units) /\ Len(h \o payload) = Len(h) + Len(payload)
    BY <1>2, ConcatProperties
  <2> QED BY <1>2, <2>1
<1>5. At(s, 0, h) /\ At(s, 0 + 2, payload)
  <2>1. At(s, 0, h \o payload) /\ 0 \in Nat
    BY <1>3
  <2> QED BY <1>2, <2>1, AtConcat
<1>6. ASSUME Len(s) >= 2 PROVE s[1] = Magic /\ s[2] = Modes[mode]
  <2>1. 1 \in 1 .. Len(h) /\ 2 \in 1 .. Len(h) /\ 0 + 1 <= Len(s) /\ 0 + 2 <= Len(s)
        /\ 0 + 1 = 1 /\ 0 + 2 = 2
    BY <1>2, <1>6
  <2>2. s[0 + 1] = h[1] /\ s[0 + 2] = h[2]
    BY <1>5, <2>1 DEF At
  <2> QED BY <1>2, <2>1, <2>2
<1>7. ASSUME NEW m \in ModeNames PROVE HasMode(s, m) <=> Len(s) >= 2 /\ m = mode
  <2>1. CASE Len(s) >= 2
    BY <1>1, <1>6, <2>1, Zenon DEF HasMode
  <2>2. CASE ~ (Len(s) >= 2)
    BY <2>2 DEF HasMode
  <2> QED BY <2>1, <2>2
<1> QED BY <1>3, <1>4, <1>5, <1>7

\* Another function's blob is refused.
LEMMA OthersRefuse ==
  ASSUME NEW s
  PROVE  /\ ~HasMode(s, "Raw") /\ ~HasMode(s, "General") /\ ~HasMode(s, "GeneralLZ")
            /\ ~HasMode(s, "GeneralBWT") => Decompress(s) = {}
         /\ ~HasMode(s, "Geo2D") => DecompressGeo2D(s) = {}
         /\ ~HasMode(s, "Geo3D") => DecompressGeo3D(s) = {}
         /\ ~HasMode(s, "Pose") => DecompressPose(s) = {}
BY Zenon DEF Decompress, DecompressGeo2D, DecompressGeo3D, DecompressPose

\* What the four functions make of s, if it is a's, and x is in it when ok.
Answers(s, a, ok, x) ==
  /\ Yields(Decompress(s), a = "bytes" /\ ok, x)
  /\ Yields(DecompressGeo2D(s), a = "geo2d" /\ ok, x)
  /\ Yields(DecompressGeo3D(s), a = "geo3d" /\ ok, x)
  /\ Yields(DecompressPose(s), a = "pose" /\ ok, x)

\* s is the front of a whole blob.
FrontOf(s, whole) == s \in Seq(Units) /\ Len(s) <= Len(whole) /\ At(s, 0, whole)

Counting(n) == [i \in 1 .. n |-> i]

\* The bytes the model compresses.
LEMMA CountingIs ==
  ASSUME NEW n \in Nat
  PROVE  Counting(n) \in Seq(Int) /\ Len(Counting(n)) = n /\ (n > 0 => Counting(n) # <<>>)
<1>1. Counting(n) \in [1 .. n -> Int]
  BY DEF Counting
<1>2. Counting(n) \in Seq(Int) /\ Len(Counting(n)) = n
  BY <1>1
<1> HIDE DEF Counting
<1>3. Len(<<>>) = 0
  OBVIOUS
<1> QED BY <1>2, <1>3

\* The bytes as they are: decompress() makes them of the whole blob, and of less nothing.
LEMMA RawAnswers ==
  ASSUME NEW n \in Nat, NEW whole, NEW s,
         whole = WithMode("Raw", <<n>> \o Counting(n)), FrontOf(s, whole)
  PROVE  /\ whole \in Seq(Units) /\ ~HasMode(s, "General")
         /\ Answers(s, "bytes", Len(s) = Len(whole), Counting(n))
<1> DEFINE b == Counting(n)
           p == <<n>> \o b
<1>1. b \in Seq(Int) /\ Len(b) = n /\ s \in Seq(Units) /\ Len(s) \in Nat
  BY CountingIs DEF FrontOf
<1> HIDE DEF b
<1>2. p \in Seq(Units) /\ Len(p) = 1 + n
  <2>1. n \in Units
    BY DEF Units
  <2>2. <<n>> \in Seq(Units) /\ Len(<<n>>) = 1
    BY <2>1
  <2>3. b \in Seq(Units)
    BY <1>1, IntsAreUnits
  <2> QED BY <1>1, <2>2, <2>3, ConcatProperties
<1>3. At(s, 0, WithMode("Raw", p)) /\ whole = WithMode("Raw", p)
  BY DEF FrontOf, b
<1>4. "Raw" \in ModeNames
  BY DEF ModeNames
<1>5. /\ whole \in Seq(Units) /\ Len(whole) = 3 + n
      /\ At(s, 2, p)
      /\ \A m \in ModeNames : HasMode(s, m) <=> Len(s) >= 2 /\ m = "Raw"
  <2>1. 2 + (1 + n) = 3 + n
    OBVIOUS
  <2> HIDE DEF p
  <2> QED BY <1>1, <1>2, <1>3, <1>4, <2>1, ModeIs
<1>6. /\ HasMode(s, "Raw") <=> Len(s) >= 2
      /\ ~HasMode(s, "General") /\ ~HasMode(s, "GeneralLZ") /\ ~HasMode(s, "GeneralBWT")
      /\ ~HasMode(s, "Geo2D") /\ ~HasMode(s, "Geo3D") /\ ~HasMode(s, "Pose")
  BY <1>5 DEF ModeNames
<1>7. DecompressGeo2D(s) = {} /\ DecompressGeo3D(s) = {} /\ DecompressPose(s) = {}
  BY <1>6, OthersRefuse, Zenon
<1>8. /\ 3 <= Len(s) => s[3] = n
      /\ 3 + n <= Len(s) => SubSeq(s, 4, 3 + n) = b
  <2>1. At(s, 2, <<Len(b)>> \o b) /\ 2 \in Nat
    BY <1>1, <1>5
  <2>2. /\ 2 + 1 <= Len(s) => s[2 + 1] = Len(b)
        /\ 2 + (1 + Len(b)) <= Len(s) => SubSeq(s, 2 + 2, 2 + 1 + Len(b)) = b
    BY <1>1, <2>1, RawRead
  <2>3. 2 + 1 = 3 /\ 2 + 2 = 4 /\ 2 + 1 + n = 3 + n /\ 2 + (1 + n) = 3 + n
    OBVIOUS
  <2> QED BY <1>1, <2>2, <2>3
<1>9. Yields(Decompress(s), Len(s) = Len(whole), b)
  <2>1. Len(s) <= Len(whole)
    BY DEF FrontOf
  <2>2. CASE Len(s) = 3 + n
    <3>1. HasMode(s, "Raw") /\ ~ (Len(s) < 3) /\ 3 <= Len(s) /\ 3 + n <= Len(s)
      BY <1>6, <2>2
    <3>2. ~ (3 + s[3] > Len(s)) /\ SubSeq(s, 4, 3 + s[3]) = b
      BY <1>8, <2>2, <3>1
    <3>3. Decompress(s) = {SubSeq(s, 4, 3 + s[3])}
      BY <3>1, <3>2, Zenon DEF Decompress
    <3> QED BY <1>5, <2>2, <3>2, <3>3 DEF Yields
  <2>3. CASE Len(s) # 3 + n
    <3>1. Len(s) < 3 + n
      BY <1>1, <1>5, <2>1, <2>3
    <3>2. Len(s) < 3 \/ 3 + s[3] > Len(s)
      BY <1>1, <1>8, <3>1
    <3>3. Decompress(s) = {}
      <4>1. CASE HasMode(s, "Raw")
        <5>1. CASE Len(s) < 3
          BY <4>1, <5>1, Zenon DEF Decompress
        <5>2. CASE ~ (Len(s) < 3) /\ 3 + s[3] > Len(s)
          BY <4>1, <5>2, Zenon DEF Decompress
        <5> QED BY <3>2, <5>1, <5>2
      <4>2. CASE ~HasMode(s, "Raw")
        BY <1>6, <4>2, OthersRefuse, Zenon
      <4> QED BY <4>1, <4>2
    <3> QED BY <1>5, <2>3, <3>3 DEF Yields
  <2> QED BY <2>2, <2>3
<1> QED BY <1>5, <1>6, <1>7, <1>9 DEF Answers, Yields, b

\* A front of a blob of this mode.
LEMMA FrontIs ==
  ASSUME NEW mode \in ModeNames, NEW payload, NEW whole, NEW s,
         whole = WithMode(mode, payload), FrontOf(s, whole), payload \in Seq(Units)
  PROVE  /\ whole \in Seq(Units) /\ Len(whole) = 2 + Len(payload)
         /\ s \in Seq(Units) /\ At(s, 2, payload)
         /\ Len(s) = Len(whole) <=> 2 + Len(payload) <= Len(s)
         /\ \A m \in ModeNames : HasMode(s, m) <=> Len(s) >= 2 /\ m = mode
<1>1. s \in Seq(Units) /\ Len(s) \in Nat /\ Len(s) <= Len(whole) /\ At(s, 0, WithMode(mode, payload))
  BY DEF FrontOf
<1>2. /\ whole \in Seq(Units) /\ Len(whole) = 2 + Len(payload)
      /\ At(s, 2, payload)
      /\ \A m \in ModeNames : HasMode(s, m) <=> Len(s) >= 2 /\ m = mode
  BY <1>1, ModeIs
<1>3. Len(payload) \in Nat
  OBVIOUS
<1> QED BY <1>1, <1>2, <1>3

\* The same of bytes coded by LZ.
LEMMA LzAnswers ==
  ASSUME NEW n \in Nat \ {0}, NEW c \in Nat \ {0}, NEW whole, NEW s,
         whole = WithMode("GeneralLZ", LzPayload(Counting(n), c)), FrontOf(s, whole)
  PROVE  /\ whole \in Seq(Units) /\ ~HasMode(s, "General")
         /\ Answers(s, "bytes", Len(s) = Len(whole), Counting(n))
<1> DEFINE b == Counting(n)
           p == LzPayload(b, c)
<1>1. b \in Seq(Int) /\ b # <<>>
  BY CountingIs
<1> HIDE DEF b
<1>2. p \in Seq(Units)
  <2>1. At(<<>>, 0, p)
    <3> HIDE DEF p
    <3>1. Len(<<>>) = 0
      OBVIOUS
    <3> QED BY <3>1 DEF At
  <2>2. <<>> \in Seq(Units) /\ 0 \in Nat
    OBVIOUS
  <2> QED BY <1>1, <2>1, <2>2, LzRead
<1>3. whole = WithMode("GeneralLZ", p) /\ "GeneralLZ" \in ModeNames
  BY DEF b, ModeNames
<1>4. /\ whole \in Seq(Units) /\ Len(whole) = 2 + Len(p)
      /\ s \in Seq(Units) /\ At(s, 2, p)
      /\ Len(s) = Len(whole) <=> 2 + Len(p) <= Len(s)
      /\ \A m \in ModeNames : HasMode(s, m) <=> Len(s) >= 2 /\ m = "GeneralLZ"
  <2> HIDE DEF p
  <2> QED BY <1>2, <1>3, FrontIs
<1>5. /\ HasMode(s, "GeneralLZ") <=> Len(s) >= 2
      /\ ~HasMode(s, "General") /\ ~HasMode(s, "Raw") /\ ~HasMode(s, "GeneralBWT")
      /\ ~HasMode(s, "Geo2D") /\ ~HasMode(s, "Geo3D") /\ ~HasMode(s, "Pose")
  BY <1>4 DEF ModeNames
<1>6. DecompressGeo2D(s) = {} /\ DecompressGeo3D(s) = {} /\ DecompressPose(s) = {}
  BY <1>5, OthersRefuse, Zenon
<1>7. Yields(LzDecode(s, 2), Len(s) = Len(whole), b)
  <2>1. 2 \in Nat
    OBVIOUS
  <2>2. Yields(LzDecode(s, 2), 2 + Len(p) <= Len(s), b)
    BY <1>1, <1>4, <2>1, LzRead
  <2> QED BY <1>4, <2>2 DEF Yields
<1>8. Yields(Decompress(s), Len(s) = Len(whole), b)
  <2>1. CASE HasMode(s, "GeneralLZ")
    BY <1>5, <1>7, <2>1, Zenon DEF Decompress
  <2>2. CASE ~HasMode(s, "GeneralLZ")
    <3>1. Decompress(s) = {}
      BY <1>5, <2>2, OthersRefuse, Zenon
    <3>2. Len(s) # Len(whole)
      BY <1>2, <1>4, <1>5, <2>2
    <3> QED BY <3>1, <3>2 DEF Yields
  <2> QED BY <2>1, <2>2
<1> QED BY <1>4, <1>5, <1>6, <1>8 DEF Answers, Yields, b

\* The same of bytes coded by BWT.
LEMMA BwtAnswers ==
  ASSUME NEW n \in Nat \ {0}, NEW c \in Nat \ {0}, NEW whole, NEW s,
         whole = WithMode("GeneralBWT", BwtPayload(Counting(n), c)), FrontOf(s, whole)
  PROVE  /\ whole \in Seq(Units) /\ ~HasMode(s, "General")
         /\ Answers(s, "bytes", Len(s) = Len(whole), Counting(n))
<1> DEFINE b == Counting(n)
           p == BwtPayload(b, c)
<1>1. b \in Seq(Int) /\ b # <<>>
  BY CountingIs
<1> HIDE DEF b
<1>2. p \in Seq(Units)
  <2>1. At(<<>>, 0, p)
    <3> HIDE DEF p
    <3>1. Len(<<>>) = 0
      OBVIOUS
    <3> QED BY <3>1 DEF At
  <2>2. <<>> \in Seq(Units) /\ 0 \in Nat
    OBVIOUS
  <2> QED BY <1>1, <2>1, <2>2, BwtRead
<1>3. whole = WithMode("GeneralBWT", p) /\ "GeneralBWT" \in ModeNames
  BY DEF b, ModeNames
<1>4. /\ whole \in Seq(Units) /\ Len(whole) = 2 + Len(p)
      /\ s \in Seq(Units) /\ At(s, 2, p)
      /\ Len(s) = Len(whole) <=> 2 + Len(p) <= Len(s)
      /\ \A m \in ModeNames : HasMode(s, m) <=> Len(s) >= 2 /\ m = "GeneralBWT"
  <2> HIDE DEF p
  <2> QED BY <1>2, <1>3, FrontIs
<1>5. /\ HasMode(s, "GeneralBWT") <=> Len(s) >= 2
      /\ ~HasMode(s, "General") /\ ~HasMode(s, "Raw") /\ ~HasMode(s, "GeneralLZ")
      /\ ~HasMode(s, "Geo2D") /\ ~HasMode(s, "Geo3D") /\ ~HasMode(s, "Pose")
  BY <1>4 DEF ModeNames
<1>6. DecompressGeo2D(s) = {} /\ DecompressGeo3D(s) = {} /\ DecompressPose(s) = {}
  BY <1>5, OthersRefuse, Zenon
<1>7. Yields(BwtDecode(s, 2), Len(s) = Len(whole), b)
  <2>1. 2 \in Nat
    OBVIOUS
  <2>2. Yields(BwtDecode(s, 2), 2 + Len(p) <= Len(s), b)
    BY <1>1, <1>4, <2>1, BwtRead
  <2> QED BY <1>4, <2>2 DEF Yields
<1>8. Yields(Decompress(s), Len(s) = Len(whole), b)
  <2>1. CASE HasMode(s, "GeneralBWT")
    BY <1>5, <1>7, <2>1, Zenon DEF Decompress
  <2>2. CASE ~HasMode(s, "GeneralBWT")
    <3>1. Decompress(s) = {}
      BY <1>5, <2>2, OthersRefuse, Zenon
    <3>2. Len(s) # Len(whole)
      BY <1>2, <1>4, <1>5, <2>2
    <3> QED BY <3>1, <3>2 DEF Yields
  <2> QED BY <2>1, <2>2
<1> QED BY <1>4, <1>5, <1>6, <1>8 DEF Answers, Yields, b

\* What is read, without where it ends.
LEMMA ItemOf ==
  ASSUME NEW result, NEW ok, NEW r, NEW end, Yields(result, ok, [r |-> r, next |-> end])
  PROVE  Yields({d.r : d \in result}, ok, r)
<1>1. CASE ok
  <2> DEFINE x == [r |-> r, next |-> end]
  <2>1. x.r = r /\ result = {x}
    BY <1>1 DEF Yields
  <2> HIDE DEF x
  <2>2. {d.r : d \in result} = {r}
    BY <2>1
  <2> QED BY <1>1, <2>2 DEF Yields
<1>2. CASE ~ok
  <2>1. {d.r : d \in result} = {}
    BY <1>2 DEF Yields
  <2> QED BY <1>2, <2>1 DEF Yields
<1> QED BY <1>1, <1>2

\* The same of bytes lifted, within the limits of the decoder.
LEMMA GeneralAnswers ==
  ASSUME NEW n \in Counts, NEW c \in Nat \ {0}, NEW r, LiftOf(r, n, 1), NEW whole, NEW s,
         whole = WithMode("General", SerializeLift(r, c)), FrontOf(s, whole)
  PROVE  /\ whole \in Seq(Units)
         /\ HasMode(s, "General") <=> Len(s) >= 2
         /\ 2 <= Len(whole)
         /\ Answers(s, "bytes", Len(s) = Len(whole) /\ ~LiftTooLarge(r), r)
<1> DEFINE p == SerializeLift(r, c)
<1>1. 1 \in {1, 3}
  OBVIOUS
<1>2. p \in Seq(Units)
  <2>1. At(<<>>, 0, p)
    <3> HIDE DEF p
    <3>1. Len(<<>>) = 0
      OBVIOUS
    <3> QED BY <3>1 DEF At
  <2>2. <<>> \in Seq(Units) /\ 0 \in Nat
    OBVIOUS
  <2> QED BY <1>1, <2>1, <2>2, LiftRead
<1>3. "General" \in ModeNames
  BY DEF ModeNames
<1>4. /\ whole \in Seq(Units) /\ Len(whole) = 2 + Len(p)
      /\ s \in Seq(Units) /\ At(s, 2, p)
      /\ Len(s) = Len(whole) <=> 2 + Len(p) <= Len(s)
      /\ \A m \in ModeNames : HasMode(s, m) <=> Len(s) >= 2 /\ m = "General"
  <2>1. whole = WithMode("General", p)
    OBVIOUS
  <2> HIDE DEF p
  <2> QED BY <1>2, <1>3, <2>1, FrontIs
<1>5. /\ HasMode(s, "General") <=> Len(s) >= 2
      /\ ~HasMode(s, "Raw") /\ ~HasMode(s, "GeneralBWT") /\ ~HasMode(s, "GeneralLZ")
      /\ ~HasMode(s, "Geo2D") /\ ~HasMode(s, "Geo3D") /\ ~HasMode(s, "Pose")
  BY <1>4 DEF ModeNames
<1>6. DecompressGeo2D(s) = {} /\ DecompressGeo3D(s) = {} /\ DecompressPose(s) = {}
  BY <1>5, OthersRefuse, Zenon
<1>7. Yields({d.r : d \in DeserializeLift(s, 2)}, Len(s) = Len(whole) /\ ~LiftTooLarge(r), r)
  <2>1. 2 \in Nat
    OBVIOUS
  <2>2. Yields(DeserializeLift(s, 2), 2 + Len(p) <= Len(s) /\ ~LiftTooLarge(r),
               [r |-> r, next |-> 2 + Len(p)])
    BY <1>1, <1>4, <2>1, LiftRead
  <2>3. Yields({d.r : d \in DeserializeLift(s, 2)}, 2 + Len(p) <= Len(s) /\ ~LiftTooLarge(r), r)
    BY <2>2, ItemOf
  <2> QED BY <1>4, <2>3 DEF Yields
<1>8. Yields(Decompress(s), Len(s) = Len(whole) /\ ~LiftTooLarge(r), r)
  <2>1. CASE HasMode(s, "General")
    BY <1>5, <1>7, <2>1, Zenon DEF Decompress
  <2>2. CASE ~HasMode(s, "General")
    <3>1. Decompress(s) = {}
      BY <1>5, <2>2, OthersRefuse, Zenon
    <3>2. Len(s) # Len(whole)
      BY <1>2, <1>4, <1>5, <2>2
    <3> QED BY <3>1, <3>2 DEF Yields
  <2> QED BY <2>1, <2>2
<1> QED BY <1>2, <1>4, <1>5, <1>6, <1>8 DEF Answers, Yields

\* A path of two dimensions.
LEMMA Geo2DAnswers ==
  ASSUME NEW n \in Counts, NEW q \in {1, 3}, NEW c \in Nat \ {0}, NEW r, Joint2DOf(r, n, q),
         NEW whole, NEW s, whole = WithMode("Geo2D", SerializeGeo2D(r, c)), FrontOf(s, whole)
  PROVE  /\ whole \in Seq(Units)
         /\ Answers(s, "geo2d", Len(s) = Len(whole) /\ ~Joint2DTooLarge(r), r)
<1> DEFINE p == SerializeGeo2D(r, c)
<1>2. p \in Seq(Units)
  <2>1. At(<<>>, 0, p)
    <3> HIDE DEF p
    <3>1. Len(<<>>) = 0
      OBVIOUS
    <3> QED BY <3>1 DEF At
  <2>2. <<>> \in Seq(Units) /\ 0 \in Nat
    OBVIOUS
  <2> QED BY <2>1, <2>2, Joint2DRead
<1>3. "Geo2D" \in ModeNames
  BY DEF ModeNames
<1>4. /\ whole \in Seq(Units) /\ Len(whole) = 2 + Len(p)
      /\ s \in Seq(Units) /\ At(s, 2, p)
      /\ Len(s) = Len(whole) <=> 2 + Len(p) <= Len(s)
      /\ \A m \in ModeNames : HasMode(s, m) <=> Len(s) >= 2 /\ m = "Geo2D"
  <2>1. whole = WithMode("Geo2D", p)
    OBVIOUS
  <2> HIDE DEF p
  <2> QED BY <1>2, <1>3, <2>1, FrontIs
<1>5. /\ HasMode(s, "Geo2D") <=> Len(s) >= 2
      /\ ~HasMode(s, "Raw") /\ ~HasMode(s, "GeneralBWT") /\ ~HasMode(s, "GeneralLZ")
      /\ ~HasMode(s, "General") /\ ~HasMode(s, "Geo3D") /\ ~HasMode(s, "Pose")
  BY <1>4 DEF ModeNames
<1>6. Decompress(s) = {} /\ DecompressGeo3D(s) = {} /\ DecompressPose(s) = {}
  BY <1>5, OthersRefuse, Zenon
<1>7. Yields({d.r : d \in DeserializeGeo2D(s, 2)}, Len(s) = Len(whole) /\ ~Joint2DTooLarge(r), r)
  <2>1. 2 \in Nat
    OBVIOUS
  <2>2. Yields(DeserializeGeo2D(s, 2), 2 + Len(p) <= Len(s) /\ ~Joint2DTooLarge(r),
               [r |-> r, next |-> 2 + Len(p)])
    BY <1>4, <2>1, Joint2DRead
  <2>3. Yields({d.r : d \in DeserializeGeo2D(s, 2)}, 2 + Len(p) <= Len(s) /\ ~Joint2DTooLarge(r), r)
    BY <2>2, ItemOf
  <2> QED BY <1>4, <2>3 DEF Yields
<1>8. Yields(DecompressGeo2D(s), Len(s) = Len(whole) /\ ~Joint2DTooLarge(r), r)
  <2>1. CASE HasMode(s, "Geo2D")
    BY <1>7, <2>1, Zenon DEF DecompressGeo2D
  <2>2. CASE ~HasMode(s, "Geo2D")
    <3>1. DecompressGeo2D(s) = {}
      BY <2>2, OthersRefuse, Zenon
    <3>2. Len(s) # Len(whole)
      BY <1>2, <1>4, <1>5, <2>2
    <3> QED BY <3>1, <3>2 DEF Yields
  <2> QED BY <2>1, <2>2
<1> QED BY <1>4, <1>6, <1>8 DEF Answers, Yields

\* A path of three dimensions: xy and z apart.
LEMMA CompositionAnswers ==
  ASSUME NEW n \in Counts, NEW q \in {1, 3}, NEW c \in Nat \ {0},
         NEW xy, Joint2DOf(xy, n, q), NEW z, LiftOf(z, n, q), NEW whole, NEW s,
         whole = WithMode("Geo3D", <<Composition>> \o SerializeGeo2D(xy, c) \o SerializeLift(z, c)),
         FrontOf(s, whole)
  PROVE  /\ whole \in Seq(Units)
         /\ CountOf([xy |-> xy, z |-> z]) = n
         /\ Answers(s, "geo3d", Len(s) = Len(whole) /\ ~PathTooLarge([xy |-> xy, z |-> z]),
                    [xy |-> xy, z |-> z])
<1> DEFINE g == SerializeGeo2D(xy, c)
           l == SerializeLift(z, c)
           k == <<Composition>>
           p == k \o g \o l
           x == [xy |-> xy, z |-> z]
<1>1. g \in Seq(Units) /\ l \in Seq(Units)
  <2>1. At(<<>>, 0, g) /\ At(<<>>, 0, l)
    <3> HIDE DEF g, l
    <3>1. Len(<<>>) = 0
      OBVIOUS
    <3> QED BY <3>1 DEF At
  <2>2. <<>> \in Seq(Units) /\ 0 \in Nat
    OBVIOUS
  <2> QED BY <2>1, <2>2, Joint2DRead, LiftRead
<1>2. k \in Seq(Units) /\ Len(k) = 1 /\ k[1] = 0
  <2>1. 0 \in Units
    BY DEF Units
  <2> QED BY <2>1 DEF Composition
<1>3. whole = WithMode("Geo3D", p) /\ "Geo3D" \in ModeNames
  BY DEF ModeNames
<1>4. x.xy = xy /\ x.z = z /\ IsComposition(x) /\ xy.count = n /\ z.length = n
  BY DEF IsComposition, Joint2DOf, LiftOf
<1>5. CountOf(x) = n /\ (PathTooLarge(x) <=> Joint2DTooLarge(xy) \/ LiftTooLarge(z))
  <2> HIDE DEF x
  <2> QED BY <1>4 DEF CountOf, PathTooLarge
<1> HIDE DEF k
<1> DEFINE kg == k \o g
           m == Len(g)
<1>6. kg \in Seq(Units) /\ Len(kg) = 1 + m /\ m \in Nat /\ Len(l) \in Nat
  <2> HIDE DEF g, l
  <2>1. k \o g \in Seq(Units) /\ Len(k \o g) = Len(k) + Len(g)
    BY <1>1, <1>2, ConcatProperties
  <2> QED BY <1>1, <1>2, <2>1
<1>7. p \in Seq(Units) /\ Len(p) = 1 + m + Len(l)
  <2> HIDE DEF kg, g, l
  <2>1. kg \o l \in Seq(Units) /\ Len(kg \o l) = Len(kg) + Len(l)
    BY <1>1, <1>6, ConcatProperties
  <2> QED BY <1>6, <2>1 DEF kg
<1>8. /\ whole \in Seq(Units) /\ Len(whole) = 2 + Len(p)
      /\ s \in Seq(Units) /\ At(s, 2, p)
      /\ Len(s) = Len(whole) <=> 2 + Len(p) <= Len(s)
      /\ \A mode \in ModeNames : HasMode(s, mode) <=> Len(s) >= 2 /\ mode = "Geo3D"
  <2> HIDE DEF p
  <2> QED BY <1>3, <1>7, FrontIs
<1>9. /\ HasMode(s, "Geo3D") <=> Len(s) >= 2
      /\ ~HasMode(s, "Raw") /\ ~HasMode(s, "GeneralBWT") /\ ~HasMode(s, "GeneralLZ")
      /\ ~HasMode(s, "General") /\ ~HasMode(s, "Geo2D") /\ ~HasMode(s, "Pose")
  BY <1>8 DEF ModeNames
<1>10. Decompress(s) = {} /\ DecompressGeo2D(s) = {} /\ DecompressPose(s) = {}
  BY <1>9, OthersRefuse, Zenon
<1>11. At(s, 2, k) /\ At(s, 3, g) /\ At(s, 3 + m, l)
  <2>0. 2 + 1 = 3 /\ 2 + (1 + m) = 3 + m /\ 2 \in Nat
    BY <1>6
  <2> HIDE DEF g, l
  <2>1. At(s, 2, kg \o l)
    BY <1>8 DEF kg
  <2>2. At(s, 2, kg) /\ At(s, 2 + Len(kg), l)
    <3> HIDE DEF kg
    <3> QED BY <1>1, <1>6, <1>8, <2>0, <2>1, AtConcat
  <2>3. At(s, 2, k \o g)
    BY <2>2 DEF kg
  <2>4. At(s, 2, k) /\ At(s, 2 + Len(k), g)
    BY <1>1, <1>2, <1>8, <2>0, <2>3, AtConcat
  <2> QED BY <1>2, <1>6, <2>0, <2>2, <2>4
<1>12. Yields(DeserializeGeo2D(s, 3), 3 + m <= Len(s) /\ ~Joint2DTooLarge(xy),
              [r |-> xy, next |-> 3 + m])
  <2>1. 3 \in Nat
    OBVIOUS
  <2> QED BY <1>8, <1>11, <2>1, Joint2DRead
<1>13. \E e : Yields(DeserializeLift(s, 3 + m), 3 + m + Len(l) <= Len(s) /\ ~LiftTooLarge(z),
                     [r |-> z, next |-> e])
  <2>1. 3 + m \in Nat
    BY <1>6
  <2>2. Yields(DeserializeLift(s, 3 + m), 3 + m + Len(l) <= Len(s) /\ ~LiftTooLarge(z),
               [r |-> z, next |-> 3 + m + Len(l)])
    <3> HIDE DEF m
    <3> QED BY <1>8, <1>11, <2>1, LiftRead
  <2> HIDE DEF m, l
  <2> QED BY <2>2
<1>14. Len(s) \in Nat /\ Len(s) <= Len(whole) /\ Len(whole) = 3 + m + Len(l)
  BY <1>6, <1>7, <1>8 DEF FrontOf
<1> DEFINE ok == Len(s) = Len(whole) /\ ~PathTooLarge(x)
<1>15. CASE ~HasMode(s, "Geo3D") \/ Len(s) < 3
  <2>1. DecompressGeo3D(s) = {}
    BY <1>15, Zenon DEF DecompressGeo3D
  <2>2. ~ok
    BY <1>6, <1>9, <1>14, <1>15
  <2> HIDE DEF ok
  <2>3. Yields(DecompressGeo3D(s), ok, x)
    BY <2>1, <2>2 DEF Yields
  <2> QED BY <1>5, <1>8, <1>10, <2>3 DEF Answers, Yields, ok
<1>16. CASE ~ (~HasMode(s, "Geo3D") \/ Len(s) < 3)
  <2>1. s[3] # Similarity3D
    <3>1. 1 \in 1 .. Len(k) /\ 2 + 1 <= Len(s) /\ 2 + 1 = 3
      BY <1>2, <1>14, <1>16
    <3> QED BY <1>2, <1>11, <3>1 DEF At, Similarity3D
  <2> DEFINE Both(a) == {[xy |-> a.r, z |-> b.r] : b \in DeserializeLift(s, a.next)}
             both == UNION {Both(a) : a \in DeserializeGeo2D(s, 3)}
  <2>2. DecompressGeo3D(s) = {e \in both : e.xy.count = e.z.length}
    BY <1>16, <2>1, Zenon DEF DecompressGeo3D
  <2>3. Yields(both, ok, x)
    <3>1. CASE 3 + m <= Len(s) /\ ~Joint2DTooLarge(xy)
      <4> DEFINE a == [r |-> xy, next |-> 3 + m]
      <4>1. a.r = xy /\ a.next = 3 + m /\ DeserializeGeo2D(s, 3) = {a}
        BY <1>12, <3>1 DEF Yields
      <4> HIDE DEF a
      <4>2. both = {[xy |-> xy, z |-> b.r] : b \in DeserializeLift(s, 3 + m)}
        BY <4>1
      <4>3. CASE 3 + m + Len(l) <= Len(s) /\ ~LiftTooLarge(z)
        <5>1. PICK e : DeserializeLift(s, 3 + m) = {[r |-> z, next |-> e]}
          BY <1>13, <4>3 DEF Yields
        <5> DEFINE b == [r |-> z, next |-> e]
        <5>2. b.r = z /\ DeserializeLift(s, 3 + m) = {b}
          BY <5>1
        <5> HIDE DEF b
        <5>3. both = {x}
          BY <4>2, <5>2
        <5>4. ok
          BY <1>5, <1>6, <1>14, <3>1, <4>3
        <5> HIDE DEF ok, x, both
        <5> QED BY <5>3, <5>4 DEF Yields
      <4>4. CASE ~ (3 + m + Len(l) <= Len(s) /\ ~LiftTooLarge(z))
        <5>1. DeserializeLift(s, 3 + m) = {}
          BY <1>13, <4>4 DEF Yields
        <5>2. both = {}
          BY <4>2, <5>1
        <5>3. ~ok
          BY <1>5, <1>6, <1>14, <4>4
        <5> HIDE DEF ok, x, both
        <5> QED BY <5>2, <5>3 DEF Yields
      <4> QED BY <4>3, <4>4
    <3>2. CASE ~ (3 + m <= Len(s) /\ ~Joint2DTooLarge(xy))
      <4>1. DeserializeGeo2D(s, 3) = {}
        BY <1>12, <3>2 DEF Yields
      <4>2. both = {}
        BY <4>1
      <4>3. ~ok
        BY <1>5, <1>6, <1>14, <3>2
      <4> HIDE DEF ok, x, both
      <4> QED BY <4>2, <4>3 DEF Yields
    <3> QED BY <3>1, <3>2
  <2>4. Yields(DecompressGeo3D(s), ok, x)
    <3> HIDE DEF ok, x, both
    <3>1. CASE ok
      <4>1. both = {x}
        BY <2>3, <3>1 DEF Yields
      <4>2. x.xy.count = x.z.length
        BY <1>4
      <4>3. DecompressGeo3D(s) = {x}
        BY <2>2, <4>1, <4>2
      <4> QED BY <3>1, <4>3 DEF Yields
    <3>2. CASE ~ok
      <4>1. both = {}
        BY <2>3, <3>2 DEF Yields
      <4>2. DecompressGeo3D(s) = {}
        BY <2>2, <4>1
      <4> QED BY <3>2, <4>2 DEF Yields
    <3> QED BY <3>1, <3>2
  <2> HIDE DEF ok, both
  <2> QED BY <1>5, <1>8, <1>10, <2>4 DEF Answers, Yields, ok
<1> QED BY <1>15, <1>16

\* Or one similarity joint.
LEMMA SimilarityAnswers ==
  ASSUME NEW n \in Counts, NEW q \in {1, 3}, NEW c \in Nat \ {0},
         NEW r, JointOf(r, n, q, 3, 9), NEW whole, NEW s,
         whole = WithMode("Geo3D", <<Similarity3D>> \o SerializeGeo3DSim(r, c)),
         FrontOf(s, whole)
  PROVE  /\ whole \in Seq(Units)
         /\ CountOf(r) = n
         /\ Answers(s, "geo3d", Len(s) = Len(whole) /\ ~PathTooLarge(r), r)
<1> DEFINE j == SerializeJoint(r, c)
           k == <<Similarity3D>>
           p == k \o j
<1>1. j \in Seq(Units)
  <2>1. At(<<>>, 0, j)
    <3> HIDE DEF j
    <3>1. Len(<<>>) = 0
      OBVIOUS
    <3> QED BY <3>1 DEF At
  <2>2. <<>> \in Seq(Units) /\ 0 \in Nat /\ 3 \in Nat /\ 9 \in Nat \ {0}
    OBVIOUS
  <2> QED BY <2>1, <2>2, JointRead
<1>2. k \in Seq(Units) /\ Len(k) = 1 /\ k[1] = Similarity3D
  <2>1. Similarity3D \in Units
    BY DEF Units, Similarity3D
  <2> QED BY <2>1
<1>3. whole = WithMode("Geo3D", p) /\ "Geo3D" \in ModeNames
  BY DEF ModeNames, SerializeGeo3DSim
<1>4. ~IsComposition(r) /\ r.count = n
  <2>1. /\ r = [count |-> n, anchor |-> r.anchor, quant |-> q, resync |-> 3, len |-> r.len,
                lag |-> r.lag, coefs |-> r.coefs, residual |-> r.residual]
    BY Zenon DEF JointOf
  <2>2. DOMAIN r = {"count", "anchor", "quant", "resync", "len", "lag", "coefs", "residual"}
    BY <2>1
  <2> QED BY <2>1, <2>2 DEF IsComposition
<1>5. CountOf(r) = n /\ (PathTooLarge(r) <=> JointTooLarge(r))
  BY <1>4 DEF CountOf, PathTooLarge
<1> HIDE DEF k
<1>6. p \in Seq(Units) /\ Len(p) = 1 + Len(j) /\ Len(j) \in Nat
  <2> HIDE DEF j
  <2>1. k \o j \in Seq(Units) /\ Len(k \o j) = Len(k) + Len(j)
    BY <1>1, <1>2, ConcatProperties
  <2> QED BY <1>1, <1>2, <2>1
<1>8. /\ whole \in Seq(Units) /\ Len(whole) = 2 + Len(p)
      /\ s \in Seq(Units) /\ At(s, 2, p)
      /\ Len(s) = Len(whole) <=> 2 + Len(p) <= Len(s)
      /\ \A mode \in ModeNames : HasMode(s, mode) <=> Len(s) >= 2 /\ mode = "Geo3D"
  <2> HIDE DEF p
  <2> QED BY <1>3, <1>6, FrontIs
<1>9. /\ HasMode(s, "Geo3D") <=> Len(s) >= 2
      /\ ~HasMode(s, "Raw") /\ ~HasMode(s, "GeneralBWT") /\ ~HasMode(s, "GeneralLZ")
      /\ ~HasMode(s, "General") /\ ~HasMode(s, "Geo2D") /\ ~HasMode(s, "Pose")
  BY <1>8 DEF ModeNames
<1>10. Decompress(s) = {} /\ DecompressGeo2D(s) = {} /\ DecompressPose(s) = {}
  BY <1>9, OthersRefuse, Zenon
<1>11. At(s, 2, k) /\ At(s, 3, j)
  <2>0. 2 + 1 = 3 /\ 2 \in Nat
    OBVIOUS
  <2> HIDE DEF j
  <2>1. At(s, 2, k) /\ At(s, 2 + Len(k), j)
    BY <1>1, <1>2, <1>8, <2>0, AtConcat
  <2> QED BY <1>2, <2>0, <2>1
<1>12. Len(s) \in Nat /\ Len(s) <= Len(whole) /\ Len(whole) = 3 + Len(j)
  BY <1>6, <1>8 DEF FrontOf
<1>13. Yields({d.r : d \in DeserializeJoint(s, 3, 3, 9)}, Len(s) = Len(whole) /\ ~PathTooLarge(r), r)
  <2>1. 3 \in Nat /\ 9 \in Nat \ {0}
    OBVIOUS
  <2>2. Yields(DeserializeJoint(s, 3, 3, 9), 3 + Len(j) <= Len(s) /\ ~JointTooLarge(r),
               [r |-> r, next |-> 3 + Len(j)])
    BY <1>8, <1>11, <2>1, JointRead
  <2>3. Yields({d.r : d \in DeserializeJoint(s, 3, 3, 9)}, 3 + Len(j) <= Len(s) /\ ~JointTooLarge(r), r)
    BY <2>2, ItemOf
  <2>4. 3 + Len(j) <= Len(s) <=> Len(s) = Len(whole)
    BY <1>6, <1>12
  <2> QED BY <1>5, <2>3, <2>4 DEF Yields
<1>14. Yields(DecompressGeo3D(s), Len(s) = Len(whole) /\ ~PathTooLarge(r), r)
  <2>1. CASE ~HasMode(s, "Geo3D") \/ Len(s) < 3
    <3>1. DecompressGeo3D(s) = {}
      BY <2>1, Zenon DEF DecompressGeo3D
    <3>2. Len(s) # Len(whole)
      BY <1>6, <1>9, <1>12, <2>1
    <3> QED BY <3>1, <3>2 DEF Yields
  <2>2. CASE ~ (~HasMode(s, "Geo3D") \/ Len(s) < 3)
    <3>1. s[3] = Similarity3D
      <4>1. 1 \in 1 .. Len(k) /\ 2 + 1 <= Len(s) /\ 2 + 1 = 3
        BY <1>2, <1>12, <2>2
      <4> QED BY <1>2, <1>11, <4>1 DEF At
    <3>2. DecompressGeo3D(s) = {d.r : d \in DeserializeJoint(s, 3, 3, 9)}
      BY <2>2, <3>1, Zenon DEF DecompressGeo3D, DeserializeGeo3DSim
    <3> QED BY <1>13, <3>2
  <2> QED BY <2>1, <2>2
<1> QED BY <1>5, <1>8, <1>10, <1>14 DEF Answers, Yields

\* Any sequence can follow an empty one.
LEMMA NothingThere ==
  ASSUME NEW pos \in Nat, NEW w
  PROVE  <<>> \in Seq(Units) /\ At(<<>>, pos, w)
<1>1. Len(<<>>) = 0 /\ <<>> \in Seq(Units)
  OBVIOUS
<1>2. \A i \in 1 .. Len(w) : ~ (pos + i <= 0)
  OBVIOUS
<1> QED BY <1>1, <1>2 DEF At

\* A blob, and a sequence it is part of.
LEMMA BlobIs ==
  ASSUME NEW mode \in ModeNames, NEW payload \in Seq(Units)
  PROVE  WithMode(mode, payload) \in Seq(Units) /\ Len(WithMode(mode, payload)) = 2 + Len(payload)
<1>1. 0 \in Nat
  OBVIOUS
<1>2. <<>> \in Seq(Units) /\ At(<<>>, 0, WithMode(mode, payload))
  BY <1>1, NothingThere
<1> QED BY <1>2, ModeIs

\* A whole blob is a front of itself.
LEMMA WholeIsFront ==
  ASSUME NEW w \in Seq(Units)
  PROVE  FrontOf(w, w)
<1>1. Len(w) \in Nat /\ \A i \in 1 .. Len(w) : 0 + i = i
  OBVIOUS
<1>2. At(w, 0, w)
  BY <1>1 DEF At
<1> QED BY <1>1, <1>2 DEF FrontOf

\* A blob of a path, and what reads it.
PathBlob(b, n) ==
  /\ b.blob \in Seq(Units)
  /\ CountOf(b.content) = n
  /\ \A s : FrontOf(s, b.blob) =>
       Answers(s, "geo3d", Len(s) = Len(b.blob) /\ ~PathTooLarge(b.content), b.content)

\* Whichever way a path is stored, it is read back.
LEMMA PathAnswers ==
  ASSUME NEW n \in Counts, NEW q \in {1, 3}, NEW c \in Nat \ {0}, NEW b \in Geo3DBlobs(n, q, c)
  PROVE  PathBlob(b, n)
<1>0. "Geo3D" \in ModeNames /\ 3 \in Nat /\ 9 \in Nat \ {0} /\ 0 \in Nat
  BY DEF ModeNames
<1>1. CASE b = CompositionBlob(n, q, c)
  <2> DEFINE xy == Joint2D(n, q)
             z == Lift(n, q)
             g == SerializeGeo2D(xy, c)
             l == SerializeLift(z, c)
             w == WithMode("Geo3D", <<Composition>> \o g \o l)
             x == [xy |-> xy, z |-> z]
  <2>1. Joint2DOf(xy, n, q) /\ LiftOf(z, n, q)
    BY Joint2DIs, LiftIs
  <2>2. b.content = x /\ b.blob = w
    BY <1>1 DEF CompositionBlob
  <2> HIDE DEF xy, z
  <2>3. g \in Seq(Units) /\ l \in Seq(Units)
    <3>1. <<>> \in Seq(Units) /\ At(<<>>, 0, g) /\ At(<<>>, 0, l)
      BY <1>0, NothingThere, Zenon
    <3> QED BY <1>0, <2>1, <3>1, Joint2DRead, LiftRead
  <2>4. w \in Seq(Units)
    <3> HIDE DEF g, l
    <3>1. 0 \in Units
      BY DEF Units
    <3>2. <<Composition>> \o g \o l \in Seq(Units)
      BY <2>3, <3>1 DEF Composition
    <3> QED BY <1>0, <3>2, BlobIs
  <2>5. FrontOf(w, w)
    BY <2>4, WholeIsFront
  <2>6. ASSUME NEW s, FrontOf(s, w)
        PROVE  CountOf(x) = n /\ Answers(s, "geo3d", Len(s) = Len(w) /\ ~PathTooLarge(x), x)
    BY <2>1, <2>6, CompositionAnswers
  <2> HIDE DEF w, x
  <2> QED BY <2>2, <2>4, <2>5, <2>6 DEF PathBlob
<1>2. CASE b \in {SimilarityBlob(n, q, lens, c) : lens \in Lens(n)}
  <2>1. PICK lens \in Lens(n) : b = SimilarityBlob(n, q, lens, c)
    BY <1>2
  <2> DEFINE r == Joint(n, q, 3, 9, lens)
             j == SerializeGeo3DSim(r, c)
             w == WithMode("Geo3D", <<Similarity3D>> \o j)
  <2>2. JointOf(r, n, q, 3, 9)
    BY <1>0, JointIs
  <2>3. b.content = r /\ b.blob = w
    BY <2>1 DEF SimilarityBlob
  <2> HIDE DEF r
  <2>4. j \in Seq(Units)
    <3>1. <<>> \in Seq(Units) /\ At(<<>>, 0, SerializeJoint(r, c))
      BY <1>0, NothingThere, Zenon
    <3>2. SerializeJoint(r, c) \in Seq(Units)
      BY <1>0, <2>2, <3>1, JointRead
    <3> QED BY <3>2 DEF SerializeGeo3DSim
  <2>5. w \in Seq(Units)
    <3> HIDE DEF j
    <3>1. Similarity3D \in Units
      BY DEF Units, Similarity3D
    <3>2. <<Similarity3D>> \o j \in Seq(Units)
      BY <2>4, <3>1
    <3> QED BY <1>0, <3>2, BlobIs
  <2>6. FrontOf(w, w)
    BY <2>5, WholeIsFront
  <2>7. ASSUME NEW s, FrontOf(s, w)
        PROVE  CountOf(r) = n /\ Answers(s, "geo3d", Len(s) = Len(w) /\ ~PathTooLarge(r), r)
    BY <2>2, <2>7, SimilarityAnswers
  <2> HIDE DEF w
  <2> QED BY <2>3, <2>5, <2>6, <2>7 DEF PathBlob
<1> QED BY <1>1, <1>2 DEF Geo3DBlobs

\* A path and the rotations along it.
LEMMA PoseAnswers ==
  ASSUME NEW n \in Counts, NEW q \in {1, 3}, NEW c \in Nat \ {0}, NEW b, PathBlob(b, n),
         NEW r, JointOf(r, n, q, 4, 4), NEW whole, NEW s,
         whole = WithMode("Pose", <<Len(b.blob)>> \o b.blob \o SerializeQuatJoint(r, c)),
         FrontOf(s, whole)
  PROVE  Answers(s, "pose", Len(s) = Len(whole) /\ ~PathTooLarge(b.content) /\ ~JointTooLarge(r),
                 <<b.content, r>>)
<1> DEFINE j == SerializeJoint(r, c)
           g == b.blob
           m == Len(g)
           k == <<m>>
           p == k \o g \o j
           x == <<b.content, r>>
<1>0. 4 \in Nat /\ 4 \in Nat \ {0} /\ 0 \in Nat /\ 2 \in Nat
  OBVIOUS
<1>1. g \in Seq(Units) /\ j \in Seq(Units) /\ m \in Nat
  <2>1. <<>> \in Seq(Units) /\ At(<<>>, 0, j)
    BY <1>0, NothingThere, Zenon
  <2>2. j \in Seq(Units)
    BY <1>0, <2>1, JointRead
  <2>3. g \in Seq(Units)
    BY DEF PathBlob
  <2> QED BY <2>2, <2>3
<1> HIDE DEF m
<1>2. k \in Seq(Units) /\ Len(k) = 1 /\ k[1] = m
  <2>1. m \in Units
    BY <1>1 DEF Units
  <2> QED BY <2>1
<1>3. whole = WithMode("Pose", p) /\ "Pose" \in ModeNames
  BY DEF ModeNames, SerializeQuatJoint, m
<1>4. r.count = n
  BY DEF JointOf
<1>5. CountOf(b.content) = n
  BY DEF PathBlob
<1> HIDE DEF k, g, j
<1> DEFINE kg == k \o g
<1>6. kg \in Seq(Units) /\ Len(kg) = 1 + m /\ Len(j) \in Nat
  <2>1. k \o g \in Seq(Units) /\ Len(k \o g) = Len(k) + Len(g)
    BY <1>1, <1>2, ConcatProperties
  <2> QED BY <1>1, <1>2, <2>1 DEF m
<1>7. p \in Seq(Units) /\ Len(p) = 1 + m + Len(j)
  <2> HIDE DEF kg
  <2>1. kg \o j \in Seq(Units) /\ Len(kg \o j) = Len(kg) + Len(j)
    BY <1>1, <1>6, ConcatProperties
  <2> QED BY <1>6, <2>1 DEF kg
<1>8. /\ whole \in Seq(Units) /\ Len(whole) = 2 + Len(p)
      /\ s \in Seq(Units) /\ At(s, 2, p)
      /\ Len(s) = Len(whole) <=> 2 + Len(p) <= Len(s)
      /\ \A mode \in ModeNames : HasMode(s, mode) <=> Len(s) >= 2 /\ mode = "Pose"
  <2> HIDE DEF p
  <2> QED BY <1>3, <1>7, FrontIs
<1>9. /\ HasMode(s, "Pose") <=> Len(s) >= 2
      /\ ~HasMode(s, "Raw") /\ ~HasMode(s, "GeneralBWT") /\ ~HasMode(s, "GeneralLZ")
      /\ ~HasMode(s, "General") /\ ~HasMode(s, "Geo2D") /\ ~HasMode(s, "Geo3D")
  BY <1>8 DEF ModeNames
<1>10. Decompress(s) = {} /\ DecompressGeo2D(s) = {} /\ DecompressGeo3D(s) = {}
  BY <1>9, OthersRefuse, Zenon
<1>11. At(s, 2, k) /\ At(s, 3, g) /\ At(s, 3 + m, j)
  <2>0. 2 + 1 = 3 /\ 2 + (1 + m) = 3 + m
    BY <1>1
  <2>1. At(s, 2, kg \o j)
    BY <1>8 DEF kg
  <2>2. At(s, 2, kg) /\ At(s, 2 + Len(kg), j)
    <3> HIDE DEF kg
    <3> QED BY <1>0, <1>1, <1>6, <1>8, <2>1, AtConcat
  <2>3. At(s, 2, k \o g)
    BY <2>2 DEF kg
  <2>4. At(s, 2, k) /\ At(s, 2 + Len(k), g)
    BY <1>0, <1>1, <1>2, <1>8, <2>3, AtConcat
  <2> QED BY <1>2, <1>6, <2>0, <2>2, <2>4
<1>12. Len(s) \in Nat /\ Len(s) <= Len(whole) /\ Len(whole) = 3 + m + Len(j)
  BY <1>1, <1>6, <1>7, <1>8 DEF FrontOf
<1> DEFINE B == {d.r : d \in DeserializeQuatJoint(s, 3 + m)}
           A == DecompressGeo3D(g)
           ok == Len(s) = Len(whole) /\ ~PathTooLarge(b.content) /\ ~JointTooLarge(r)
<1>13. Yields(B, Len(s) = Len(whole) /\ ~JointTooLarge(r), r)
  <2>1. 3 + m \in Nat
    BY <1>1
  <2>2. Yields(DeserializeJoint(s, 3 + m, 4, 4), 3 + m + Len(j) <= Len(s) /\ ~JointTooLarge(r),
               [r |-> r, next |-> 3 + m + Len(j)])
    BY <1>0, <1>8, <1>11, <2>1, JointRead DEF j
  <2>3. Yields({d.r : d \in DeserializeJoint(s, 3 + m, 4, 4)},
               3 + m + Len(j) <= Len(s) /\ ~JointTooLarge(r), r)
    BY <2>2, ItemOf
  <2>4. 3 + m + Len(j) <= Len(s) <=> Len(s) = Len(whole)
    BY <1>1, <1>6, <1>12
  <2> QED BY <2>3, <2>4 DEF Yields, DeserializeQuatJoint
<1>14. Yields(A, ~PathTooLarge(b.content), b.content)
  <2>1. FrontOf(g, g)
    BY <1>1, WholeIsFront
  <2>2. Answers(g, "geo3d", Len(g) = Len(g) /\ ~PathTooLarge(b.content), b.content)
    BY <2>1 DEF PathBlob, g
  <2> QED BY <2>2 DEF Answers, Yields
<1>15. CASE ~HasMode(s, "Pose") \/ Len(s) < 3
  <2>1. DecompressPose(s) = {}
    BY <1>15, Zenon DEF DecompressPose
  <2>2. Len(s) # Len(whole)
    BY <1>1, <1>6, <1>9, <1>12, <1>15
  <2> QED BY <1>10, <2>1, <2>2 DEF Answers, Yields
<1>16. CASE ~ (~HasMode(s, "Pose") \/ Len(s) < 3)
  <2>1. s[3] = m
    <3>1. 1 \in 1 .. Len(k) /\ 2 + 1 <= Len(s) /\ 2 + 1 = 3
      BY <1>2, <1>12, <1>16
    <3> QED BY <1>2, <1>11, <3>1 DEF At
  <2>2. CASE 3 + m > Len(s)
    <3>1. DecompressPose(s) = {}
      BY <1>16, <2>1, <2>2, Zenon DEF DecompressPose
    <3>2. Len(s) # Len(whole)
      BY <1>1, <1>6, <1>12, <2>2
    <3> QED BY <1>10, <3>1, <3>2 DEF Answers, Yields
  <2>3. CASE ~ (3 + m > Len(s))
    <3>1. SubSeq(s, 4, 3 + m) = g
      <4>1. 3 \in Nat /\ 3 + 1 = 4 /\ 3 + Len(g) <= Len(s) /\ Len(g) = m
        BY <1>1, <1>12, <2>3 DEF m
      <4> QED BY <1>1, <1>8, <1>11, <4>1, SliceAt
    <3>2. DecompressPose(s) = {pose \in A \X B : CountOf(pose[1]) = pose[2].count}
      BY <1>16, <2>1, <2>3, <3>1, Zenon DEF DecompressPose
    <3>3. Yields(DecompressPose(s), ok, x)
      <4> HIDE DEF A, B
      <4>1. CASE ok
        <5>1. A = {b.content} /\ B = {r}
          BY <1>13, <1>14, <4>1 DEF Yields
        <5>2. A \X B = {x}
          BY <5>1
        <5>3. x[1] = b.content /\ x[2] = r
          OBVIOUS
        <5> HIDE DEF x
        <5>4. DecompressPose(s) = {x}
          BY <1>4, <1>5, <3>2, <5>2, <5>3
        <5> QED BY <4>1, <5>4 DEF Yields
      <4>2. CASE ~ok
        <5>1. A = {} \/ B = {}
          BY <1>13, <1>14, <4>2 DEF Yields
        <5>2. DecompressPose(s) = {}
          BY <3>2, <5>1
        <5> QED BY <4>2, <5>2 DEF Yields
      <4> QED BY <4>1, <4>2
    <3> QED BY <1>10, <3>3 DEF Answers, Yields
  <2> QED BY <2>2, <2>3
<1> QED BY <1>15, <1>16
-----------------------------------------------------------------------------
(* What the program does with blobs.                                         *)

\* What the decoder of a refuses to read out of s although it is x.
Refuses(a, s, x) ==
  CASE a = "bytes" -> HasMode(s, "General") /\ LiftTooLarge(x)
    [] a = "geo2d" -> Joint2DTooLarge(x)
    [] a = "geo3d" -> PathTooLarge(x)
    [] a = "pose" -> PathTooLarge(x[1]) \/ JointTooLarge(x[2])

\* w is a blob of a's with x in it: of any front of it, a's decoder makes x if it is all
\* there and not refused, and every other decoder, and of any shorter front every one, nothing.
Readable(a, x, w) ==
  /\ a \in Apis /\ w \in Seq(Units)
  /\ \A s : FrontOf(s, w) => Answers(s, a, Len(s) = Len(w) /\ ~Refuses(a, s, x), x)

\* Four ways to write bytes, and all of them can be read.
LEMMA BytesReadable ==
  ASSUME NEW n \in Counts, NEW c \in Nat \ {0}
  PROVE  /\ Readable("bytes", Counting(n), WithMode("Raw", <<n>> \o Counting(n)))
         /\ n > 0 => Readable("bytes", Counting(n), WithMode("GeneralLZ", LzPayload(Counting(n), c)))
         /\ n > 0 => Readable("bytes", Counting(n), WithMode("GeneralBWT", BwtPayload(Counting(n), c)))
         /\ Readable("bytes", Lift(n, 1), WithMode("General", SerializeLift(Lift(n, 1), c)))
<1> DEFINE b == Counting(n)
           raw == WithMode("Raw", <<n>> \o b)
           lz == WithMode("GeneralLZ", LzPayload(b, c))
           bwt == WithMode("GeneralBWT", BwtPayload(b, c))
           r == Lift(n, 1)
           lift == WithMode("General", SerializeLift(r, c))
<1>0. /\ n \in Nat /\ 0 \in Nat /\ 1 \in {1, 3} /\ "bytes" \in Apis
      /\ "Raw" \in ModeNames /\ "General" \in ModeNames
      /\ "GeneralLZ" \in ModeNames /\ "GeneralBWT" \in ModeNames
  BY ContainerAssumption DEF ModeNames, Apis
<1>1. b \in Seq(Int) /\ Len(b) = n /\ (n > 0 => b # <<>>)
  BY <1>0, CountingIs
<1>2. ASSUME NEW w, w \in Seq(Units), NEW x,
             \A s : FrontOf(s, w) =>
               ~HasMode(s, "General") /\ Answers(s, "bytes", Len(s) = Len(w), x)
      PROVE  Readable("bytes", x, w)
  <2>1. ASSUME NEW s, FrontOf(s, w)
        PROVE  Answers(s, "bytes", Len(s) = Len(w) /\ ~Refuses("bytes", s, x), x)
    <3>1. ~HasMode(s, "General") /\ Answers(s, "bytes", Len(s) = Len(w), x)
      BY <1>2, <2>1
    <3>2. ~Refuses("bytes", s, x)
      BY <3>1 DEF Refuses
    <3> QED BY <3>1, <3>2 DEF Answers, Yields
  <2> QED BY <1>0, <1>2, <2>1 DEF Readable
<1>3. Readable("bytes", b, raw)
  <2>1. raw \in Seq(Units)
    <3> HIDE DEF b
    <3>1. n \in Units /\ b \in Seq(Units)
      BY <1>0, <1>1, IntsAreUnits DEF Units
    <3>2. <<n>> \o b \in Seq(Units)
      BY <3>1
    <3> QED BY <1>0, <3>2, BlobIs
  <2>2. ASSUME NEW s, FrontOf(s, raw)
        PROVE  ~HasMode(s, "General") /\ Answers(s, "bytes", Len(s) = Len(raw), b)
    BY <1>0, <2>2, RawAnswers
  <2> HIDE DEF raw, b
  <2> QED BY <1>2, <2>1, <2>2
<1>4. ASSUME n > 0 PROVE Readable("bytes", b, lz)
  <2>0. n \in Nat \ {0}
    BY <1>0, <1>4
  <2>1. lz \in Seq(Units)
    <3> HIDE DEF b
    <3>1. <<>> \in Seq(Units) /\ At(<<>>, 0, LzPayload(b, c))
      BY <1>0, NothingThere, Zenon
    <3>2. LzPayload(b, c) \in Seq(Units)
      BY <1>0, <1>1, <1>4, <3>1, LzRead
    <3> QED BY <1>0, <3>2, BlobIs
  <2>2. ASSUME NEW s, FrontOf(s, lz)
        PROVE  ~HasMode(s, "General") /\ Answers(s, "bytes", Len(s) = Len(lz), b)
    BY <2>0, <2>2, LzAnswers
  <2> HIDE DEF lz, b
  <2> QED BY <1>2, <2>1, <2>2
<1>5. ASSUME n > 0 PROVE Readable("bytes", b, bwt)
  <2>0. n \in Nat \ {0}
    BY <1>0, <1>5
  <2>1. bwt \in Seq(Units)
    <3> HIDE DEF b
    <3>1. <<>> \in Seq(Units) /\ At(<<>>, 0, BwtPayload(b, c))
      BY <1>0, NothingThere, Zenon
    <3>2. BwtPayload(b, c) \in Seq(Units)
      BY <1>0, <1>1, <1>5, <3>1, BwtRead
    <3> QED BY <1>0, <3>2, BlobIs
  <2>2. ASSUME NEW s, FrontOf(s, bwt)
        PROVE  ~HasMode(s, "General") /\ Answers(s, "bytes", Len(s) = Len(bwt), b)
    BY <2>0, <2>2, BwtAnswers
  <2> HIDE DEF bwt, b
  <2> QED BY <1>2, <2>1, <2>2
<1>6. Readable("bytes", r, lift)
  <2>0. LiftOf(r, n, 1)
    BY <1>0, LiftIs
  <2> HIDE DEF r
  <2>1. lift \in Seq(Units) /\ Len(lift) >= 2
    <3> DEFINE l == SerializeLift(r, c)
    <3>1. <<>> \in Seq(Units) /\ At(<<>>, 0, l)
      BY <1>0, NothingThere, Zenon
    <3>2. l \in Seq(Units)
      BY <1>0, <2>0, <3>1, LiftRead
    <3> HIDE DEF l
    <3>3. WithMode("General", l) \in Seq(Units) /\ Len(WithMode("General", l)) = 2 + Len(l)
      BY <1>0, <3>2, BlobIs
    <3>4. Len(l) \in Nat
      BY <3>2
    <3> QED BY <3>3, <3>4 DEF l
  <2>2. ASSUME NEW s, FrontOf(s, lift)
        PROVE  Answers(s, "bytes", Len(s) = Len(lift) /\ ~Refuses("bytes", s, r), r)
    <3>1. /\ HasMode(s, "General") <=> Len(s) >= 2
          /\ Answers(s, "bytes", Len(s) = Len(lift) /\ ~LiftTooLarge(r), r)
      BY <2>0, <2>2, GeneralAnswers
    <3>2. Refuses("bytes", s, r) <=> HasMode(s, "General") /\ LiftTooLarge(r)
      BY DEF Refuses
    <3>3. Len(s) = Len(lift) => HasMode(s, "General")
      BY <2>1, <3>1
    <3> HIDE DEF lift
    <3> QED BY <3>1, <3>2, <3>3 DEF Answers, Yields
  <2> HIDE DEF lift
  <2> QED BY <1>0, <2>1, <2>2 DEF Readable
<1> QED BY <1>3, <1>4, <1>5, <1>6

\* So can a path of two dimensions.
LEMMA Geo2DReadable ==
  ASSUME NEW n \in Counts, NEW q \in {1, 3}, NEW c \in Nat \ {0}
  PROVE  Readable("geo2d", Joint2D(n, q), WithMode("Geo2D", SerializeGeo2D(Joint2D(n, q), c)))
<1> DEFINE r == Joint2D(n, q)
           p == SerializeGeo2D(r, c)
           w == WithMode("Geo2D", p)
<1>1. Joint2DOf(r, n, q)
  BY Joint2DIs
<1> HIDE DEF r
<1>2. w \in Seq(Units)
  <2>0. 0 \in Nat /\ "Geo2D" \in ModeNames
    BY DEF ModeNames
  <2>1. <<>> \in Seq(Units) /\ At(<<>>, 0, p)
    BY <2>0, NothingThere, Zenon
  <2>2. p \in Seq(Units)
    BY <1>1, <2>0, <2>1, Joint2DRead
  <2> HIDE DEF p
  <2> QED BY <2>0, <2>2, BlobIs
<1>3. ASSUME NEW s, FrontOf(s, w)
      PROVE  Answers(s, "geo2d", Len(s) = Len(w) /\ ~Refuses("geo2d", s, r), r)
  <2>1. Answers(s, "geo2d", Len(s) = Len(w) /\ ~Joint2DTooLarge(r), r)
    BY <1>1, <1>3, Geo2DAnswers
  <2>2. Refuses("geo2d", s, r) <=> Joint2DTooLarge(r)
    BY DEF Refuses
  <2> HIDE DEF w
  <2> QED BY <2>1, <2>2 DEF Answers, Yields
<1>4. "geo2d" \in Apis
  BY DEF Apis
<1> HIDE DEF w
<1>5. Readable("geo2d", r, w)
  BY <1>2, <1>3, <1>4 DEF Readable
<1> QED BY <1>5 DEF r, w

\* And one of three, stored either way.
LEMMA Geo3DReadable ==
  ASSUME NEW n \in Counts, NEW q \in {1, 3}, NEW c \in Nat \ {0}, NEW b \in Geo3DBlobs(n, q, c)
  PROVE  Readable("geo3d", b.content, b.blob)
<1>1. PathBlob(b, n)
  BY PathAnswers
<1>2. ASSUME NEW s PROVE Refuses("geo3d", s, b.content) <=> PathTooLarge(b.content)
  BY DEF Refuses
<1>3. ASSUME NEW s, FrontOf(s, b.blob)
      PROVE  Answers(s, "geo3d", Len(s) = Len(b.blob) /\ ~Refuses("geo3d", s, b.content), b.content)
  <2>1. Answers(s, "geo3d", Len(s) = Len(b.blob) /\ ~PathTooLarge(b.content), b.content)
    BY <1>1, <1>3 DEF PathBlob
  <2> QED BY <1>2, <2>1 DEF Answers, Yields
<1>4. "geo3d" \in Apis /\ b.blob \in Seq(Units)
  BY <1>1 DEF Apis, PathBlob
<1> QED BY <1>3, <1>4 DEF Readable

\* And one with its rotations.
LEMMA PoseReadable ==
  ASSUME NEW n \in Counts, NEW q \in {1, 3}, NEW c \in Nat \ {0}, NEW b \in Geo3DBlobs(n, q, c),
         NEW r \in QuatJoints(n, q)
  PROVE  Readable("pose", <<b.content, r>>,
                  WithMode("Pose", <<Len(b.blob)>> \o b.blob \o SerializeQuatJoint(r, c)))
<1> DEFINE j == SerializeQuatJoint(r, c)
           p == <<Len(b.blob)>> \o b.blob \o j
           w == WithMode("Pose", p)
           x == <<b.content, r>>
<1>0. 0 \in Nat /\ 4 \in Nat /\ 4 \in Nat \ {0} /\ "Pose" \in ModeNames /\ "pose" \in Apis
  BY DEF ModeNames, Apis
<1>1. PathBlob(b, n)
  BY PathAnswers
<1>2. JointOf(r, n, q, 4, 4)
  <2>1. PICK lens \in Lens(n) : r = Joint(n, q, 4, 4, lens)
    BY DEF QuatJoints
  <2> QED BY <1>0, <2>1, JointIs
<1>3. w \in Seq(Units)
  <2>1. j \in Seq(Units)
    <3>1. <<>> \in Seq(Units) /\ At(<<>>, 0, SerializeJoint(r, c))
      BY <1>0, NothingThere, Zenon
    <3> QED BY <1>0, <1>2, <3>1, JointRead DEF SerializeQuatJoint
  <2>2. b.blob \in Seq(Units)
    BY <1>1 DEF PathBlob
  <2>3. Len(b.blob) \in Units
    BY <2>2 DEF Units
  <2> HIDE DEF j
  <2>4. p \in Seq(Units)
    BY <2>1, <2>2, <2>3
  <2> HIDE DEF p
  <2> QED BY <1>0, <2>4, BlobIs
<1>4. ASSUME NEW s, FrontOf(s, w)
      PROVE  Answers(s, "pose", Len(s) = Len(w) /\ ~Refuses("pose", s, x), x)
  <2>1. Answers(s, "pose", Len(s) = Len(w) /\ ~PathTooLarge(b.content) /\ ~JointTooLarge(r), x)
    BY <1>1, <1>2, <1>4, PoseAnswers
  <2>2. Refuses("pose", s, x) <=> PathTooLarge(b.content) \/ JointTooLarge(r)
    BY DEF Refuses
  <2> HIDE DEF w, x
  <2> QED BY <2>1, <2>2 DEF Answers, Yields
<1> HIDE DEF w, x
<1>5. Readable("pose", x, w)
  BY <1>0, <1>3, <1>4 DEF Readable
<1> QED BY <1>5 DEF x, w

\* The inductive invariant: what is in memory is a front of a readable blob, shorter
\* than it exactly if it was cut, and nothing is decoded before it is written.
ContainerInv ==
  /\ api = "" => reader = "" /\ cut = FALSE
  /\ api # "" => \E w : Readable(api, written, w) /\ FrontOf(blob, w) /\ (cut <=> Len(blob) < Len(w))
  /\ ReadsWhatWasWritten

\* Every compressor leaves a blob its decompressor can read.
LEMMA WrittenIsReadable ==
  ASSUME NEW a, NEW x, NEW w, Readable(a, x, w), Write(a, x, w), ContainerInv
  PROVE  ContainerInv'
<1>1. api = "" /\ api' = a /\ written' = x /\ blob' = w /\ cut' = cut /\ reader' = reader
  BY DEF Write
<1>2. reader' = "" /\ cut' = FALSE
  BY <1>1 DEF ContainerInv
<1>3. FrontOf(w, w) /\ a # "" /\ Len(w) \in Nat
  <2>1. w \in Seq(Units) /\ a \in Apis
    BY DEF Readable
  <2>2. a # ""
    BY <2>1 DEF Apis
  <2>3. FrontOf(w, w)
    BY <2>1, WholeIsFront
  <2>4. Len(w) \in Nat
    BY <2>1
  <2> QED BY <2>2, <2>3, <2>4
<1>4. Readable(api', written', w) /\ FrontOf(blob', w) /\ (cut' <=> Len(blob') < Len(w))
  <2>1. \A l \in Nat : ~ (l < l)
    OBVIOUS
  <2>2. ~ (Len(w) < Len(w))
    BY <1>3, <2>1
  <2> QED BY <1>1, <1>2, <1>3, <2>2
<1>5. ReadsWhatWasWritten'
  BY <1>2 DEF ReadsWhatWasWritten
<1> QED BY <1>1, <1>2, <1>3, <1>4, <1>5 DEF ContainerInv

\* A shorter front of a blob.
LEMMA CutIsFront ==
  ASSUME NEW w \in Seq(Units), NEW s, FrontOf(s, w), NEW size \in 0 .. Len(s) - 1
  PROVE  FrontOf(SubSeq(s, 1, size), w) /\ Len(SubSeq(s, 1, size)) < Len(w)
<1> DEFINE u == SubSeq(s, 1, size)
<1>1. s \in Seq(Units) /\ Len(s) \in Nat /\ Len(s) <= Len(w) /\ Len(w) \in Nat
  BY DEF FrontOf
<1>2. u \in Seq(Units) /\ Len(u) = size /\ \A i \in 1 .. size : u[i] = s[i]
  <2>1. size \in Int /\ size >= 0 /\ size <= Len(s)
    BY <1>1
  <2>2. CASE size = 0
    BY <1>1, <2>2
  <2>3. CASE size >= 1
    BY <1>1, <2>1, <2>3
  <2> QED BY <2>1, <2>2, <2>3
<1> HIDE DEF u
<1>3. ASSUME NEW i \in 1 .. Len(w), 0 + i <= Len(u) PROVE u[0 + i] = w[i]
  <2>1. 0 + i = i /\ i \in 1 .. size /\ i <= Len(s)
    BY <1>1, <1>2, <1>3
  <2>2. s[0 + i] = w[i]
    BY <2>1 DEF FrontOf, At
  <2> QED BY <1>2, <2>1, <2>2
<1> QED BY <1>1, <1>2, <1>3 DEF FrontOf, At, u

\* What a decoder makes of a blob.
LEMMA DecodedIs ==
  ASSUME NEW a \in Apis, Decode(a), ContainerInv
  PROVE  ContainerInv'
<1>1. api # "" /\ reader = "" /\ reader' = a /\ UNCHANGED <<api, written, blob, cut>>
  BY DEF Decode
<1>2. PICK w : Readable(api, written, w) /\ FrontOf(blob, w) /\ (cut <=> Len(blob) < Len(w))
  BY <1>1 DEF ContainerInv
<1>3. Len(blob) <= Len(w) /\ Len(blob) \in Nat /\ Len(w) \in Nat
  BY <1>2 DEF FrontOf, Readable
<1>4. ~cut <=> Len(blob) = Len(w)
  BY <1>2, <1>3
<1>5. Answers(blob, api, ~cut /\ ~TooLarge(written), written)
  <2>1. Answers(blob, api, Len(blob) = Len(w) /\ ~Refuses(api, blob, written), written)
    BY <1>2 DEF Readable
  <2>2. Refuses(api, blob, written) = TooLarge(written)
    BY Zenon DEF Refuses, TooLarge
  <2> QED BY <1>4, <2>1, <2>2 DEF Answers, Yields
<1>6. Yields(got', api = a /\ ~cut /\ ~TooLarge(written), written)
  <2>1. CASE a = "bytes"
    BY <1>5, <2>1 DEF Decode, Answers
  <2>2. CASE a = "geo2d"
    BY <1>5, <2>2 DEF Decode, Answers
  <2>3. CASE a = "geo3d"
    BY <1>5, <2>3 DEF Decode, Answers
  <2>4. CASE a = "pose"
    BY <1>5, <2>4 DEF Decode, Answers
  <2> QED BY <2>1, <2>2, <2>3, <2>4 DEF Apis
<1>7. TooLarge(written)' = TooLarge(written)
  BY <1>1 DEF TooLarge
<1>8. ReadsWhatWasWritten'
  BY <1>1, <1>6, <1>7 DEF ReadsWhatWasWritten, Yields
<1>9. Readable(api', written', w) /\ FrontOf(blob', w) /\ (cut' <=> Len(blob') < Len(w))
  BY <1>1, <1>2
<1> QED BY <1>1, <1>8, <1>9 DEF ContainerInv

\* The container: whatever was written, and however much of it is left, every decoder
\* makes of it exactly what the invariant says.
THEOREM ContainerInvariant == ContainerSpec => []ContainerInv
<1>1. ContainerInit => ContainerInv
  BY DEF ContainerInit, ContainerInv, ReadsWhatWasWritten
<1>2. ContainerInv /\ [ContainerNext]_containerVars => ContainerInv'
  <2> SUFFICES ASSUME ContainerInv, [ContainerNext]_containerVars PROVE ContainerInv'
    OBVIOUS
  <2>0. CodedSizes \subseteq Nat \ {0} /\ Counts \subseteq Nat
    BY ContainerAssumption
  <2>1. ASSUME NEW n \in Counts, NEW c \in CodedSizes, Compress(n, c) PROVE ContainerInv'
    <3>0. c \in Nat \ {0} /\ n \in Nat
      BY <2>0
    <3>1. CASE Write("bytes", Counting(n), WithMode("Raw", <<n>> \o Counting(n)))
      BY <3>0, <3>1, BytesReadable, WrittenIsReadable, Zenon
    <3>2. CASE n > 0 /\ Write("bytes", Counting(n), WithMode("GeneralLZ", LzPayload(Counting(n), c)))
      BY <3>0, <3>2, BytesReadable, WrittenIsReadable, Zenon
    <3>3. CASE n \in 1 .. BwtLimit
               /\ Write("bytes", Counting(n), WithMode("GeneralBWT", BwtPayload(Counting(n), c)))
      <4>1. n > 0
        BY <3>0, <3>3
      <4> QED BY <3>0, <3>3, <4>1, BytesReadable, WrittenIsReadable, Zenon
    <3>4. CASE Write("bytes", Lift(n, 1), WithMode("General", SerializeLift(Lift(n, 1), c)))
      BY <3>0, <3>4, BytesReadable, WrittenIsReadable, Zenon
    <3> QED BY <2>1, <3>1, <3>2, <3>3, <3>4, Zenon DEF Compress, Counting
  <2>2. ASSUME NEW n \in Counts, NEW q \in {1, 3}, NEW c \in CodedSizes, CompressGeo2D(n, q, c)
        PROVE  ContainerInv'
    <3>1. c \in Nat \ {0}
      BY <2>0
    <3>2. Write("geo2d", Joint2D(n, q), WithMode("Geo2D", SerializeGeo2D(Joint2D(n, q), c)))
      BY <2>2, Zenon DEF CompressGeo2D
    <3> QED BY <3>1, <3>2, Geo2DReadable, WrittenIsReadable, Zenon
  <2>3. ASSUME NEW n \in Counts, NEW q \in {1, 3}, NEW c \in CodedSizes, CompressGeo3D(n, q, c)
        PROVE  ContainerInv'
    <3>1. c \in Nat \ {0}
      BY <2>0
    <3>2. PICK b \in Geo3DBlobs(n, q, c) : Write("geo3d", b.content, b.blob)
      BY <2>3, Zenon DEF CompressGeo3D
    <3>3. Readable("geo3d", b.content, b.blob)
      BY <3>1, Geo3DReadable
    <3> QED BY <3>2, <3>3, WrittenIsReadable, Zenon
  <2>4. ASSUME NEW n \in Counts, NEW q \in {1, 3}, NEW c \in CodedSizes, CompressPose(n, q, c)
        PROVE  ContainerInv'
    <3>1. c \in Nat \ {0}
      BY <2>0
    <3>2. PICK b \in Geo3DBlobs(n, q, c), r \in QuatJoints(n, q) :
            Write("pose", <<b.content, r>>,
                  WithMode("Pose", <<Len(b.blob)>> \o b.blob \o SerializeQuatJoint(r, c)))
      BY <2>4, Zenon DEF CompressPose
    <3>3. Readable("pose", <<b.content, r>>,
                   WithMode("Pose", <<Len(b.blob)>> \o b.blob \o SerializeQuatJoint(r, c)))
      BY <3>1, PoseReadable
    <3> QED BY <3>2, <3>3, WrittenIsReadable, Zenon
  <2>5. ASSUME NEW size \in 0 .. Len(blob) - 1, Cut(size) PROVE ContainerInv'
    <3>1. /\ api # "" /\ reader = "" /\ blob' = SubSeq(blob, 1, size) /\ cut' = TRUE
          /\ UNCHANGED <<api, written, reader, got>>
      BY <2>5 DEF Cut
    <3>2. PICK w : Readable(api, written, w) /\ FrontOf(blob, w)
      BY <3>1 DEF ContainerInv
    <3>3. w \in Seq(Units)
      BY <3>2 DEF Readable
    <3>4. FrontOf(SubSeq(blob, 1, size), w) /\ Len(SubSeq(blob, 1, size)) < Len(w)
      BY <3>2, <3>3, CutIsFront
    <3>5. Readable(api', written', w) /\ FrontOf(blob', w) /\ (cut' <=> Len(blob') < Len(w))
      BY <3>1, <3>2, <3>4
    <3>6. ReadsWhatWasWritten'
      BY <3>1 DEF ReadsWhatWasWritten
    <3> QED BY <3>1, <3>5, <3>6 DEF ContainerInv
  <2>6. ASSUME NEW a \in Apis, Decode(a) PROVE ContainerInv'
    BY <2>6, DecodedIs
  <2>7. CASE UNCHANGED containerVars
    <3>1. TooLarge(written)' = TooLarge(written)
      BY <2>7 DEF containerVars, TooLarge
    <3>2. ReadsWhatWasWritten'
      BY <2>7, <3>1 DEF containerVars, ContainerInv, ReadsWhatWasWritten
    <3> QED BY <2>7, <3>2 DEF containerVars, ContainerInv
  <2> QED BY <2>1, <2>2, <2>3, <2>4, <2>5, <2>6, <2>7 DEF ContainerNext
<1> QED BY <1>1, <1>2, PTL DEF ContainerSpec

\* A blob is read back as what was written into it, by the functions it was written with
\* and only if all of it is there.
THEOREM BlobsReadBack == ContainerSpec => []ReadsWhatWasWritten
<1>1. ContainerInv => ReadsWhatWasWritten
  BY DEF ContainerInv
<1> QED BY <1>1, ContainerInvariant, PTL
=============================================================================
