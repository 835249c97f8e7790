------------------------- MODULE PacketReassembler -------------------------
(***************************************************************************)
(* csa::PacketReassembler (packet_transport.cpp): feed() takes one         *)
(* datagram in any order, holds what is early in pending_, and calls       *)
(* on_deliver / on_lost in sequence order; flush() empties what is held.   *)
(*                                                                         *)
(* The user's callbacks run in the middle of feed() and flush() and may    *)
(* throw, so every callback is a step of its own: pc says where the        *)
(* handler is, and no other call starts until pc is "idle" again.          *)
(*                                                                         *)
(* SeqMod stands for 2^32, the range of the u32 sequence numbers.          *)
(***************************************************************************)
EXTENDS Integers, Sequences, FiniteSets, FiniteSetsExt

CONSTANTS
  SeqMod,           \* number of sequence numbers (2^32 in the code)
  Window,           \* max_reorder_window_
  Payloads,         \* what a packet may carry
  Absent,           \* not a payload: the sequence number is not held
  DeliverMayThrow,  \* may the caller's on_deliver throw?
  MaxLog            \* bound: no datagram is fed once this many callbacks ran

ASSUME ReassemblerAssumption ==
  /\ SeqMod \in Nat \ {0}
  /\ Window \in Nat
  /\ MaxLog \in Nat
  /\ Absent \notin Payloads
  /\ DeliverMayThrow \in BOOLEAN

VARIABLES
  next,     \* next_expected_seq_
  pending,  \* pending_: the payload held under each sequence number, or Absent
  pc,       \* where feed() or flush() is
  jumps,    \* turns of the window-closing (or flushing) loop in this call
  log,      \* the callbacks made so far, oldest first
  threw     \* has on_deliver ever thrown?

vars == <<next, pending, pc, jumps, log, threw>>

Seqs == 0 .. SeqMod - 1

Held == {s \in Seqs : pending[s] # Absent}

Earliest == Min(Held)

\* Faulty variant: one entry too many is tolerated.
WindowExceededLate ==
  /\ Held # {}
  /\ \/ Cardinality(Held) > Window + 1
     \/ Earliest - next > Window

\* The condition of the while loop that gives up waiting.
WindowExceeded ==
  /\ Held # {}
  /\ \/ Cardinality(Held) > Window
     \/ Earliest - next > Window

Event(kind, seq, count, payload) ==
  [kind |-> kind, seq |-> seq, count |-> count, payload |-> payload]

Init ==
  /\ next = 0
  /\ pending = [s \in Seqs |-> Absent]
  /\ pc = "idle"
  /\ jumps = 0
  /\ log = <<>>
  /\ threw = FALSE
-----------------------------------------------------------------------------
\* deliver_and_advance: the callback first, next_expected_seq_ only if it
\* returns. An exception leaves the handler at once.
DeliverReturns(s, payload, after) ==
  /\ log' = Append(log, Event("deliver", s, 1, payload))
  /\ next' = (s + 1) % SeqMod
  /\ pc' = after
  /\ UNCHANGED threw

DeliverThrows(s, payload) ==
  /\ DeliverMayThrow
  /\ log' = Append(log, Event("threw", s, 0, payload))
  /\ pc' = "idle"
  /\ threw' = TRUE
  /\ UNCHANGED next

DeliverAndAdvance(s, payload, after) ==
  \/ DeliverReturns(s, payload, after)
  \/ DeliverThrows(s, payload)

CanFeed == pc = "idle" /\ Len(log) < MaxLog

\* A datagram deserialize_packet rejects: on_corrupt_() and nothing else.
FeedInvalid == CanFeed /\ UNCHANGED vars

\* Already delivered, or already written off.
FeedStale(s) ==
  /\ CanFeed
  /\ s < next
  /\ UNCHANGED vars

\* Faulty variant: what is held behind the delivered packet is not drained.
FeedExpectedNoDrain(s, payload) ==
  /\ CanFeed
  /\ s = next
  /\ DeliverAndAdvance(s, payload, "idle")
  /\ jumps' = 0
  /\ UNCHANGED pending

FeedExpected(s, payload) ==
  /\ CanFeed
  /\ s = next
  /\ DeliverAndAdvance(s, payload, "drain")
  /\ jumps' = 0
  /\ UNCHANGED pending

FeedAhead(s, payload) ==
  /\ CanFeed
  /\ s > next
  /\ pending' = [pending EXCEPT ![s] = payload]
  /\ pc' = "close"
  /\ jumps' = 0
  /\ UNCHANGED <<next, log, threw>>

\* drain_pending: one held packet that has become the expected one. It is
\* taken out of pending_ before the callback sees it.
Drain ==
  /\ pc \in {"drain", "closeDrain"}
  /\ next \in Held
  /\ pending' = [pending EXCEPT ![next] = Absent]
  /\ DeliverAndAdvance(next, pending[next], pc)
  /\ UNCHANGED jumps

DrainDone ==
  /\ pc \in {"drain", "closeDrain"}
  /\ next \notin Held
  /\ pc' = IF pc = "drain" THEN "idle" ELSE "close"
  /\ UNCHANGED <<next, pending, jumps, log, threw>>

\* One turn of the loop that closes the window (feed) or empties the buffer
\* (flush): what is missing in front of the earliest held packet is reported
\* as one lost range, then that packet is delivered.
MustJump ==
  \/ pc = "close" /\ WindowExceeded
  \/ pc = "flush" /\ Held # {}

\* Faulty variant: the lost range is one too long.
ReportGapLong ==
  /\ MustJump
  /\ log' = IF Earliest > next
            THEN Append(log, Event("lost", next, Earliest - next + 1, Absent))
            ELSE log
  /\ pc' = IF pc = "close" THEN "closeJump" ELSE "flushJump"
  /\ UNCHANGED <<next, pending, jumps, threw>>

ReportGap ==
  /\ MustJump
  /\ log' = IF Earliest > next
            THEN Append(log, Event("lost", next, Earliest - next, Absent))
            ELSE log
  /\ pc' = IF pc = "close" THEN "closeJump" ELSE "flushJump"
  /\ UNCHANGED <<next, pending, jumps, threw>>

\* Faulty variant: the packet is delivered without being taken out of pending_.
JumpKeeps ==
  /\ pc \in {"closeJump", "flushJump"}
  /\ DeliverAndAdvance(Earliest, pending[Earliest],
                       IF pc = "closeJump" THEN "closeDrain" ELSE "flush")
  /\ jumps' = jumps + 1
  /\ UNCHANGED pending

Jump ==
  /\ pc \in {"closeJump", "flushJump"}
  /\ pending' = [pending EXCEPT ![Earliest] = Absent]
  /\ DeliverAndAdvance(Earliest, pending[Earliest],
                       IF pc = "closeJump" THEN "closeDrain" ELSE "flush")
  /\ jumps' = jumps + 1

LoopDone ==
  /\ pc \in {"close", "flush"}
  /\ ~MustJump
  /\ pc' = "idle"
  /\ UNCHANGED <<next, pending, jumps, log, threw>>

Flush ==
  /\ pc = "idle"
  /\ pc' = "flush"
  /\ jumps' = 0
  /\ UNCHANGED <<next, pending, log, threw>>

Feed ==
  \/ FeedInvalid
  \/ \E s \in Seqs : FeedStale(s)
  \/ \E s \in Seqs, payload \in Payloads :
       FeedExpected(s, payload) \/ FeedAhead(s, payload)

\* The rest of a feed() or flush() that has started.
Handler == Drain \/ DrainDone \/ ReportGap \/ Jump \/ LoopDone

Next == Feed \/ Flush \/ Handler

Spec == Init /\ [][Next]_vars
-----------------------------------------------------------------------------
Events ==
  [kind : {"deliver", "lost", "threw"}, seq : Seqs, count : 0 .. SeqMod,
   payload : Payloads \union {Absent}]

\* The state stays within the types the code declares.
TypeOK ==
  /\ next \in Seqs
  /\ pending \in [Seqs -> Payloads \union {Absent}]
  /\ pc \in {"idle", "drain", "close", "closeJump", "closeDrain", "flush",
             "flushJump"}
  /\ jumps \in Nat
  /\ log \in Seq(Events)
  /\ threw \in BOOLEAN

\* Where the sequence space continues after a callback, and after a log.
EndOf(e) == (e.seq + e.count) % SeqMod

LastEnd(l) == IF l = <<>> THEN 0 ELSE EndOf(l[Len(l)])

\* The callbacks of l cover the sequence space from 0 on, each starting where
\* the one before it ended.
Tiles(l) ==
  \A i \in 1 .. Len(l) : l[i].seq = IF i = 1 THEN 0 ELSE EndOf(l[i - 1])

\* "Strictly in seq order once each is either received or given up on": while
\* no callback has thrown, delivered packets and lost ranges follow each other
\* without a hole and without an overlap, from 0 up to what is awaited now,
\* also over the wrap of the 32-bit sequence number.
CallbacksTile ==
  ~threw =>
    /\ Tiles(log)
    /\ LastEnd(log) = IF pc \in {"closeJump", "flushJump"} THEN Earliest ELSE next

\* Between calls nothing is held at or behind the awaited number, where no
\* later call would ever find it, also when callbacks throw.
NothingStranded == pc = "idle" => \A s \in Held : s > next

\* The receiver's memory is bounded by the window whatever arrives in whatever
\* order, and whichever callbacks throw.
BufferBounded ==
  Cardinality(Held) <= IF pc \in {"close", "closeJump"} THEN Window + 1 ELSE Window

\* "At most max_reorder_window_+1 iterations": the work of one call is bounded
\* by what was held and never by the distance a sequence number jumps.
WorkBounded == jumps <= Window + 1

\* Memory and work stay bounded together, for no bound alone keeps a hostile distance
\* from costing either.
ResourcesBounded == BufferBounded /\ WorkBounded

\* No call of on_deliver that returned between callbacks i and j of l wrapped
\* the 32-bit counter.
SameLap(l, i, j) ==
  \A k \in i .. j - 1 : l[k].kind = "deliver" => EndOf(l[k]) # 0

\* What on_deliver has accepted is never offered again and nothing before it
\* follows, even when calls in between threw.
AcceptedInOrder ==
  \A i, j \in 1 .. Len(log) :
    i < j /\ SameLap(log, i, j) /\ log[i].kind = "deliver" /\ log[j].kind # "lost"
      => log[i].seq < log[j].seq
=============================================================================
