--------------------------- MODULE PoseTransport ---------------------------
(***************************************************************************)
(* A pose stream end to end, over either of the transports the code is     *)
(* meant for: a reliable byte stream ("pipe") cut into reads of any size,  *)
(* or one packet per chunk ("datagrams") over a network that loses,        *)
(* duplicates, reorders and corrupts, with a PacketReassembler in front of *)
(* the decoder. The network needs no state: a packet that was sent may     *)
(* arrive at any time, any number of times, or never; a corrupted one is   *)
(* FeedInvalid, which changes nothing.                                     *)
(***************************************************************************)
EXTENDS PoseStream

SX == INSTANCE SequencesExt

CONSTANTS
  Window,   \* the reassembler's max_reorder_window
  SeqMod,   \* sequence numbers (2^32)
  MaxLog,   \* bound: the reassembler's bound on callbacks
  Absent    \* the reassembler's "not held"

\* A stream has at most one chunk per pose and the sentinel; it is over before
\* the sequence numbers wrap.
ASSUME PoseTransportAssumption ==
  /\ Window \in Nat /\ SeqMod \in Nat /\ MaxLog \in Nat
  /\ NumPoses + 1 < SeqMod
  /\ Absent \notin Seq(Nat)

VARIABLES
  transport,                       \* "pipe" or "datagrams"
  fed,                             \* pipe: units the decoder has read
  next, pending, pc, jumps, log,   \* the reassembler
  reasmThrew,                      \* the reassembler's threw
  offered                          \* the chunk on_deliver is running on, or Absent

reasmVars == <<next, pending, pc, jumps, log, reasmThrew>>
vars == <<encVars, decVars, transport, fed, reasmVars, offered>>

R == INSTANCE PacketReassembler
     WITH Payloads <- Seq(Nat), DeliverMayThrow <- TRUE, threw <- reasmThrew

Init ==
  /\ PoseInit
  /\ transport \in {"pipe", "datagrams"}
  /\ fed = 0
  /\ R!Init
  /\ offered = Absent

Produce ==
  /\ Encoder
  /\ UNCHANGED <<decVars, transport, fed, reasmVars, offered>>

\* A read returns any number of the bytes that are on the way.
ReadPipe ==
  /\ transport = "pipe"
  /\ LET stream == SX!FlattenSeq(chunks)
     IN  \E n \in 1 .. Len(stream) - fed :
           /\ DecoderFeed(SubSeq(stream, fed + 1, fed + n))
           /\ fed' = fed + n
  /\ UNCHANGED <<encVars, transport, reasmVars, offered>>

\* The steps of the reassembler that call no on_deliver. Chunk i travels as
\* packet i - 1; on_lost leaves the decoder alone.
Reassemble ==
  /\ transport = "datagrams" /\ offered = Absent
  /\ \/ \E i \in 1 .. Len(chunks) : R!FeedStale(i - 1) \/ R!FeedAhead(i - 1, chunks[i])
     \/ R!FeedInvalid \/ R!Flush
     \/ R!DrainDone \/ R!ReportGap \/ R!LoopDone
  /\ UNCHANGED <<encVars, decVars, transport, fed, offered>>

\* The reassembler is about to hand payload to on_deliver: the packet it waits
\* for has arrived, or one it holds has become the next.
Due(payload) ==
  \/ R!CanFeed /\ next < Len(chunks) /\ payload = chunks[next + 1]
  \/ pc \in {"drain", "closeDrain"} /\ next \in R!Held /\ payload = pending[next]
  \/ pc \in {"closeJump", "flushJump"} /\ payload = pending[R!Earliest]

\* on_deliver is the decoder's feed(), which runs inside the reassembler's:
\* the reassembler takes its step when the decoder returns or throws.
CallDeliver ==
  /\ transport = "datagrams" /\ offered = Absent
  /\ \E i \in 1 .. Len(chunks) :
       /\ Due(chunks[i])
       /\ offered' = chunks[i]
       /\ DecoderFeed(chunks[i])
  /\ UNCHANGED <<encVars, transport, fed, reasmVars>>

Delivery(kind) ==
  /\ transport = "datagrams" /\ offered # Absent
  /\ R!FeedExpected(next, offered) \/ R!Drain \/ R!Jump
  /\ SX!Last(log').kind = kind
  /\ offered' = Absent

DeliverReturns ==
  /\ decPc = "idle"
  /\ Delivery("deliver")
  /\ UNCHANGED <<encVars, decVars, transport, fed>>

DecoderRuns ==
  /\ Decoder
  /\ UNCHANGED <<encVars, transport, fed, reasmVars, offered>>

\* Over datagrams the exception of on_pose leaves the reassembler as well,
\* before it counts the packet as delivered.
ConsumerThrows ==
  /\ OnPoseThrows
  /\ \/ transport = "pipe" /\ UNCHANGED <<reasmVars, offered>>
     \/ Delivery("threw")
  /\ UNCHANGED <<encVars, transport, fed>>

Next ==
  \/ Produce \/ ReadPipe \/ Reassemble \/ CallDeliver \/ DeliverReturns
  \/ DecoderRuns \/ ConsumerThrows

Spec == Init /\ [][Next]_vars

\* A pipe delivers what was written, and a feed() that has started returns.
FairSpec == Spec /\ WF_vars(ReadPipe) /\ WF_vars(DecoderRuns)
-----------------------------------------------------------------------------
\* How far the consumer has come: what it has accepted for good, and what it
\* has been given of the packet that on_deliver is running on.
Newest == IF got = <<>> THEN 0 ELSE got[Len(got)]

LastPose(n) == IF n = 0 THEN 0 ELSE chunks[n][Len(chunks[n])]

Settled ==
  IF decFinished THEN pushed
  ELSE IF transport = "pipe" THEN Newest
  ELSE LastPose(next)

PacketBegun == offered # Absent /\ buf = <<>> /\ Len(dispatch) < offered[1]

UpTo == IF ~decFinished /\ PacketBegun THEN Newest ELSE Settled

\* The stream keeps the promise of PoseChannel over both transports: in order
\* and at most once until on_pose throws; then a pipe skips poses and a network
\* repeats only those of packets that on_deliver has not returned from.
Channel == INSTANCE PoseChannel
           WITH reliable <- (transport = "pipe"), sent <- pushed,
                closed <- encFinished, upTo <- UpTo, settled <- Settled,
                failed <- threw, ended <- decFinished
ImplementsChannel == Channel!Spec

\* "Buffers only the undelivered tail of the next one": when feed() returns
\* normally, no complete chunk is left behind in the decoder's buffer. Over
\* datagrams nothing at all is: each packet is a whole chunk, so a lost one
\* never leaves the decoder reading a header out of the middle of another.
OnlyTailBuffered ==
  decPc = "idle" =>
    /\ ~threw /\ ~decFinished => ~ChunkArrived
    /\ transport = "datagrams" => buf = <<>>

\* Once the producer has finished, a consumer on a pipe sees the end.
StreamEnds ==
  (transport = "pipe" /\ encFinished) ~> (decFinished \/ threw)
=============================================================================
