----------------------------- MODULE PoseStream -----------------------------
(***************************************************************************)
(* csa::PoseStreamEncoder and PoseStreamDecoder (pose_stream.cpp): the two *)
(* ends of a live pose stream, without the transport between them.         *)
(*                                                                         *)
(* Poses are numbered in the order they are pushed. The wire is a sequence *)
(* of numbers: a chunk is the two u64 header fields (pose_count, blob_len) *)
(* and a blob, which is one unit per pose here; decompress_pose is taken   *)
(* to return the poses compress_pose was given. User callbacks may throw.  *)
(***************************************************************************)
EXTENDS Integers, Sequences, FiniteSets

CONSTANTS
  ChunkSize,   \* chunk_size_
  NumPoses     \* bound: poses the producer pushes

ASSUME PoseStreamAssumption ==
  /\ ChunkSize \in Nat \ {0}
  /\ NumPoses \in Nat

VARIABLES
  pushed,     \* how many poses the producer has pushed
  buffer,     \* encoder: buffer_
  encFinished,\* encoder: finished_
  chunks,     \* what on_chunk_ has been given, in order
  buf,        \* decoder: buf_
  dispatch,   \* decoder: the rest of the chunk whose poses go to on_pose_
  decPc,      \* decoder: "idle", or "parse"/"dispatch" inside feed()
  decFinished,\* decoder: finished_
  got,        \* what on_pose_ has accepted, in order
  threw       \* has on_pose_ ever thrown?

encVars == <<pushed, buffer, encFinished, chunks>>
decVars == <<buf, dispatch, decPc, decFinished, got, threw>>

Frame(poses) == <<Len(poses), Len(poses)>> \o poses

Sentinel == <<0, 0>>

PoseInit ==
  /\ pushed = 0
  /\ buffer = <<>>
  /\ encFinished = FALSE
  /\ chunks = <<>>
  /\ buf = <<>>
  /\ dispatch = <<>>
  /\ decPc = "idle"
  /\ decFinished = FALSE
  /\ got = <<>>
  /\ threw = FALSE
-----------------------------------------------------------------------------
(* The encoder. on_chunk_ may throw instead of sending: emit_chunk clears   *)
(* the buffer only after it returned, so the poses go out with a later one. *)

PushBuffered ==
  /\ ~encFinished /\ pushed < NumPoses
  /\ Len(buffer) + 1 < ChunkSize
  /\ pushed' = pushed + 1
  /\ buffer' = Append(buffer, pushed + 1)
  /\ UNCHANGED <<encFinished, chunks>>

PushEmits ==
  /\ ~encFinished /\ pushed < NumPoses
  /\ Len(buffer) + 1 >= ChunkSize
  /\ pushed' = pushed + 1
  /\ chunks' = Append(chunks, Frame(Append(buffer, pushed + 1)))
  /\ buffer' = <<>>
  /\ UNCHANGED encFinished

PushChunkThrows ==
  /\ ~encFinished /\ pushed < NumPoses
  /\ Len(buffer) + 1 >= ChunkSize
  /\ pushed' = pushed + 1
  /\ buffer' = Append(buffer, pushed + 1)
  /\ UNCHANGED <<encFinished, chunks>>

\* Faulty variant: the sentinel goes out before the partial chunk.
FinishSentinelFirst ==
  /\ ~encFinished
  /\ chunks' = chunks \o <<Sentinel>>
               \o (IF buffer = <<>> THEN <<>> ELSE <<Frame(buffer)>>)
  /\ buffer' = <<>>
  /\ encFinished' = TRUE
  /\ UNCHANGED pushed

\* Faulty variant: no sentinel after a stream that ends on a chunk boundary.
FinishNoSentinel ==
  /\ ~encFinished
  /\ chunks' = IF buffer = <<>> THEN chunks
               ELSE chunks \o <<Frame(buffer), Sentinel>>
  /\ buffer' = <<>>
  /\ encFinished' = TRUE
  /\ UNCHANGED pushed

\* finish(): the partial chunk, the sentinel, and only then finished_.
Finish ==
  /\ ~encFinished
  /\ chunks' = (IF buffer = <<>> THEN chunks ELSE Append(chunks, Frame(buffer)))
               \o <<Sentinel>>
  /\ buffer' = <<>>
  /\ encFinished' = TRUE
  /\ UNCHANGED pushed

\* The sentinel's callback throws after the partial chunk has gone out: the
\* caller may call finish() again.
FinishSentinelThrows ==
  /\ ~encFinished
  /\ chunks' = IF buffer = <<>> THEN chunks ELSE Append(chunks, Frame(buffer))
  /\ buffer' = <<>>
  /\ UNCHANGED <<pushed, encFinished>>

Encoder ==
  \/ PushBuffered \/ PushEmits \/ PushChunkThrows
  \/ Finish \/ FinishSentinelThrows
-----------------------------------------------------------------------------
(* The decoder. feed() appends what arrived and parses as far as it can.    *)

DecoderFeed(bytes) ==
  /\ decPc = "idle"
  /\ buf' = buf \o bytes
  /\ decPc' = IF decFinished THEN "idle" ELSE "parse"
  /\ UNCHANGED <<dispatch, decFinished, got, threw>>

HeaderArrived == Len(buf) >= 2
ChunkArrived == HeaderArrived /\ Len(buf) >= 2 + buf[2]
IsSentinel == HeaderArrived /\ buf[1] = 0 /\ buf[2] = 0

Drop(n, s) == SubSeq(s, n + 1, Len(s))

ParseSentinel ==
  /\ decPc = "parse" /\ IsSentinel
  /\ buf' = Drop(2, buf)
  /\ decFinished' = TRUE
  /\ decPc' = "idle"
  /\ UNCHANGED <<dispatch, got, threw>>

\* The chunk leaves buf_ before any of its poses reaches on_pose_.
ParseChunk ==
  /\ decPc = "parse" /\ ChunkArrived /\ ~IsSentinel
  /\ dispatch' = SubSeq(buf, 3, 2 + buf[2])
  /\ buf' = Drop(2 + buf[2], buf)
  /\ decPc' = "dispatch"
  /\ UNCHANGED <<decFinished, got, threw>>

ParseWaits ==
  /\ decPc = "parse" /\ ~IsSentinel /\ ~ChunkArrived
  /\ decPc' = "idle"
  /\ UNCHANGED <<buf, dispatch, decFinished, got, threw>>

OnPose ==
  /\ decPc = "dispatch" /\ dispatch # <<>>
  /\ got' = Append(got, Head(dispatch))
  /\ dispatch' = Tail(dispatch)
  /\ UNCHANGED <<buf, decPc, decFinished, threw>>

\* Faulty variant: one chunk per feed().
ChunkDispatchedReturns ==
  /\ decPc = "dispatch" /\ dispatch = <<>>
  /\ decPc' = "idle"
  /\ UNCHANGED <<buf, dispatch, decFinished, got, threw>>

ChunkDispatched ==
  /\ decPc = "dispatch" /\ dispatch = <<>>
  /\ decPc' = "parse"
  /\ UNCHANGED <<buf, dispatch, decFinished, got, threw>>

\* The exception leaves feed(): the rest of this chunk is gone, and whatever
\* follows it in buf_ waits for the next feed().
OnPoseThrows ==
  /\ decPc = "dispatch" /\ dispatch # <<>>
  /\ dispatch' = <<>>
  /\ decPc' = "idle"
  /\ threw' = TRUE
  /\ UNCHANGED <<buf, decFinished, got>>

Decoder == ParseSentinel \/ ParseChunk \/ ParseWaits \/ OnPose \/ ChunkDispatched
=============================================================================
