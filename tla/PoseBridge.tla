----------------------------- MODULE PoseBridge -----------------------------
(***************************************************************************)
(* The ROS 2 bridge (ros2_wedge): a node that compresses poses in batches  *)
(* over the C ABI, a topic that keeps the last few batches, and a node     *)
(* that publishes the poses again. rclpy runs the callbacks of a node one  *)
(* at a time, and ends the node when one raises an exception.              *)
(***************************************************************************)
EXTENDS Naturals, Sequences, FiniteSets

CONSTANTS
  BatchSize,   \* batch_size
  QueueDepth,  \* of the topic
  Others,      \* further threads of the process
  MaxPoses,    \* bound: poses sent
  MaxFaults    \* bound: calls that go wrong and batches pushed out of the topic

ASSUME BridgeAssumption ==
  /\ BatchSize \in Nat \ {0} /\ QueueDepth \in Nat \ {0}
  /\ MaxPoses \in Nat /\ MaxFaults \in Nat
  /\ IsFiniteSet(Others) /\ Others \cap {"compressor", "decompressor"} = {}

VARIABLES
  unfit,     \* poses with a number that is not finite
  received,  \* poses the compressor node has seen: 1 .. received
  buffer,    \* PoseBatchCompressor._buffer
  sender,    \* the compressor node: "idle", "flush", "call", "down"
  topic,     \* batches under way
  batch,     \* what the decompressor node is decoding, <<>> if nothing
  republished,  \* poses published again
  lost,      \* poses that are nowhere any more
  faults,
  lastError, call, heap

nodes == <<unfit, received, buffer, sender, topic, batch, republished, lost, faults>>
api == <<lastError, call, heap>>
bridgeVars == <<nodes, api>>

Api == INSTANCE CApi WITH Threads <- {"compressor", "decompressor"} \cup Others

Elements(s) == {s[i] : i \in DOMAIN s}

BridgeInit ==
  /\ unfit \in SUBSET (1 .. MaxPoses)
  /\ received = 0 /\ buffer = <<>> /\ sender = "idle"
  /\ topic = <<>> /\ batch = <<>> /\ republished = <<>>
  /\ lost = {} /\ faults = 0
  /\ Api!Init

\* A fault is counted; the bound is on how many there are.
Fault(happens) ==
  /\ happens => faults < MaxFaults
  /\ faults' = faults + IF happens THEN 1 ELSE 0

OnPose ==
  /\ sender = "idle" /\ received < MaxPoses
  /\ received' = received + 1
  /\ buffer' = Append(buffer, received + 1)
  /\ sender' = IF Len(buffer) + 1 >= BatchSize THEN "flush" ELSE "idle"
  /\ UNCHANGED <<unfit, topic, batch, republished, lost, faults, api>>

\* Faulty variant: the timer leaves a batch alone that is not full.
OnTimerFlushFull ==
  /\ sender = "idle" /\ Len(buffer) >= BatchSize
  /\ sender' = "flush"
  /\ UNCHANGED <<unfit, received, buffer, topic, batch, republished, lost, faults, api>>

OnTimerFlush ==
  /\ sender = "idle" /\ buffer # <<>>
  /\ sender' = "flush"
  /\ UNCHANGED <<unfit, received, buffer, topic, batch, republished, lost, faults, api>>

\* An exception leaves spin: the node is destroyed, with what it had buffered.
SenderEnds ==
  /\ sender' = "down" /\ buffer' = <<>>
  /\ lost' = lost \cup Elements(buffer)
  /\ UNCHANGED <<unfit, received, topic, batch, republished, faults>>

\* round() raises for what is not finite, before anything is called.
Flush(outcome) ==
  /\ sender = "flush"
  /\ IF Elements(buffer) \cap unfit # {}
     THEN SenderEnds /\ UNCHANGED api
     ELSE /\ Api!CompressPose("compressor", outcome)
          /\ Fault(outcome # "ok")
          /\ sender' = "call"
          /\ UNCHANGED <<unfit, received, buffer, topic, batch, republished, lost>>

ExtractBlob ==
  /\ sender = "call"
  /\ Api!Extract("compressor")
  /\ UNCHANGED nodes

\* Faulty variant: the buffer is kept, for a caller who would want to try again.
FlushedKeepsBuffer ==
  LET result == call["compressor"].result
      data == IF result = "bytes" THEN buffer ELSE <<>>
      full == Len(topic) = QueueDepth
  IN  /\ sender = "call"
      /\ Api!Return("compressor")
      /\ IF result = "CsaError" THEN SenderEnds
         ELSE /\ sender' = "idle" /\ buffer' = IF data = <<>> THEN buffer ELSE <<>>
              /\ topic' = Append(IF full THEN Tail(topic) ELSE topic, [poses |-> data])
              /\ lost' = lost \cup IF full THEN Elements(topic[1].poses) ELSE {}
              /\ Fault(full)
              /\ UNCHANGED <<unfit, received, batch, republished>>

\* A blob of no bytes is published as well; the topic makes room by dropping its oldest.
Flushed ==
  LET result == call["compressor"].result
      data == IF result = "bytes" THEN buffer ELSE <<>>
      full == Len(topic) = QueueDepth
  IN  /\ sender = "call"
      /\ Api!Return("compressor")
      /\ IF result = "CsaError" THEN SenderEnds
         ELSE /\ sender' = "idle" /\ buffer' = <<>>
              /\ topic' = Append(IF full THEN Tail(topic) ELSE topic, [poses |-> data])
              /\ lost' = lost \cup (Elements(buffer) \ Elements(data))
                              \cup (IF full THEN Elements(topic[1].poses) ELSE {})
              /\ Fault(full)
              /\ UNCHANGED <<unfit, received, batch, republished>>

\* Someone starts the node again; what was sent meanwhile it never sees.
SenderRestarts ==
  /\ sender = "down"
  /\ sender' = "idle"
  /\ UNCHANGED <<unfit, received, buffer, topic, batch, republished, lost, faults, api>>

\* The decoder refuses a blob of no bytes.
OnBatch(outcome) ==
  /\ batch = <<>> /\ topic # <<>>
  /\ batch' = <<topic[1]>> /\ topic' = Tail(topic)
  /\ IF topic[1].poses = <<>>
     THEN Api!DecompressPose("decompressor", "throws") /\ outcome = "throws" /\ UNCHANGED faults
     ELSE Api!DecompressPose("decompressor", outcome) /\ Fault(outcome # "ok")
  /\ UNCHANGED <<unfit, received, buffer, sender, republished, lost>>

ExtractPoses ==
  /\ batch # <<>>
  /\ Api!Extract("decompressor")
  /\ UNCHANGED nodes

\* A batch that cannot be decoded is dropped: by an error of the library, or by unpack(),
\* which finds fewer bytes than the count that came with them asks for.
Republish ==
  LET poses == batch[1].poses
      decoded == call["decompressor"].result = "bytes"
  IN  /\ batch # <<>>
      /\ Api!Return("decompressor")
      /\ batch' = <<>>
      /\ republished' = IF decoded THEN republished \o poses ELSE republished
      /\ lost' = IF decoded THEN lost ELSE lost \cup Elements(poses)
      /\ UNCHANGED <<unfit, received, buffer, sender, topic, faults>>

\* Another thread of the process uses the library for something else.
OtherCall ==
  /\ \E t \in Others : \/ \E outcome \in Api!Outcomes : Api!Call(t, outcome)
                        \/ Api!Extract(t)
                        \/ Api!Return(t)
  /\ UNCHANGED nodes

Sender == OnTimerFlush \/ (\E outcome \in Api!Outcomes : Flush(outcome)) \/ ExtractBlob \/ Flushed
Receiver == (\E outcome \in Api!Outcomes : OnBatch(outcome)) \/ ExtractPoses \/ Republish

BridgeNext == OnPose \/ Sender \/ SenderRestarts \/ Receiver \/ OtherCall

BridgeSpec == BridgeInit /\ [][BridgeNext]_bridgeVars

\* The executor of a node runs what is ready, and the timer comes round; nothing makes
\* anyone send a pose, restart a node or call the library.
BridgeFairSpec == BridgeSpec /\ WF_bridgeVars(Sender) /\ WF_bridgeVars(Receiver)
-----------------------------------------------------------------------------
InTopic == UNION {Elements(topic[i].poses) : i \in DOMAIN topic}
InBatch == IF batch = <<>> THEN {} ELSE Elements(batch[1].poses)

\* Every pose the node received is in one place, is published again once at the most and
\* in the order it came, and what goes wrong costs one batch: an unfit pose, a failed
\* call or a full topic never takes poses of another batch with it.
PosesAccounted ==
  LET places == <<Elements(buffer), InTopic, InBatch, Elements(republished), lost>>
  IN  /\ UNION Elements(places) = 1 .. received
      /\ \A p, q \in DOMAIN places : p # q => places[p] \cap places[q] = {}
      /\ \A i, j \in DOMAIN republished : i < j => republished[i] < republished[j]
      /\ Len(buffer) <= BatchSize
      /\ Cardinality(lost) <= BatchSize * (faults + Cardinality(unfit \cap 1 .. received))

\* A pose that was received is published again in the end, also when no further pose
\* fills its batch, unless it was lost to something that went wrong.
PosesArrive == \A p \in 1 .. MaxPoses : p <= received ~> p \in Elements(republished) \cup lost

CallerSeesOwnError == Api!CallerSeesOwnError
=============================================================================
