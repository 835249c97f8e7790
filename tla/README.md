# TLA+ models and proofs for csa

csa is a codec library in C++17 (`src/src`, `src/include/csa`) for bytes, 2D and 3D paths and streams of poses. Next to its
transforms and entropy coders it has a streaming layer, a packet layer for lossy transports, two thread pools and CUDA kernels, and
around it a command-line tool, a C ABI with bindings and a ROS 2 bridge. These modules model its stateful parts and its coders
step by step, TLC checks them on small instances, and TLAPS proves all of their invariants and all four refinements for every
value of the constants.
Paths below are those of the repository; a file without a directory is in `src/src` or `src/include/csa`, tests are in `src/tests`.

    tlc -config reassembler.cfg PacketReassembler     # one run
    tlapm ReceiverProofs.tla                          # one module of proofs

1. [Inventory](#1-inventory) 2. [Modules and code](#2-modules-and-the-code-they-model) 3. [Runs](#3-runs-bounds-and-what-they-show)
4. [Fairness](#4-fairness) 5. [Proofs](#5-what-is-proved) 6. [Only model-checked](#6-only-model-checked)
7. [Disagreements](#7-where-code-and-documents-disagree) 8. [Not modelled](#8-not-modelled-and-why) 9. [Plan](#9-plan)

## 1. Inventory

| Component | Code | State and operations | Hard behaviour | What makes it correct |
|---|---|---|---|---|
| Packet reassembler | `packet_transport.cpp` | `next_expected_seq_`, `pending_`; `feed`, `flush`, callbacks `on_deliver`, `on_lost`, `on_corrupt` | datagrams lost, repeated, reordered, far ahead; callbacks that throw in the middle of a drain; wrap of a u32 | delivered packets and lost ranges tile the sequence space; nothing stranded; memory and work bounded by the window |
| Pose stream | `pose_stream.cpp` | encoder `buffer_`, `finished_`; decoder `buf_`, `finished_`; `push`, `finish`, `feed`, callbacks `on_chunk`, `on_pose` | reads that cut frames anywhere; missing chunks; callbacks that throw; a second `finish()` | until `on_pose` throws, poses come out in order, once, all of them on a reliable transport; the end only after the last pose |
| Thread pool | `thread_pool.hpp` | `tasks_`, `stop_`, one mutex and condition variable; `submit`, `parallel_for`, `worker_loop`, destructor | notify after unlock, spurious wake-ups, `fn` or `submit` that throws, shutdown with queued tasks | `parallel_for` is a sequential loop; no wake-up lost; no task outlives its call; shutdown drains |
| Work-stealing pool | `work_stealing_pool.hpp` | a deque and mutex per worker, counters, `stop_`; `submit`, pop, steal, timed wait, destructor | owner and thieves at two ends, a notification that may be lost, counters written after the future is ready | each task runs once; futures become ready; the destructor returns |
| Range coder | `range_coder.hpp`, `range_coder.cpp` | `low_`, `range_`, `code_`; Fenwick tables with `tree_`, `total_`; `encode`, `finish`, `get_freq`, `decode`, `update`, `rescale` | underflow of the interval, final bytes, both sides in step, counts halved at a limit | round trip; no carry; the range always divisible; a table is a table of counts |
| Interleaved rANS | `rans_coder.cpp` | histogram, table, one state and buffer per lane; quantise, nudge, encode backwards, decode forwards | rounding to an exact sum, u32 products, unequal lanes on threads | table adds up to M; states and buffers hold; round trip |
| LZ codec | `lz_matcher.cpp`, `lz_codec.cpp` | hash chains `head`, `prev`, `hashed`; a pending match; coder and decoder contexts | lazy evaluation with one deferred match, hash collisions, overlapping copies | round trip; legal lengths and distances; chains without repetition; both sides under one model |
| BWT codec | `bwt_transform.cpp`, `bwt_codec.cpp` | suffix array, move-to-front table, zero runs, pending run of the decoder | SA-IS recursion and bucket borders, runs that end where a block ends | suffixes sorted; every block comes back; the stream used up exactly |
| Joints: 2D, 3D similarity, quaternion | `rod_joint_transform.cpp`, `quaternion_joint.cpp` | per block lag and coefficients, block lengths; reconstructed samples and position; forward, inverse | closed-loop prediction across fixed and adaptive blocks, quantisation and resync | inverse in lockstep with forward; exact at step 1; drift bounded |
| Pantograph Lift | `pantograph_lift.cpp` | levels of updated values, residuals, ratios, offsets; forward, inverse | the inverse must predict from the value before the update | what goes in comes out; lossy error grows with levels, not with length |
| CUDA lift session | `pantograph_lift_cuda.cu` | twelve buffers with nine recorded capacities, level plan; `forward`, one-shot call, destructor | allocation, copy or kernel that fails anywhere, buffers kept from a call before, hand-over of small levels to the CPU | no leak, no stale capacity, no kernel out of bounds, fall-back gives the same data back |
| Codec container | `codec.cpp` | magic, mode, header counts, payload; four pairs of functions | smallest of several candidates, array lengths derived from counts, blobs cut short or foreign, limits | decoder reads exactly what was written or refuses |
| Command-line tool | `src/cli/main.cpp` | input text, output file; compress and decompress commands, `squeeze`, `unsqueeze`, `optimize`, `validate` | three readers of one text, scale found from decimals, bisection over measured errors | numbers as close as scale and budget promise; no row lost unannounced |
| C ABI and bindings | `csa_capi.cpp`, `src/bindings` | thread-local last error, buffers handed out | error asked for in a second call, threads in between, no memory for the result | a caller sees its own error; every buffer freed once |
| ROS 2 bridge | `src/ros2_wedge` | buffer of poses, timer, topic; `_on_pose`, `_on_timer_flush`, `_flush`, `_on_batch` | partial batch, a batch that cannot be compressed or decoded, a node that ends, a topic that overflows | every pose accounted for; what goes wrong costs one batch |
| Numerical kernels, SIMD, other CUDA kernels, spatial index | `numerical.cpp`, `simd*.cpp`, `src/cuda`, `spatial_index.cpp` | arrays of floats | parallel rows (through `parallel_for`) | numeric accuracy |
| WASM shim, web demo | `wasm_shim.cpp`, `src/webapp` | - | marshalling | same result as the library |

How they interact:

- A pose stream hands each chunk to `on_chunk`. An application sends it over a pipe, or as one datagram per chunk with
  `serialize_packet`, whose receiver feeds `PacketReassembler`; `on_deliver` feeds the `PoseStreamDecoder`
  (`src/tests/test_main.cpp:1812-1870` is that composition, `PoseTransport` models it).
- `parallel_for` over the process-wide `default_thread_pool()` runs rANS lanes and the rows of numerical kernels. The
  work-stealing pool is used by its tests and bench only.
- The LZ and BWT codecs code their symbols with the range coder and its Fenwick tables. The transforms code their residuals with
  it; the container keeps the smallest result. `compress` runs the lift on a thread-local CUDA session and falls back to the CPU.
- The tool calls the library. The ROS 2 nodes call the Python binding, which calls the C ABI (`PoseBridge` over `CApi`).

The hazards this gives rise to, at their lines and with the properties that cover each, are in `PROJECT.json`.

## 2. Modules and the code they model

| Module | Models | Correspondence |
|---|---|---|
| `PacketReassembler` | `packet_transport.cpp` | `next` and `pending` are the two members; `pc` says which loop of `feed` or `flush` runs. A step is one callback and what the code does up to the next one. `FeedStale`, `FeedExpected`, `FeedAhead` are the branches of `feed`, `ReportGap`/`Jump` the loop at `:115-123`, `Drain` is `drain_pending`. `log` (history) lists the callbacks, `jumps` (history) the passes of one call. |
| `PoseStream` | `pose_stream.cpp` | Encoder and decoder operators over `buffer`, `buf` and the frames in between. Bytes are abstracted to a two-element header (length, count) and one element per pose, so that reads can cut a header and a blob. |
| `PoseTransport` | both, composed | Producer, then either a pipe read in arbitrary pieces or datagrams through an `INSTANCE` of `PacketReassembler`, then the decoder. `on_deliver` is the decoder's `feed`, so a delivery is three kinds of steps: `CallDeliver` hands it the packet (`offered`), `DecoderRuns` calls `on_pose`, and `DeliverReturns` or `ConsumerThrows` lets the reassembler take its step. |
| `PoseChannel` | abstract | What a stream promises: in order, nothing twice, nothing invented; on a reliable transport nothing skipped, and an end after everything. A consumer that fails on a reliable transport misses poses and gets none twice; over datagrams it may get again what came after the last delivery it returned from (`settled`), in order. |
| `ThreadPool` | `thread_pool.hpp` | One step per critical section, notification and task. `mode`/`task` per worker, `phase`/`count`/`at`/`raised` per caller (the locals of `parallel_for`), `outcome` the futures. |
| `ParallelFor` | abstract | `parallel_for` as the loop `fn(0) ... fn(count-1)` that raises the error of the lowest index. |
| `WorkStealingPool` | `work_stealing_pool.hpp` | One step per lock region, atomic and wait. `Steal`, `PopOwn`, `CheckStop`, `CheckPredicate`, `Block`, `TimeOut` follow the lines of `worker_loop`. |
| `ByteWord` | the widths `u8`, `u32` | `Base` is the number of values of a byte, 256 in the code; a word is four of them. |
| `RangeInterval` | `RangeEncoder`/`RangeDecoder`, `low_` and `range_` | `Narrow` is `encode`/`decode`; `ShiftSettled`, `ShiftForced`, `Normalized` are the passes of `normalize`. |
| `FenwickFreqN` | `FenwickFreqN` | Pure operators on a record `[tree, total]`: `CumFreq`, `Find`, `Add`, `Rescaled`, `Updated`. |
| `FenwickTable`, `FrequencyTable` | the table over time; abstract | Any sequence of updates; and the plain table of counts it must look like. |
| `RangeCoder` | `range_coder.cpp` | `range_encode_bytes` and `range_decode_bytes` with their order-1 model, on top of `RangeInterval` and `FenwickFreqN`. |
| `RansCoder` | `rans_coder.cpp` | `Quantize`, `Nudge` are the two loops of `normalize_histogram`; `RansEncodeSymbol`, `Flush`, `StartLane`, `RansDecodeSymbol`, `CopyOut` take a lane, so that lanes interleave as under `parallel_for`. |
| `LZMatcher`, `LZCodec` | `lz_matcher.cpp`, `lz_codec.cpp` | One pass of each loop is a step: `Look` and `Visit` are `find_match`, `Improve`/`Commit`/`Defer`/`Literal` the four branches, `EnterSpan` the loop of `insert_hash`. `LZCodec` codes and replays each token as it is pushed. |
| `SuffixArray` | `bwt_transform.cpp` | `BuildSuffixArray` is the prefix doubling, a round of it `Doubled`. `InducedSort` is the three passes of the sort (`Put` into a bucket, `InduceL`, `InduceS`), `NameAt` and `Reduced` the naming of LMS substrings, `SAIS` the recursion on the string of names. |
| `BwtCodec` | `bwt_transform.cpp`, `bwt_codec.cpp` | `EncodeBlock`, `DecodeBlock`, `MtfEncode`, `MtfDecode`, `RleEncodeZeroRuns` as pure operators; `WriteBlock` is a pass of the encoder's loop, `ReadSymbol` one of the decoder's inner loop with the pending run in `pending`, `BlockRead` what follows that loop. |
| `FixedPoint` | `common.hpp` | `fixed_mul_round` and `quant_round_div`. |
| `ClosedLoopJoint` | `rod_joint_transform.cpp`, `quaternion_joint.cpp` | `joint` says which of the three transforms runs. `Blocks*` open a block with what calibration found, `Encode2D`, `EncodeBlock3D`, `EncodeBlockQuat` code a sample, `Inverse*` decode it (`ForwardSample`, `InverseSample` are the loops' passes); `rec`/`recPos` are the encoder's reconstruction, `out`/`outPos` the decoder's. |
| `PantographLift` | `pantograph_lift.cpp` | `Level` and `Unlevel` are one pass of the loops of forward and inverse, `BlockOfPair` the block whose fit a pair uses. |
| `CudaLiftSession` | `pantograph_lift_cuda.cu`, and `compress` as its caller | `EnsureCapacity`/`Grow` are the two `ensure_*_capacity` and the four sums; `GpuLevel` the three kernels of a level, `HandOff`/`CpuLevel` the tail, `Download` the copies back, `GiveUp` the fall-back, `ThreadEnds` the destructor. |
| `Container` | `codec.cpp`, the headers of `lz_codec.cpp` and `bwt_codec.cpp` | One `Serialize*` and `Deserialize*` for each of the code, `Compress*` and `Decompress*` for the functions of `codec.hpp`. A decoder returns a set: what comes out, or nothing for an exception. |
| `QuantSearch` | `search_max_quant_step` | `First`, `Probe` are the test before the loop and one pass of it. Errors are any function of the step. |
| `CommandLine` | `src/cli/main.cpp` | One action per command, `optimize` one step per measurement. `SniffedColumns`/`SniffedDecimals`/`SniffedMaxAbs`, `Readable` and `Malformed` are the three readers of a text: a row has as many `tokens` as `stod` takes, and `numbers` as `operator>>` reads, which are fewer at a nan or an inf. `Unscaled` is what a decompressing command prints of an integer, by whatever scale. |
| `CApi` | `csa_capi.cpp`, `bindings/python/csa.py` | `Call` is a function of the ABI up to its return, `Extract` is `_check_and_extract`, `Return` gives the result to the caller. |
| `PoseBridge` | `src/ros2_wedge/csa_bridge` | Two nodes over an instance of `CApi`, which the threads `Others` use as well; `OnPose`, `OnTimerFlush`, `Flush`/`ExtractBlob`/`Flushed`, `OnBatch`/`ExtractPoses`/`Republish` follow the callbacks, split where other threads can run. `SenderRestarts` is a supervisor. |
| `MCLZCodec`, `MCClosedLoopJoint`, `MCCommandLine` | - | Constants for model checking. |
| `MCCoders`, `MCTransforms`, `MCPrograms` | - | Several models in one run: `part` says which of them a behaviour is of, the others stay in one initial state. They share no state, so that every state is one of a single part. |

`*Proofs` hold the theorems. Definitions introduced by "Faulty variant" are not part of a specification. Each is a plausible mistake
in the definition that follows it, used to make sure that a property can fail.

Abstractions that several modules share:

- CRC and length fields of packets stand for accept or reject. In the two transports `compress_pose` and `decompress_pose` are
  inverse of each other, which `Container`, `ClosedLoopJoint` and `RangeCoder` show of their parts.
- `on_lost` and `on_corrupt` return; `on_deliver`, `on_chunk` and `on_pose` may throw, the last over both transports. An `on_chunk`
  that throws sent nothing.
- Coders (`RangeCoder`, `RansCoder`, `LZCodec`, `BwtCodec`) read what the encoder of the same code wrote. `Container` has the layers
  above: what is cut short, or was written by another function, is refused. Altered bytes are not modelled, except in the
  reassembler, where datagrams that fail their check are ordinary.
- In LZ and the joints the encoder and the decoder of the code run one after the other. The models interleave them token by token
  and sample by sample: nothing flows back, so the encoder's steps are unaffected, and each decoder step needs only what
  was written before it. This lets an invariant relate the two directly.
- Calibration (joints, lift) is a choice of any lag, coefficients, ratio and offset: reconstruction must not depend on a good fit. For
  the same reason floating point never enters: it is used only to choose.
- In `Container` a result of a transform has the shape the transform gives it, and numbers that are all different; a payload is opaque
  units that only make sense together, of which there may be fewer or more than the content has numbers.

## 3. Runs: bounds and what they show

Counts are distinct states. A run stops at a bound where the module names one (`MaxLog`, `MaxLen`, `MaxCalls`, `MaxPoses`, `MaxFaults`).

| Run | Instance | States | Shows |
|---|---|---|---|
| `reassembler` | sequence numbers mod 5, window 2, callback log up to 6 | 180,837 | `CallbacksTile`, `NothingStranded`, `ResourcesBounded`, `AcceptedInOrder`. Five numbers and a window of two hold packets inside and beyond the window, a jump over several missing ones, and a wrap within the log. |
| `pose_transport` | 5 poses, chunks of 2, window 1, callback log up to 6 | 2,348,848 | Both transports, `on_chunk` and `on_pose` may throw: `OnlyTailBuffered`, refinement `ImplementsChannel`, `StreamEnds`. Two full chunks and one partial, so that a lost, late or cut chunk has neighbours on both sides, and a packet that was thrown out of can come again, behind a jump as well. Sequence numbers do not wrap here; `reassembler` covers that. |
| `thread_pool` | 3 workers, 2 callers, counts up to 2, calls repeated | 163,374 | `NoLostWakeup`, `NoTaskOutlivesCall`, `DrainedAtShutdown`, refinement `ImplementsLoop`, `EveryoneReturns`. Two callers race for the notifications; three workers allow a busy, a sleeping and a woken one at once. |
| `thread_pool_submit` | 2 workers | violation | `NoTaskOutlivesFailedCall`, see section 7. |
| `work_stealing` | 3 workers, one client, 4 tasks | 208,580 | `EachTaskOnce`, `SettledAfterJoin`, `FuturesReady`, `DestructorReturns`. More tasks than queues, so that one queue holds two and owner and thief meet at it. |
| `coders` | range and Fenwick: byte of 4 values, 4 symbols, increment 3, limit 9, messages up to 6. rANS: byte of 4 values, `kRansL` 32, tables of 2, 4, 8 (default) and 16, default, 2 and 3 lanes. BWT: blocks of 9, all inputs up to 11 over two symbols and up to 6 over three | 249,202 | `RoundTrip`, `NeverCarries`, `AlwaysDivisible`, `RansExact`, `BwtExact`, refinements `ImplementsInterval` and `ImplementsTable`. Forced shifts, rescaling and the flush all happen within six symbols; skewed inputs make rounding exceed M, a table of 2 for 3 symbols cannot be made, three lanes for two symbols leave one empty; two symbols give periodic texts on which SA-IS recurses, and blocks of 9 in inputs of 11 end inside a run. |
| `lz` | 2 byte values, inputs up to 11, minimum match 2, chains of 3, nice length 4, a hash that makes most windows collide, 5 buckets, words of 4 bits | 233,567 | `RoundTrip`, `MatchLegal`, `SameModel`, `ChainsExact`. All 4,095 inputs: deferral and improvement, cut chains, nice matches, overlapping copies, candidates that match in one byte only. |
| `transforms` | joints: lags 1 and 2, two calibrations each, blocks of 2 or adaptive ones of 1 and 2, steps 0, 3, 4, resync 0 and 3, 4 samples. Lift: arrays of 0, 1, 2 and 5 values, blocks of 2 pairs, ratios -3 and 2, offsets 0 and 3, steps 0, 1, 3, hand-over at 2, two calls of a thread | 2,393,971 | `InLockstep`, `DriftBounded`, `LiftRoundTrip`, `MemoryAccounted`, `KernelsInBounds`. A later block predicts from the one before; a resync falls inside a block; a second call finds the buffers of the first, whole, half grown or given up. |
| `joints_drift` | the joints of `transforms` | violation | `ErrorBound`, see section 7. |
| `container` | blocks of 2 (joints, lift) and 3 (BWT), 0 to 6 elements, limits of 5 elements, 35 numbers and 3 levels, payloads of 1 and 3 units | 230,626 | `ReadsWhatWasWritten`. Every candidate of `compress` and of the 3D encodings is read back; arrays of several levels and blocks, the last one partial; adaptive block lengths in every partition; every place to cut a blob; every pair of writer and reader; both limits exceeded. |
| `programs` | tool: thirteen texts of up to two rows (tables of 2, 3 and 7 columns, an exponent, too many decimals, a number too large for 32 bits, rows longer than the table, a row that is none, a nan, an inf), 3 decimals of which the tool goes by 2, user's scales -3, 0 and 7, steps up to 5, budgets -1 to 300. Bridge: batches of 2, topic of 2, 4 poses, 2 faults, a third thread in the library | 716,982 | `RestoredClose`, `SqueezeExact`, `ValidatedRowsKept`, `LargestWithinBudget`; `PosesAccounted`, `CallerSeesOwnError`, `PosesArrive`. Commands follow each other in any order on one file. Two full batches, or one full and partial ones between faults. |
| `squeeze_lossless` | the tool of `programs` | violation | `SqueezeLossless`, see section 7. |

`CHECK_DEADLOCK FALSE` stands where the system stops: a producer that finished (`pose_transport`), a destroyed pool (`thread_pool`,
`work_stealing`), a message, path, array or sequence of calls of bounded length that is done (`coders`, `transforms`, `joints_drift`),
a blob that was read (`container`), a bridge or a tool that nobody uses any more (`programs`, `squeeze_lossless`). `lz` states its end as
a step, so that a stuck coder is found as a deadlock.

## 4. Fairness

| Module | Assumed | Why the code justifies it |
|---|---|---|
| `PoseTransport` | weak fairness of reading the pipe and of the decoder's loop | a reader in a loop on a byte stream that delivers. None for datagrams. |
| `ThreadPool` | weak fairness per caller inside its call, per worker, and of the destructor once begun | the scheduler runs runnable threads and mutexes are granted. None for beginning a call, for destroying the pool, or for spurious wake-ups, on which nothing may rely. |
| `WorkStealingPool` | the same, and that a timed wait ends | `wait_for(1ms)`. The same proviso for notifications: `FuturesReady` and `DestructorReturns` hold although none of them may arrive. |
| `PoseBridge` (in `MCPrograms`) | weak fairness of the sending node's timer and flush, and of the receiving node's callback | the executor of `rclpy.spin` runs what is ready, and `create_timer` fires again and again. None for poses, for a supervisor that starts the node again, or for other threads. |

Per-thread weak fairness suffices as every thread's step, once enabled, is disabled only by a step that makes progress for it; locks
are never held across steps.

## 5. What is proved

All of it for every value of the constants, under the assumption the module names and the hypotheses given here. Each argument has the same
shape: an inductive invariant, which the initial states satisfy, one lemma per action that shows it is kept, and the property as a
consequence. A refinement adds one lemma per action that maps its step to one of the abstract specification or to none.

- **`ReceiverProofs`**, of the two parts that make sense of what comes from outside.
  - The reassembler (any window, any modulus, throwing callbacks): `TypeCorrect`, `LossAccounting` (`CallbacksTile`),
    `NoStrandedPacket`, `BoundedResources` (`ResourcesBounded`), `AcceptedIsFinal` (`AcceptedInOrder`). The invariant adds what holds
    inside a call: how the held packets lie relative to `next` at each point (`FrontierInv`), that passes made and packets held
    together stay within the window (`SizeInv`), and that what this lap accepted lies behind `next` (`AcceptedBehind`); without
    them no property survives a step.
  - The container: `ContainerInvariant` and `BlobsReadBack` (`ReadsWhatWasWritten`), for any block sizes, limits, counts, adaptive
    partitions and sizes of payloads. `ContainerInv` says that what is in memory is the front of a `Readable` blob and shorter than it
    exactly if it was cut, and a blob is `Readable` if of *every* front its own decoder makes what was written, when it is all there
    and within the limits, and everything else nothing. That has three parts: a field that was written at a place is found there in
    every front that reaches so far (`At`, `AtConcat`, `SliceAt`); the decoder's array lengths, which it computes from counts alone, are
    those of the arrays that were joined, so that cutting the payload up undoes joining it (`Split`, with `LiftArrays`,
    `Joint2DArrays`, `JointArrays`); and each deserialiser therefore returns the result and where it ends, so that the next one starts
    there (`LiftRead`, `Joint2DRead`, `JointRead`, `LzRead`, `BwtRead`). Of `Counts` it is assumed that a length has at most
    `kMaxLiftLevels` levels, as a 64-bit length has.
- **`PoseTransportProofs`** (any chunk size, number of poses and window; the stream is shorter than a lap of the counter, which
  `PoseTransportAssumption` says): `StreamInvariant`, `TailBuffered` (`OnlyTailBuffered`), and the refinement `StreamIsChannel`
  (`ImplementsChannel`), with callbacks that may throw over either transport. `StreamInv` says of the encoder that its chunks are runs
  of poses, one after the other, with the buffer behind them (`Sent`); of the decoder, that its buffer is what it has of the byte stream
  behind the chunks it has parsed, wherever a read has cut it (`Parsed`), or the one chunk handed to it; of the reassembler, that what
  it holds was sent and lies ahead, and that what `on_deliver` is running on is the packet it was due for (`OfferInv`). The step from a
  frame that was cut to one that is whole needs where chunks lie in the concatenated stream (`Layout`). The refinement maps `settled` to
  the last pose before the awaited packet, or to the newest on a pipe, and `upTo` to the newest pose while a packet is being decoded:
  when `on_pose` throws over datagrams, the attempt falls back to what is settled, which `next` has not passed.
- **`ThreadPoolProofs`** (any finite number of workers and callers): `TypeCorrect`, `WakeupsKept` (`NoLostWakeup`),
  `NoDanglingTask` (`NoTaskOutlivesCall`), `GracefulShutdown` (`DrainedAtShutdown`). `IInv` is `Base /\ Pool /\ NoLostWakeup`:
  `Base` is the types, what the program counters say of the loops, and the stages of the shutdown (workers leave only after
  `stop` with an empty queue). `Pool` says where a task is: one that was handed over is queued or running, once, until
  it has an outcome, and `parallel_for` has seen an outcome for each future it has passed. `NoLostWakeup` is inductive
  relative to them, by counting awake workers and pending notifications. On top of it `LoopInv` relates the error a caller has
  kept to the futures it has passed, and `ParallelForIsLoop` is the refinement `ImplementsLoop`: as far as a caller can tell,
  `parallel_for` runs each index once and raises the error of the lowest, in whatever order workers finish.
- **`WorkStealingPoolProofs`** (any number of workers, clients and tasks): `PoolTypesCorrect`, `EveryTaskOnce` (`EachTaskOnce`),
  `SettledWhenJoined` (`SettledAfterJoin`), and `NeverRunTwice`, an action property: a task that is ready never gets into a queue or a
  worker's hands again. `PoolInv` has a task in one place (`OnePlace`: queues are injective and disjoint, and from hands and finished
  tasks), what was submitted in some place (`SentIsPlaced`), and both counters as the number of tasks that have passed, less the threads
  that are about to raise them (`CountersInStep`). Nothing is claimed of the queues after the join: a task whose future was dropped may
  stay in one, pushed behind the last scan of the workers; the counters then differ by it.
- **`CodersProofs`**. Of the range coder the only hypothesis is that a byte has 256 values, with `MaxTotal <= kBot` as the module
  assumes: TLC explores bytes of 4 values, the proof is about the numbers of the code. The Fenwick tables need no such hypothesis, nor does
  rANS.
  - The interval: `TypeCorrect`, `CarryFree` (`NeverCarries`), `Divisible` (`AlwaysDivisible`), for arbitrary symbols of arbitrary
    tables. `IInv` adds to the types that `range > 0`, and that between symbols `range >= Bot`.
  - The Fenwick tree: `TableIsPlain`, the refinement of a table of counts (`ImplementsTable`), for any number of symbols, powers of
    two or not, any increment and limit. A node holds the sum of its range; that queries add up disjoint ranges, that an update
    touches just the nodes above a symbol, and that `find`'s descent ends at the symbol whose share holds the target are lemmas about
    `LowBit`, by induction.
  - The coder: `CoderInvariant`, `CoderExact` (`RoundTrip`), `CoderIsInterval` (`ImplementsInterval`). The encoder's later output cannot leave an
    interval once chosen, so that what the decoder's `code_` holds, whatever byte it has read up to, lies in the interval of the
    symbol that was written. `CoderInv` says that with a sequence of snapshots of the encoder, one before each symbol and byte,
    which the decoder passes in the same order with the same tables.
  - rANS: `RansInvariant`, `RansComesBack` (`RansExact`), for every base, every `RansL` that leaves a byte of the word free and is a
    multiple of each table size, every number of lanes, scale and input, and lanes that run in any order. Four arguments meet in
    `RansInv`: `diff` is what the table lacks from M at each pass of the nudging loop, and a pass that finds nothing to take a unit from
    has at least M symbols with one each; a table that adds up to M has each slot owned by one symbol, so that a decoding step inverts
    its encoding step and takes in the bytes it put out (`CodesToState`, `CodesBack`, `Refills`); each lane has a trace of the states
    its encoder went through, which its decoder goes back along (`Path`, `Writing`, `Reading`); and a step puts out two bytes at most,
    as the state stays below `RansL * Base` and a symbol's bound is `Base` at least (`TwoBytes`), so that the buffers are large enough.
- **`CompressorProofs`**, of the two codecs for bytes.
  - LZ (every input shorter than 2^32, which `LZAssumption` says and the code does not check, hash function, chain limit, nice length,
    minimum match): `Lossless` (`RoundTrip`), `SameContexts` (`SameModel`), `ChainsAreExact` (`ChainsExact`), `MatchesLegal`
    (`MatchLegal`), and `BucketFound`: every number of 32 bits has a bucket, and one only. Lengths and distances are cast to `u32`
    (`U32`), which cuts none of such an input. `IInv` has a part per concern: `Chains` (head and prev are the newest and the next
    older), `Indexed` (what has been entered), `Search` and `Pending` (a found or deferred match really matches), `InFlight` and `Wire`
    (a token and its code denote the bytes between output and parser), `Prefix` (the output is a prefix of the input). Soundness of the
    search needs nothing of the hash, which is why it may be arbitrary.
  - The suffix sorts, for every text whose last symbol is smaller than any other (`IsText`), as a block with its sentinel is, and so is each
    string of names: `SaisSorts` (`SAIS` returns every position once, in the order of the suffixes) and `SortsAgree` (it returns what
    `BuildSuffixArray` does). The three passes of `InducedSort` have an invariant each (`Placing`, `FromLeft`, `FromRight`): what is in
    a bucket's L-type and S-type part is the positions before those that were scanned, each in one slot, in the order of the scan, so
    that no pass overwrites a slot that is still needed. What they leave is ordered by symbol, type and the suffix behind (`Induced`).
    Hence two slots out of order would have two out of order behind them, and so on down to the LMS positions or to the difference
    (`NeverWrong`): the passes sort suffixes if the LMS suffixes come sorted, and LMS substrings in any case. Names then order the LMS
    positions as their substrings do, and the text of names, which is shorter (`ReducedText`), orders its suffixes as the LMS suffixes
    (`ReducedOrder`). The recursion is on the depth, for all texts of that length at once. Prefix doubling has ranks that compare
    suffixes by their first k symbols (`RanksBy`); a round doubles k, and equal ranks are gone when k reaches the length.
  - The BWT codec (every size of an alphabet and of a block, every input): `TransformUndone`, `ToFrontUndone`, `BwtInvariant`, `BwtIsExact`
    (`BwtExact`). Rows with the same symbol in the last column are in the order of the suffixes behind it, so that a row tells which
    row it precedes (`RowAfterIs`) and following the rows spells the block. `BwtInv` says that while blocks are written, the stream and
    what is not coded yet (`Rests`) make up the code of everything, and while they are read, that the blocks before this one are back and
    the stream is the rest of this block's code with that of the blocks behind it (`AtBlock`). It has to say so in the middle of a
    run as well: some digits are read, and what is left of the run is spelt in those to come (`InRun`). As no digit of the bijective
    code is zero, nothing is left exactly if the run is complete, which is why a run that fills the block must be the end of
    it, and the first symbol of the next block is never taken for one more digit. `BwtInv` quantifies over all sequences of rests,
    which TLC cannot enumerate; TLC checks its consequence `BwtExact`.
- **`TransformsProofs`**
  - All three joints (every path, coefficients, lag, block size, adaptive partition, step, resync interval): `Lockstep` (`InLockstep`),
    `BoundedDrift` (`DriftBounded`), `LosslessPath`. `IInv` is `Shape /\ BlocksFit /\ InLockstep /\ OneAhead /\ Drift`: `BlocksFit`
    says that blocks cover exactly the samples begun, so that the block the decoder looks up, by division or by lengths, is the
    one the encoder has open; between forward and inverse the encoder is exactly one sample ahead, by the residual's value; and the
    drift bound per rod since the last exact one, or the error of the last orientation alone. The rounding lemma
    (`QuantRoundDiv` is within half a step) carries the last. Of the predictions only that they are integers is used: the
    argument holds for whatever a joint predicts, as long as it predicts from `rec`.
  - The CUDA session (every input and plan of levels, every call that may fail, any number of calls): `MemoryIsAccounted`
    (`MemoryAccounted`) and `KernelsStayInBounds` (`KernelsInBounds`). `MemInv` relates each recorded capacity to the pointers it stands for
    (`Backed`), counts the pointers that hold memory (`Counted`), and has the groups a call has ensured cover what its plan needs (`Ensured`).
  - The lift: `LiftComesBack` (`LiftRoundTrip`), for any array, any block size and any integer ratios and offsets, on the CPU, the
    device, or handed over between them at any level. `ValueInv` has the levels as a chain of arrays, each the halved
    update of the one before with residuals a half step off at most (`Chain`), and on the way back the array close to the one of its
    level, within what the levels undone so far may have lost (`Allowed`). The bound, `LossBound`, depends on the number of
    levels and the largest ratio and not on the length, and is zero at step 1.
- **`ProgramsProofs`**: `SearchCorrect` (`LargestWithinBudget`; any highest step, any errors, any budgets, one search after another). In
  the loop the best step so far is within the budget and next to `lo` or at it, and for monotone errors everything above `hi` is over
  the budget. Of the bridge over the C ABI (any batch size, topic depth, number of poses and faults, any finite set of other threads
  that call the library): `BridgeInvariant`, `EveryPoseAccounted` (`PosesAccounted`) and `OwnErrors` (`CallerSeesOwnError`). `BridgeInv`
  has the poses between the nodes in order and once (`InOrder`), every one of them somewhere or lost (`AllSomewhere`), and each lost
  pose paid for by a fault that was counted, a batch each, or an unfit pose in its batch (`LossesPaid`). Of the tool (any texts, any
  number of digits and limits of the tool's own, any errors of a codec, commands in any order): `ToolInvariant`, `RestoredIsClose`
  (`RestoredClose`), `SqueezedExactly` (`SqueezeExact`), `RowsKept` (`ValidatedRowsKept`) and `ToolSearches` (`LargestWithinBudget` of
  the searches that `optimize` makes). `ToolInv` says of a file that its rows are those that are read from the text, each number off by
  no more than was printed when it was written (`WrittenWell`); of the restored text that it is that file, printed; and of `optimize`
  that an axis is searched among its own errors and that the step it was left with is within its budget (`StepFound`). From there it is
  arithmetic: `ThereAndBack` follows one number through both roundings, `CastSafe` through the cast to 32 bits, `NumberExact` finds the
  digits again where nothing was cut off. A user's scale is any integer: `ThereAndBack` and `UnscaledIs` are stated for each but 0, at
  which nothing can be said of what is printed, as it is no number (`RestoredClose` leaves it out). Assumed of the constants: a number
  of a text is a multiple of 10^-(its decimals), safe integers are below 2^31, every quality's step is one of the steps, and a codec is
  exact at step 1 (`Container`).

Recursive functions (`NextPow2`, `PowerOfTwo`, `PowerOfTen`, the rows of `RowsAt`, `Losses`, the sums of a table, the passes and
the depth of `SAIS`, `Ends`, `Joined` and `TwoTo` of the container) are reasoned about by least counterexamples: the
library's induction theorems take an operator as a parameter, which the provers cannot instantiate, but its well-founded
minimum (`WFMin`) takes a set, the set of arguments for which a claim fails. Each module has that step as a lemma (`LeastNat`, `Climb`).

## 6. Only model-checked

Liveness (`StreamEnds`, `EveryoneReturns`, `FuturesReady`, `DestructorReturns`, `PosesArrive`): liveness under fairness and
`ENABLED` are beyond TLAPS. Every invariant, every refinement and the action property of section 5 is a theorem.

## 7. Where code and documents disagree

Each is a run that TLC must find violated:

1. `thread_pool_submit`: `thread_pool.hpp:117-119` says that no task outlives the call. If `submit()` itself throws in the middle of
   `parallel_for` (`:127`: allocation, or a pool being stopped), the exception leaves at once while the earlier tasks, which refer to the
   caller's `fn`, are queued or running.
2. `joints_drift`: `rod_joint_transform.hpp:138-140` says that any coordinate is within half a step; without a resync the error of
   rods adds up along the path. `DriftBounded` is the bound that holds.
3. `squeeze_lossless`: `main.cpp:383-386` says that `squeeze` preserves exactly the precision of the file and that the word "lossless" it
   prints is verified. Decimals are cut to nine, exponents taken for six, and large numbers given fewer (`:461-464`, `:478-484`); the
   round trip that is verified begins with the integers. `SqueezeExact` and `RestoredClose` are what holds. A number beyond 2^31 does
   not even come close: `safe_scale` has nothing below scale 1 (`:481-482`), and the cast to `i32` wraps, which the comment at `:474-477`
   says it never risks. `RestoredClose` leaves such a number out, and no other of its table.

Observations without a run:

- `packet_transport.cpp:115` tests only the earliest held packet, so that one far beyond the window stays while an earlier one
  inside it is held; `packet_transport.hpp:36-39` reads as if it were given up.
- A packet sent before the wrap of the u32 counter that arrives after it looks far ahead, and is held or makes the counter
  jump. `AcceptedInOrder` is therefore stated within one lap. If `on_lost` threw, one packet more than the window would be kept.
- An `on_pose` that throws over datagrams leaves `on_deliver` (`pose_stream.cpp:62`, composed as in `test_main.cpp:1852`), and
  `deliver_and_advance` has not moved `next_expected_seq_` (`packet_transport.cpp:70-71`), nor is the packet held any longer. A
  duplicate of it is delivered again from its first pose, so that the consumer gets poses twice that it had accepted; and if the packet
  had jumped a gap, earlier ones that were reported lost are delivered when they arrive after all. On a pipe the rest of the chunk is
  skipped instead. No document says what a consumer may expect; `PoseChannel` states what does hold.
- `pose_stream.hpp:6` says that at most `chunk_size` poses are buffered; after an `on_chunk` that throws there may be more.
- `work_stealing_pool.hpp:32-34` calls the back of a queue the oldest task; it is the newest, and thieves take it. A future is ready
  (`:149`) before its task is counted (`:150`), so that `test_main.cpp:2468`, which requires all 200 to be counted after the last
  `get()`, can fail; `SettledAfterJoin` is stated after the destructor.
- `rans_coder.cpp:43-48` says that frequencies add up to exactly M. With `scale_bits` from 1 to 7 and more symbols than M they
  cannot, and `build_table` then writes behind `slot_to_symbol`: outcome `overrun` of `RansCoder`, which `RansExact` shows
  to be reached in that case only.
- A match still pending after `lz_parse`'s loop (`lz_matcher.cpp:157`) does not occur: a match of two bytes or more leaves a position
  to look at. `EndOfInput` keeps the branch.
- `common.hpp:24-33`, `fixed_mul_round`, rounds negative products down by one too many (-1 times 1.0 is -2). Both directions agree, so
  that nothing is lost but compression. The model has the same function.
- A `cudaMalloc` that failed leaves CUDA's last error set. The next `cudaGetLastError` after a kernel then reports it, and a call
  that would have succeeded falls back to the CPU; `DeviceFails` includes it.
- The encoder has no limits, the decoder refuses more than 100,000,000 elements or 2^27 decoded bytes: a larger lift, path or pose
  stream is written and cannot be read (`TooLarge` in `Container`).
- Rows that `sniff_table` skips when it finds the scale, five in a hundred at most, are still read if they begin with enough numbers, and
  may be too large for the scale found; the cast to `i32` then wraps. Rows with too few numbers are dropped. `validate` warns of both.
- `main.cpp:606-613` says that error is monotone in the step by construction. It is not (an error of a coarse step may happen to be 0),
  so that the step found need not be the largest; it is always one that was measured within the budget.
- `--scale` and `--qscale` are whatever `stoll` returns (`main.cpp:1831` and the commands behind it). At scale 0 every number is stored
  as 0 and printed as nan. At a negative scale numbers come back as they should, but the error printed by the lossy geo commands is
  negative, and that of `compress-pose-lossy` is 0 (a maximum with 0). `said` has the error as integers of the codec, before that
  division.
- `stod` takes nan, inf and hexadecimal numbers for numbers in `sniff_table`, and `operator>>` does not read the first two and reads
  0 for the hexadecimal ones (libstdc++). A row with an inf makes the scale of its table 1; rows with a nan or an inf are dropped when
  the table is read, and `validate` warns of them. `0x10` is stored as 0, without a warning.
- `decompress-geo2d`, `-geo3d` and `-pose` print six decimals whatever the scale; `unsqueeze` prints nine. `write_file` does not look
  whether the write succeeded.
- `optimize` on poses with one budget that not even step 1 meets raises "internal error" rather than the advice to store losslessly.
- `csa_capi.cpp:17-41`: without memory for the result the buffer is empty and no error is set, which a binding cannot tell from
  an empty result. The bridge then publishes an empty batch whose poses are lost.
- `core.py:67-73`: `round()` raises for a number that is not finite, which ends the node with its batch. The stamp and frame of a
  batch are those of the last pose and the clock (`compressor_node.py:75`, `:91-92`), which every pose of it gets when it is published
  again. The Python binding's `c_int32` arrays wrap numbers that are too large without an error.

## 8. Not modelled, and why

- Kernels in floating point (numerical, SIMD, `quaternion_calibration_cuda.cu`, `simd_cuda.cu`, spatial index, calibration): no
  protocol, and TLA+ has no floats.
- Of the tool: `compress` and `decompress` of plain bytes (a call of the container), `pareto` (a table of measurements), `inspect`,
  `verify`, `doctor`, `system`, `benchmark`, `scale-test`, `bench`, which print and change nothing.
- WASM shim, web demo, fuzzers, bench; the Go, Rust and C# bindings, which follow the Python one.
- Overflow of i32 coordinates in the transforms: the range of inputs is the caller's.
- In the tool: numbers so large that `llround` has no result (2^63 times the scale), the rounding of doubles, and hexadecimal numbers.
- Inputs of 2^32 bytes and more in the LZ parser, whose lengths and distances the casts to `u32` would cut; the code does not check.
- What a nan or inf that is printed by scale 0 means to a later command: it is the value `NoNumber`.
- Altered bytes of a blob: see section 2.
- The steal counters of the work-stealing pool, which nothing reads back; nested `parallel_for` from inside a task, which no code in
  the repository does and which could occupy every worker.

## 9. Plan

Done: the packet and pose streams, both pools, all coders, all transforms with the CUDA session, the container, the programs around the
library; proofs of every invariant and refinement of them.

Next: a wrap of the counter in `PoseTransport`, an `on_lost` that throws, `pareto`, and the other bindings where they differ.
