-------------------------- MODULE CudaLiftSession --------------------------
(***************************************************************************)
(* The lift as the codecs run it (pantograph_lift.cpp,                     *)
(* pantograph_lift_cuda.cu): on the device, by a session whose buffers     *)
(* outlive the call or by a one-shot call that frees what it allocated; on *)
(* the CPU for the last few small levels, for every lossy caller, and from *)
(* the start when any CUDA call fails, as compress() does. The inverse     *)
(* always runs on the CPU.                                                 *)
(***************************************************************************)
EXTENDS PantographLift, FiniteSets

CONSTANTS
  Inputs,      \* arrays to transform
  LiftSteps,   \* quant_step a lossy caller may ask for
  TailCutoff,  \* kGpuTailCutoff
  MaxCalls     \* bound: calls of a thread

ASSUME SessionAssumption ==
  /\ Inputs \subseteq Seq(Int)
  /\ LiftSteps \subseteq Nat
  /\ TailCutoff \in Nat

VARIABLES
  call,    \* "session", "oneshot", "cpu"
  stage,   \* the stage of the call
  group,   \* the group of buffers being ensured
  input,
  quantStep,   \* quant_step
  cur,     \* the array of the level being computed or undone
  levels,  \* residuals, block_ratios, block_offsets, finest first
  alloc,   \* elements behind each pointer, 0 for nullptr, of the session and of a call
  cap,     \* the capacity recorded for each group of buffers
  live,    \* allocations made and not freed
  calls

request == <<call, input, quantStep, calls>>
memory == <<alloc, cap, live>>
liftVars == <<request, stage, group, cur, levels, memory>>

\* The buffers in the order they are ensured; the sums share one capacity.
Groups == << {"bufA"}, {"bufB"}, {"sum_a", "sum_b", "sum_ab", "sum_aa"}, {"ratios"},
             {"offsets"}, {"residual"},
             {"residual_pinned"}, {"ratios_pinned"}, {"offsets_pinned"} >>
Buffers == UNION {Groups[g] : g \in DOMAIN Groups}
Owners == {"session", "oneshot"}

\* What the allocations of a group may leave: those before the first that fails.
Given(g) ==
  IF g # 3 THEN {{}, Groups[g]}
  ELSE {{}, {"sum_a"}, {"sum_a", "sum_b"}, {"sum_a", "sum_b", "sum_ab"}, Groups[3]}

AllocN(n) == IF n > 0 THEN n ELSE 1

\* What an accumulator of f holds after each of n rounds, and a maximum.
Totals(f, n) ==
  LET total[l \in 0 .. n] == IF l = 0 THEN 0 ELSE total[l - 1] + f[l] IN total
Maxima(f, n) ==
  LET most[l \in 0 .. n] ==
        IF l = 0 THEN 0 ELSE IF f[l] > most[l - 1] THEN f[l] ELSE most[l - 1]
  IN  most

\* compute_level_plan: pairs and blocks of each level, the levels the device takes,
\* and where each of them puts its results, behind those of the levels before it.
LevelPlan(paddedLen) ==
  LET pairs[l \in 1 .. paddedLen] == (IF l = 1 THEN paddedLen ELSE pairs[l - 1]) \div 2
      blocks == [l \in 1 .. paddedLen |-> NumBlocksFor(pairs[l])]
      numLevels == Cardinality({l \in 1 .. paddedLen : pairs[l] > 0})
      gpuLevels == Cardinality({l \in 1 .. numLevels : pairs[l] * 2 > TailCutoff})
      residEnd == Totals(pairs, paddedLen)
      paramEnd == Totals(blocks, paddedLen)
  IN  [numLevels |-> numLevels, gpuLevels |-> gpuLevels, pairs |-> pairs, blocks |-> blocks,
       residOff |-> [l \in 1 .. gpuLevels |-> residEnd[l - 1]],
       paramOff |-> [l \in 1 .. gpuLevels |-> paramEnd[l - 1]],
       totalResiduals |-> residEnd[gpuLevels],
       totalBlocks |-> paramEnd[gpuLevels],
       maxBlocks |-> Maxima(blocks, paddedLen)[gpuLevels]]

Plan == LevelPlan(NextPow2(Len(input)))

Need(g) ==
  IF g \in {1, 2} THEN NextPow2(Len(input))
  ELSE IF g = 3 THEN AllocN(Plan.maxBlocks)
  ELSE IF g \in {6, 7} THEN AllocN(Plan.totalResiduals)
  ELSE AllocN(Plan.totalBlocks)

LiftInit ==
  /\ call = "cpu" /\ stage = "idle" /\ group = 1 /\ calls = 0
  /\ input = <<>> /\ quantStep = 1 /\ cur = <<>> /\ levels = <<>>
  /\ alloc = [o \in Owners |-> [b \in Buffers |-> 0]]
  /\ cap = [o \in Owners |-> [g \in DOMAIN Groups |-> 0]]
  /\ live = 0

\* A call; what the device computes is always lossless.
Start(c, i, q) ==
  /\ stage = "idle" /\ calls < MaxCalls
  /\ c # "cpu" => q = 1
  /\ call' = c /\ input' = i /\ calls' = calls + 1
  /\ quantStep' = IF q = 0 THEN 1 ELSE q
  /\ levels' = <<>>
  /\ cur' = IF i = <<>> THEN <<>> ELSE Padded(i)
  /\ stage' = IF i = <<>> THEN "inverse" ELSE IF c = "cpu" THEN "cpu" ELSE "ensure"
  /\ group' = 1
  /\ UNCHANGED memory

\* ~Impl, and the end of a one-shot call: every buffer that is there is freed.
Released(o) ==
  /\ alloc' = [alloc EXCEPT ![o] = [b \in Buffers |-> 0]]
  /\ cap' = [cap EXCEPT ![o] = [g \in DOMAIN Groups |-> 0]]
  /\ live' = live - Cardinality({b \in Buffers : alloc[o][b] > 0})

\* A CUDA call failed: compress() drops what there is and starts over on the CPU.
GiveUp ==
  /\ stage' = "cpu" /\ cur' = Padded(input) /\ levels' = <<>>
  /\ UNCHANGED <<request, group>>

\* Faulty variant: what the buffers hold is not freed before they grow.
GrowLeaks(g, got) ==
  /\ alloc' = [alloc EXCEPT ![call] = [b \in Buffers |-> IF b \in got THEN Need(g)
                                         ELSE IF b \in Groups[g] THEN 0 ELSE @[b]]]
  /\ cap' = [cap EXCEPT ![call][g] = IF got = Groups[g] THEN Need(g) ELSE 0]
  /\ live' = live + Cardinality(got)

\* Faulty variant: the capacity is noted before the memory is there.
GrowTooSoon(g, got) ==
  /\ alloc' = [alloc EXCEPT ![call] = [b \in Buffers |-> IF b \in got THEN Need(g)
                                         ELSE IF b \in Groups[g] THEN 0 ELSE @[b]]]
  /\ cap' = [cap EXCEPT ![call][g] = Need(g)]
  /\ live' = live + Cardinality(got) - Cardinality({b \in Groups[g] : alloc[call][b] > 0})

\* A group of buffers is freed and allocated anew; got is what cudaMalloc gave.
Grow(g, got) ==
  /\ alloc' = [alloc EXCEPT ![call] = [b \in Buffers |-> IF b \in got THEN Need(g)
                                         ELSE IF b \in Groups[g] THEN 0 ELSE @[b]]]
  /\ cap' = [cap EXCEPT ![call][g] = IF got = Groups[g] THEN Need(g) ELSE 0]
  /\ live' = live + Cardinality(got) - Cardinality({b \in Groups[g] : alloc[call][b] > 0})

\* What holds enough is kept; otherwise the first allocation that fails ends the call.
EnsureCapacity ==
  /\ stage = "ensure"
  /\ \E got \in Given(group) :
     LET enough == Need(group) <= cap[call][group]
         whole == enough \/ got = Groups[group]
     IN  /\ enough => got = {} /\ UNCHANGED memory
         /\ ~enough /\ (call = "session" \/ whole) => Grow(group, got)
         /\ ~whole /\ call = "oneshot" => Released("oneshot")
         /\ ~whole => GiveUp
         /\ whole => /\ stage' = IF group = 6 THEN "pipeline" ELSE IF group = 9 THEN "download"
                              ELSE "ensure"
                     /\ group' = group + 1
                     /\ UNCHANGED <<request, cur, levels>>

\* A copy to or from the device, or the launch of a kernel, fails.
DeviceFails ==
  /\ stage \in {"pipeline", "download"} \/ (stage = "ensure" /\ group = 3)
  /\ IF call = "oneshot" THEN Released("oneshot") ELSE UNCHANGED memory
  /\ GiveUp

\* The three kernels of one level.
GpuLevel ==
  /\ stage = "pipeline"
  /\ Len(levels) < Plan.gpuLevels
  /\ \E fits \in Fits(Len(cur) \div 2) :
       /\ levels' = Append(levels, Level(cur, fits, 1))
       /\ cur' = Level(cur, fits, 1).low
  /\ UNCHANGED <<request, stage, group, memory>>

\* What is left is copied to the host, for the CPU to go on with.
HandOff ==
  /\ stage = "pipeline"
  /\ Len(levels) = Plan.gpuLevels
  /\ stage' = "tail"
  /\ UNCHANGED <<request, group, cur, levels, memory>>

CpuLevel ==
  /\ stage \in {"tail", "cpu"}
  /\ Len(cur) > 1
  /\ \E fits \in Fits(Len(cur) \div 2) :
       /\ levels' = Append(levels, Level(cur, fits, quantStep))
       /\ cur' = Level(cur, fits, quantStep).low
  /\ UNCHANGED <<request, stage, group, memory>>

\* The base is reached: the device's results are still to be fetched.
BaseReached ==
  /\ stage \in {"tail", "cpu"}
  /\ Len(cur) = 1
  /\ stage' = IF stage = "tail" THEN "ensure" ELSE "inverse"
  /\ UNCHANGED <<request, group, cur, levels, memory>>

\* copy_results_to_host, and the levels of the tail behind those of the device.
Download ==
  /\ stage = "download"
  /\ stage' = "inverse"
  /\ IF call = "oneshot" THEN Released("oneshot") ELSE UNCHANGED memory
  /\ UNCHANGED <<request, group, cur, levels>>

InverseLevel ==
  /\ stage = "inverse"
  /\ levels # <<>>
  /\ cur' = Unlevel(cur, levels[Len(levels)], quantStep)
  /\ levels' = SubSeq(levels, 1, Len(levels) - 1)
  /\ UNCHANGED <<request, stage, group, memory>>

InverseDone ==
  /\ stage = "inverse"
  /\ levels = <<>>
  /\ cur' = SubSeq(cur, 1, Len(input))
  /\ stage' = "idle"
  /\ UNCHANGED <<request, group, levels, memory>>

\* The thread ends, and its session with it.
ThreadEnds ==
  /\ stage = "idle"
  /\ Released("session")
  /\ stage' = "ended"
  /\ UNCHANGED <<request, group, cur, levels>>

LiftNext ==
  \/ \E c \in {"session", "oneshot", "cpu"}, i \in Inputs, q \in LiftSteps : Start(c, i, q)
  \/ EnsureCapacity
  \/ DeviceFails
  \/ GpuLevel
  \/ HandOff
  \/ CpuLevel
  \/ BaseReached
  \/ Download
  \/ InverseLevel
  \/ InverseDone
  \/ ThreadEnds

LiftSpec == LiftInit /\ [][LiftNext]_liftVars
-----------------------------------------------------------------------------
\* An error in a value that a level predicts from is scaled by a ratio and rounded, and
\* the error of the quantised residual comes on top.
Losses(n) ==
  LET steep == IF MaxRatio > FixedOne THEN MaxRatio ELSE FixedOne
      loss[l \in 0 .. n] ==
        IF l = 0 \/ quantStep = 1 THEN 0
        ELSE (steep * loss[l - 1] + FixedOne - 1) \div FixedOne + 1 + quantStep \div 2
  IN  loss

LossBound(paddedLen) == Losses(paddedLen)[LevelPlan(paddedLen).numLevels]

\* Without quantisation the input comes back, whatever the fits, whichever device
\* computed each level and wherever the device gave up. With it the error grows with the
\* levels and not with the length.
LiftRoundTrip ==
  stage = "idle" =>
    /\ Len(cur) = Len(input)
    /\ \A i \in DOMAIN input : Abs(cur[i] - input[i]) <= LossBound(NextPow2(Len(input)))

\* A recorded capacity is memory that is there, in every buffer it stands for, and
\* every allocation is held by some pointer, through failures and restarts, until
\* the thread ends and none is left.
MemoryAccounted ==
  /\ \A o \in Owners, g \in DOMAIN Groups : \A b \in Groups[g] : cap[o][g] <= alloc[o][b]
  /\ live = Cardinality({h \in Owners \X Buffers : alloc[h[1]][h[2]] > 0})
  /\ stage \in {"idle", "ended"} => \A b \in Buffers : alloc["oneshot"][b] = 0
  /\ stage = "ended" => live = 0

\* No kernel and no copy reaches past a buffer, also one kept from an earlier call.
KernelsInBounds ==
  /\ stage = "pipeline" /\ Len(levels) < Plan.gpuLevels =>
       LET l == Len(levels) + 1
           Holds(b, n) == n <= alloc[call][b]
       IN  /\ Holds("bufA", 2 * Plan.pairs[l]) /\ Holds("bufB", 2 * Plan.pairs[l])
           /\ \A b \in Groups[3] : Holds(b, Plan.blocks[l])
           /\ Holds("ratios", Plan.paramOff[l] + Plan.blocks[l])
           /\ Holds("offsets", Plan.paramOff[l] + Plan.blocks[l])
           /\ Holds("residual", Plan.residOff[l] + Plan.pairs[l])
  /\ stage = "download" =>
       /\ \A b \in {"residual", "residual_pinned"} : Plan.totalResiduals <= alloc[call][b]
       /\ \A b \in {"ratios", "offsets", "ratios_pinned", "offsets_pinned"} :
            Plan.totalBlocks <= alloc[call][b]
=============================================================================
