---------------------------- MODULE QuantSearch ----------------------------
(***************************************************************************)
(* search_max_quant_step (cli/main.cpp): a bisection of the quantisation   *)
(* steps for the largest whose error is within a budget. An error is what  *)
(* a compression and a decompression at that step were measured to give,   *)
(* so nothing is known of it but that the same step gives the same error.  *)
(***************************************************************************)
EXTENDS Integers

CONSTANT MaxStep  \* kSearchHi, below 2^31: no sum of two steps overflows

ASSUME StepsAssumption == MaxStep \in Nat \ {0}

VARIABLES
  err,     \* the error each step would be measured to have
  budget,  \* a negative one too is a number the command line takes
  lo, hi, best, stage

search == <<err, budget, lo, hi, best, stage>>

ErrorFunctions == [1 .. MaxStep -> Int]

Begin(e, b) ==
  /\ err' = e /\ budget' = b
  /\ lo' = 1 /\ hi' = MaxStep /\ best' = 1
  /\ stage' = "first"

SearchInit ==
  /\ err \in ErrorFunctions /\ budget \in Int
  /\ lo = 1 /\ hi = MaxStep /\ best = 1
  /\ stage = "first"

\* 0 if not even the finest step is good enough.
First ==
  /\ stage = "first"
  /\ IF err[1] > budget THEN best' = 0 /\ stage' = "done"
     ELSE best' = best /\ stage' = "loop"
  /\ UNCHANGED <<err, budget, lo, hi>>

\* Faulty variant: a step that is good enough is dropped from the interval with the
\* ones above it.
ProbeDropsMid ==
  LET mid == lo + (hi - lo) \div 2
      good == err[mid] <= budget
  IN  /\ stage = "loop"
      /\ best' = IF good THEN mid ELSE best
      /\ lo' = lo
      /\ hi' = IF mid # lo THEN mid - 1 ELSE hi
      /\ stage' = IF mid = lo \/ (good /\ mid = hi) THEN "done" ELSE "loop"
      /\ UNCHANGED <<err, budget>>

\* One pass of the loop, which ends at a bound of the interval before it could cross.
Probe ==
  LET mid == lo + (hi - lo) \div 2
      good == err[mid] <= budget
  IN  /\ stage = "loop"
      /\ best' = IF good THEN mid ELSE best
      /\ lo' = IF good /\ mid # hi THEN mid + 1 ELSE lo
      /\ hi' = IF ~good /\ mid # lo THEN mid - 1 ELSE hi
      /\ stage' = IF mid = (IF good THEN hi ELSE lo) THEN "done" ELSE "loop"
      /\ UNCHANGED <<err, budget>>

\* One search after another, over whatever errors and budgets.
SearchNext ==
  \/ First \/ Probe
  \/ \E e \in ErrorFunctions, b \in Int : stage = "done" /\ Begin(e, b)

SearchSpec == SearchInit /\ [][SearchNext]_search
-----------------------------------------------------------------------------
Monotone == \A s, t \in 1 .. MaxStep : s <= t => err[s] <= err[t]

\* What the search returns is within the budget, whatever the errors are like, or it is
\* 0 and step 1 is not; and no larger step is within it if a coarser step never has the
\* smaller error. A step that is too coarse never gets written to a file, and the
\* bounds, which are unsigned in the code, never pass each other or 0.
LargestWithinBudget ==
  /\ stage # "done" => 1 <= lo /\ lo <= hi /\ hi <= MaxStep
  /\ stage = "done" =>
       IF best = 0 THEN err[1] > budget
       ELSE /\ best \in 1 .. MaxStep /\ err[best] <= budget
            /\ Monotone => \A s \in best + 1 .. MaxStep : err[s] > budget
=============================================================================
