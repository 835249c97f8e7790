---------------------------- MODULE ParallelFor ----------------------------
(***************************************************************************)
(* What parallel_for (thread_pool.hpp) promises its callers: it behaves    *)
(* like the loop fn(0), ..., fn(count - 1). Every index is run exactly     *)
(* once and only while the call is active, the call returns when all of    *)
(* them are over, and it rethrows the error of the lowest index that       *)
(* failed. Threads, queues and wake-ups do not exist at this level.        *)
(***************************************************************************)
EXTENDS Integers

CONSTANTS Callers, MaxCount

NoError == -1

VARIABLES
  active,   \* is the caller inside parallel_for?
  count,    \* how many indices its current call has
  outcome,  \* per caller and index: "none", "ok" or "failed"
  raised    \* per caller: the index whose error the last call rethrew

vars == <<active, count, outcome, raised>>

Indices == 0 .. MaxCount - 1

Init ==
  /\ active = [c \in Callers |-> FALSE]
  /\ count = [c \in Callers |-> 0]
  /\ outcome = [c \in Callers |-> [i \in Indices |-> "none"]]
  /\ raised = [c \in Callers |-> NoError]

Begin(c) ==
  /\ ~active[c]
  /\ active' = [active EXCEPT ![c] = TRUE]
  /\ \E n \in 0 .. MaxCount : count' = [count EXCEPT ![c] = n]
  /\ outcome' = [outcome EXCEPT ![c] = [i \in Indices |-> "none"]]
  /\ raised' = [raised EXCEPT ![c] = NoError]

Run(c) ==
  /\ active[c]
  /\ \E i \in 0 .. count[c] - 1, o \in {"ok", "failed"} :
       /\ outcome[c][i] = "none"
       /\ outcome' = [outcome EXCEPT ![c][i] = o]
  /\ UNCHANGED <<active, count, raised>>

FirstFailure(c) ==
  LET failed == {i \in 0 .. count[c] - 1 : outcome[c][i] = "failed"}
  IN  IF failed = {} THEN NoError
      ELSE CHOOSE i \in failed : \A j \in failed : i <= j

Return(c) ==
  /\ active[c]
  /\ \A i \in 0 .. count[c] - 1 : outcome[c][i] # "none"
  /\ active' = [active EXCEPT ![c] = FALSE]
  /\ raised' = [raised EXCEPT ![c] = FirstFailure(c)]
  /\ UNCHANGED <<count, outcome>>

Next == \E c \in Callers : Begin(c) \/ Run(c) \/ Return(c)

Spec == Init /\ [][Next]_vars
=============================================================================
