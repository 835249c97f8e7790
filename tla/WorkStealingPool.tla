-------------------------- MODULE WorkStealingPool --------------------------
(***************************************************************************)
(* csa::WorkStealingPool (work_stealing_pool.hpp): one queue and one mutex *)
(* per worker, submissions dealt out in turn, owners popping the front and *)
(* idle workers stealing from the back; one stop flag that no mutex        *)
(* guards, and a condition variable on which idle workers wait for at most *)
(* a millisecond.                                                          *)
(*                                                                         *)
(* A step is one atomic access or one critical section. steal_attempts and *)
(* steals_succeeded, which nothing reads back, are left out.               *)
(***************************************************************************)
EXTENDS Integers, Sequences, FiniteSets

CONSTANTS
  NumWorkers,    \* workers_.size()
  Clients,       \* the threads that call submit()
  TasksEach,     \* bound: how many tasks each of them submits
  NoTask         \* a worker has no task in hand

ASSUME WorkStealingAssumption ==
  /\ NumWorkers \in Nat \ {0}
  /\ IsFiniteSet(Clients)
  /\ TasksEach \in Nat \ {0}
  /\ NoTask \notin Clients \X Nat

VARIABLES
  queue,      \* per worker: its deque
  at,         \* per worker: where it is in worker_loop
  offset,     \* per worker: the offset of try_steal's loop
  hand,       \* per worker: the task it has taken
  nextQueue,  \* next_queue_
  phase,      \* per client: where it is in submit()
  sent,       \* per client: tasks submitted
  target,     \* per client: the queue submit() has chosen
  ready,      \* the tasks whose futures are ready
  submitted,  \* stats: tasks_submitted
  completed,  \* stats: tasks_completed
  stop,       \* stop_
  dtor        \* the destructor: none, notify, join, done

workerVars == <<queue, at, offset, hand, ready, completed>>
clientVars == <<nextQueue, phase, sent, target, submitted>>
dtorVars == <<stop, dtor>>
vars == <<workerVars, clientVars, dtorVars>>

Workers == 0 .. NumWorkers - 1
Tasks == Clients \X (0 .. TasksEach - 1)
LastOf(s) == s[Len(s)]
FrontOf(s) == SubSeq(s, 1, Len(s) - 1)

Init ==
  /\ queue = [w \in Workers |-> <<>>]
  /\ at = [w \in Workers |-> "own"]
  /\ offset = [w \in Workers |-> 1]
  /\ hand = [w \in Workers |-> NoTask]
  /\ nextQueue = 0
  /\ phase = [c \in Clients |-> "choose"]
  /\ sent = [c \in Clients |-> 0]
  /\ target = [c \in Clients |-> 0]
  /\ ready = {}
  /\ submitted = 0
  /\ completed = 0
  /\ stop = FALSE
  /\ dtor = "none"
-----------------------------------------------------------------------------
(* submit().                                                               *)

ChooseQueue(c) ==
  /\ phase[c] = "choose"
  /\ target' = [target EXCEPT ![c] = nextQueue % NumWorkers]
  /\ nextQueue' = nextQueue + 1
  /\ phase' = [phase EXCEPT ![c] = "push"]
  /\ UNCHANGED <<workerVars, sent, submitted, dtorVars>>

Push(c) ==
  /\ phase[c] = "push"
  /\ queue' = [queue EXCEPT ![target[c]] = Append(@, <<c, sent[c]>>)]
  /\ sent' = [sent EXCEPT ![c] = @ + 1]
  /\ phase' = [phase EXCEPT ![c] = "count"]
  /\ UNCHANGED <<at, offset, hand, ready, completed, nextQueue, target,
                 submitted, dtorVars>>

CountSubmitted(c) ==
  /\ phase[c] = "count"
  /\ submitted' = submitted + 1
  /\ phase' = [phase EXCEPT ![c] = "notify"]
  /\ UNCHANGED <<workerVars, nextQueue, sent, target, dtorVars>>

\* A woken worker looks at the predicate again.
WakeAll == at' = [w \in Workers |-> IF at[w] = "asleep" THEN "predicate" ELSE at[w]]

\* A client that has submitted everything waits for its futures or drops them.
NotifyAll(c) ==
  /\ phase[c] = "notify"
  /\ WakeAll
  /\ \E then \in IF sent[c] < TasksEach THEN {"choose"} ELSE {"await", "dropped"} :
       phase' = [phase EXCEPT ![c] = then]
  /\ UNCHANGED <<queue, offset, hand, ready, completed, nextQueue, sent, target,
                 submitted, dtorVars>>

\* future.get() on all of them.
Await(c) ==
  /\ phase[c] = "await"
  /\ \A i \in 0 .. TasksEach - 1 : <<c, i>> \in ready
  /\ phase' = [phase EXCEPT ![c] = "left"]
  /\ UNCHANGED <<workerVars, nextQueue, sent, target, submitted, dtorVars>>

Client(c) ==
  ChooseQueue(c) \/ Push(c) \/ CountSubmitted(c) \/ NotifyAll(c) \/ Await(c)
-----------------------------------------------------------------------------
(* worker_loop.                                                            *)

\* try_pop_own.
PopOwn(w) ==
  /\ at[w] = "own"
  /\ queue[w] # <<>>
  /\ hand' = [hand EXCEPT ![w] = Head(queue[w])]
  /\ queue' = [queue EXCEPT ![w] = Tail(@)]
  /\ at' = [at EXCEPT ![w] = "run"]
  /\ UNCHANGED <<offset, ready, completed, clientVars, dtorVars>>

OwnEmpty(w) ==
  /\ at[w] = "own"
  /\ queue[w] = <<>>
  /\ at' = [at EXCEPT ![w] = IF NumWorkers > 1 THEN "steal" ELSE "check"]
  /\ offset' = [offset EXCEPT ![w] = 1]
  /\ UNCHANGED <<queue, hand, ready, completed, clientVars, dtorVars>>

\* try_steal: one victim after the other, each under its own mutex.
Victim(w) == (w + offset[w]) % NumWorkers

\* Faulty variant: the back is taken and the front is dropped.
StealDropsFront(w) ==
  /\ at[w] = "steal"
  /\ queue[Victim(w)] # <<>>
  /\ hand' = [hand EXCEPT ![w] = LastOf(queue[Victim(w)])]
  /\ queue' = [queue EXCEPT ![Victim(w)] = Tail(@)]
  /\ at' = [at EXCEPT ![w] = "run"]
  /\ UNCHANGED <<offset, ready, completed, clientVars, dtorVars>>

Steal(w) ==
  /\ at[w] = "steal"
  /\ queue[Victim(w)] # <<>>
  /\ hand' = [hand EXCEPT ![w] = LastOf(queue[Victim(w)])]
  /\ queue' = [queue EXCEPT ![Victim(w)] = FrontOf(@)]
  /\ at' = [at EXCEPT ![w] = "run"]
  /\ UNCHANGED <<offset, ready, completed, clientVars, dtorVars>>

VictimEmpty(w) ==
  /\ at[w] = "steal"
  /\ queue[Victim(w)] = <<>>
  /\ IF offset[w] + 1 < NumWorkers
     THEN offset' = [offset EXCEPT ![w] = @ + 1] /\ UNCHANGED at
     ELSE at' = [at EXCEPT ![w] = "check"] /\ UNCHANGED offset
  /\ UNCHANGED <<queue, hand, ready, completed, clientVars, dtorVars>>

\* Faulty variant: the worker goes on without counting the task.
RunTaskUncounted(w) ==
  /\ at[w] = "run"
  /\ ready' = ready \union {hand[w]}
  /\ hand' = [hand EXCEPT ![w] = NoTask]
  /\ at' = [at EXCEPT ![w] = "own"]
  /\ UNCHANGED <<queue, offset, completed, clientVars, dtorVars>>

\* task() makes the future ready, whether fn returns or throws ...
RunTask(w) ==
  /\ at[w] = "run"
  /\ ready' = ready \union {hand[w]}
  /\ hand' = [hand EXCEPT ![w] = NoTask]
  /\ at' = [at EXCEPT ![w] = "completed"]
  /\ UNCHANGED <<queue, offset, completed, clientVars, dtorVars>>

\* ... and only then is it counted.
CountCompleted(w) ==
  /\ at[w] = "completed"
  /\ completed' = completed + 1
  /\ at' = [at EXCEPT ![w] = "own"]
  /\ UNCHANGED <<queue, offset, hand, ready, clientVars, dtorVars>>

CheckStop(w) ==
  /\ at[w] = "check"
  /\ at' = [at EXCEPT ![w] = IF stop THEN "gone" ELSE "predicate"]
  /\ UNCHANGED <<queue, offset, hand, ready, completed, clientVars, dtorVars>>

\* wait_for: its predicate is stop_ alone, so the notification of a submit()
\* sends a sleeper back to sleep until its millisecond is over.
CheckPredicate(w) ==
  /\ at[w] = "predicate"
  /\ at' = [at EXCEPT ![w] = IF stop THEN "own" ELSE "block"]
  /\ UNCHANGED <<queue, offset, hand, ready, completed, clientVars, dtorVars>>

\* stop_ is stored without cv_mutex_: a notification may fall between the
\* predicate and the block, and wake nobody.
Block(w) ==
  /\ at[w] = "block"
  /\ at' = [at EXCEPT ![w] = "asleep"]
  /\ UNCHANGED <<queue, offset, hand, ready, completed, clientVars, dtorVars>>

\* Faulty variant: a wait without a time limit that looks at its predicate only.
TimeOutToPredicate(w) ==
  /\ at[w] = "asleep"
  /\ at' = [at EXCEPT ![w] = "predicate"]
  /\ UNCHANGED <<queue, offset, hand, ready, completed, clientVars, dtorVars>>

\* Faulty variant: a wait that only a notification ends.
TimeOutNever(w) == at[w] = "asleep" /\ UNCHANGED vars

TimeOut(w) ==
  /\ at[w] = "asleep"
  /\ at' = [at EXCEPT ![w] = "own"]
  /\ UNCHANGED <<queue, offset, hand, ready, completed, clientVars, dtorVars>>

Worker(w) ==
  \/ PopOwn(w) \/ OwnEmpty(w) \/ Steal(w) \/ VictimEmpty(w)
  \/ RunTask(w) \/ CountCompleted(w)
  \/ CheckStop(w) \/ CheckPredicate(w) \/ Block(w) \/ TimeOut(w)
-----------------------------------------------------------------------------
(* ~WorkStealingPool, when no client is inside submit() any more.           *)

StopPool ==
  /\ dtor = "none"
  /\ \A c \in Clients : phase[c] \in {"left", "dropped"}
  /\ stop' = TRUE
  /\ dtor' = "notify"
  /\ UNCHANGED <<workerVars, clientVars>>

NotifyStop ==
  /\ dtor = "notify"
  /\ WakeAll
  /\ dtor' = "join"
  /\ UNCHANGED <<queue, offset, hand, ready, completed, clientVars, stop>>

Join ==
  /\ dtor = "join"
  /\ \A w \in Workers : at[w] = "gone"
  /\ dtor' = "done"
  /\ UNCHANGED <<workerVars, clientVars, stop>>

Destroy == NotifyStop \/ Join
-----------------------------------------------------------------------------
Next ==
  \/ \E c \in Clients : Client(c)
  \/ \E w \in Workers : Worker(w)
  \/ StopPool \/ Destroy

Spec == Init /\ [][Next]_vars

\* Threads that can run do run, and a millisecond ends. Nobody has to destroy
\* the pool.
Fairness ==
  /\ \A c \in Clients : WF_vars(Client(c))
  /\ \A w \in Workers : WF_vars(Worker(w))
  /\ WF_vars(Destroy)

FairSpec == Spec /\ Fairness
-----------------------------------------------------------------------------

QueuedAt(t) == {p \in Workers \X (1 .. Cardinality(Tasks)) :
                  p[2] <= Len(queue[p[1]]) /\ queue[p[1]][p[2]] = t}
HeldBy(t) == {w \in Workers : hand[w] = t}

\* "Every submitted task actually runs, exactly once": at every moment a task
\* that was submitted is in one queue, in one worker's hand or done, whoever
\* pops and steals at the same time.
EachTaskOnce ==
  \A t \in Tasks :
    Cardinality(QueuedAt(t)) + Cardinality(HeldBy(t)) + (IF t \in ready THEN 1 ELSE 0)
      = IF t[2] < sent[t[1]] THEN 1 ELSE 0

\* After the join, whatever a client waited for has run, and the two counters tell
\* the truth: what was submitted and not completed is what the pool dropped.
SettledAfterJoin ==
  dtor = "done" =>
    /\ \A c \in Clients, i \in 0 .. TasksEach - 1 : phase[c] = "left" => <<c, i>> \in ready
    /\ submitted = Cardinality(Tasks)
    /\ completed = Cardinality(ready)

\* Every future becomes ready although submit()'s notification wakes nobody for
\* good, and the destructor returns although its own may be lost.
FuturesReady == \A c \in Clients : (phase[c] = "await") ~> (phase[c] = "left")

DestructorReturns == (dtor = "notify") ~> (dtor = "done")
=============================================================================
