----------------------------- MODULE ThreadPool -----------------------------
(***************************************************************************)
(* csa::ThreadPool and parallel_for (thread_pool.hpp): workers that take   *)
(* tasks from one FIFO queue under one mutex and sleep on one condition    *)
(* variable, several threads that call parallel_for or submit() at the     *)
(* same time, and the destructor.                                          *)
(*                                                                         *)
(* A step is one critical section, one notification or one task: between   *)
(* submit's unlock and its notify_one anything may happen. A task is the   *)
(* pair of its caller and its index.                                       *)
(***************************************************************************)
EXTENDS Integers, Sequences, FiniteSets

CONSTANTS
  Workers,        \* the worker threads
  Callers,        \* the threads that use the pool
  MaxCount,       \* bound: the largest count of a parallel_for
  NoTask          \* a worker has no task in hand

ASSUME ThreadPoolAssumption ==
  /\ Workers # {} /\ IsFiniteSet(Workers)
  /\ IsFiniteSet(Callers)
  /\ MaxCount \in Nat

VARIABLES
  queue,    \* tasks_
  stop,     \* stop_
  mode,     \* per worker: awake (outside the lock), asleep in cv_, running, gone
  task,     \* per worker: the task it runs
  phase,    \* per caller: where it is in its call
  waits,    \* per caller: does it collect the futures (parallel_for)?
  count,    \* per caller: how many tasks
  at,       \* per caller: the index of its loop
  outcome,  \* per caller and index: the state of the future
  raised,   \* per caller: first_error, as the index it came from
  dtor      \* the destructor: none, notify, join, done

poolVars == <<queue, stop>>
workerVars == <<mode, task>>
callVars == <<phase, waits, count, at, outcome, raised>>
vars == <<poolVars, workerVars, callVars, dtor>>

NoError == -1
Indices == 0 .. MaxCount - 1
Tasks == Callers \X Indices
Outcomes == {"ok", "failed"}
InCall == {"inline", "submit", "notify", "collect"}

Init ==
  /\ queue = <<>>
  /\ stop = FALSE
  /\ mode = [w \in Workers |-> "awake"]
  /\ task = [w \in Workers |-> NoTask]
  /\ phase = [c \in Callers |-> "ready"]
  /\ waits = [c \in Callers |-> TRUE]
  /\ count = [c \in Callers |-> 0]
  /\ at = [c \in Callers |-> 0]
  /\ outcome = [c \in Callers |-> [i \in Indices |-> "none"]]
  /\ raised = [c \in Callers |-> NoError]
  /\ dtor = "none"
-----------------------------------------------------------------------------
(* The callers.                                                            *)

\* parallel_for(n, fn), again and again, or n times submit() by a thread that
\* drops the futures. The pool outlives the calls: none starts once ~ThreadPool
\* has. Those of parallel_for may follow one another. A single index runs on the calling thread, none at all needs no pool.
Begin(c, n, collects) ==
  /\ phase[c] = "ready" \/ (phase[c] = "done" /\ waits[c] /\ collects)
  /\ dtor = "none"
  /\ collects \/ n > 0
  /\ phase' = [phase EXCEPT ![c] = IF collects /\ n = 0 THEN "collect"
                                   ELSE IF collects /\ n = 1 THEN "inline"
                                   ELSE "submit"]
  /\ waits' = [waits EXCEPT ![c] = collects]
  /\ count' = [count EXCEPT ![c] = n]
  /\ at' = [at EXCEPT ![c] = 0]
  /\ outcome' = [outcome EXCEPT ![c] = [i \in Indices |-> "none"]]
  /\ raised' = [raised EXCEPT ![c] = NoError]
  /\ UNCHANGED <<poolVars, workerVars, dtor>>

RunInline(c, o) ==
  /\ phase[c] = "inline"
  /\ outcome' = [outcome EXCEPT ![c][0] = o]
  /\ phase' = [phase EXCEPT ![c] = "collect"]
  /\ UNCHANGED <<poolVars, workerVars, waits, count, at, raised, dtor>>

\* submit(): the critical section.
Submit(c) ==
  /\ phase[c] = "submit"
  /\ ~stop
  /\ queue' = Append(queue, <<c, at[c]>>)
  /\ phase' = [phase EXCEPT ![c] = "notify"]
  /\ UNCHANGED <<stop, workerVars, waits, count, at, outcome, raised, dtor>>

\* submit() throws, on shutdown or for want of memory: the exception leaves
\* parallel_for's submitting loop as well, and what was submitted stays.
SubmitThrows(c) ==
  /\ phase[c] = "submit"
  /\ phase' = [phase EXCEPT ![c] = "threw"]
  /\ UNCHANGED <<poolVars, workerVars, waits, count, at, outcome, raised, dtor>>

\* What follows submit() in its caller's loop.
NextIndex(c) ==
  LET last == at[c] + 1 = count[c]
  IN  /\ phase' = [phase EXCEPT ![c] = IF ~last THEN "submit"
                                       ELSE IF waits[c] THEN "collect"
                                       ELSE "done"]
      /\ at' = [at EXCEPT ![c] = IF last THEN 0 ELSE @ + 1]

Wake(w) == mode' = [mode EXCEPT ![w] = "awake"]

\* Faulty variant: only a task that finds the queue empty is notified.
NotifyFirst(c) ==
  /\ phase[c] = "notify"
  /\ IF Len(queue) = 1 /\ \E w \in Workers : mode[w] = "asleep"
     THEN \E w \in Workers : mode[w] = "asleep" /\ Wake(w)
     ELSE UNCHANGED mode
  /\ NextIndex(c)
  /\ UNCHANGED <<poolVars, task, waits, count, outcome, raised, dtor>>

\* Faulty variant: submit() never notifies.
NotifyNobody(c) ==
  /\ phase[c] = "notify"
  /\ NextIndex(c)
  /\ UNCHANGED <<poolVars, workerVars, waits, count, outcome, raised, dtor>>

\* submit(): notify_one, after the unlock. It wakes any one sleeper.
Notify(c) ==
  /\ phase[c] = "notify"
  /\ IF \E w \in Workers : mode[w] = "asleep"
     THEN \E w \in Workers : mode[w] = "asleep" /\ Wake(w)
     ELSE UNCHANGED mode
  /\ NextIndex(c)
  /\ UNCHANGED <<poolVars, task, waits, count, outcome, raised, dtor>>

\* Faulty variant: the first error leaves the collecting loop.
CollectRethrows(c) ==
  /\ phase[c] = "collect"
  /\ at[c] < count[c]
  /\ outcome[c][at[c]] # "none"
  /\ IF outcome[c][at[c]] = "failed"
     THEN /\ raised' = [raised EXCEPT ![c] = at[c]]
          /\ phase' = [phase EXCEPT ![c] = "done"]
     ELSE UNCHANGED <<raised, phase>>
  /\ at' = [at EXCEPT ![c] = @ + 1]
  /\ UNCHANGED <<poolVars, workerVars, waits, count, outcome, dtor>>

\* Faulty variant: a later error replaces first_error.
CollectLast(c) ==
  /\ phase[c] = "collect"
  /\ at[c] < count[c]
  /\ outcome[c][at[c]] # "none"
  /\ raised' = [raised EXCEPT ![c] =
                  IF outcome[c][at[c]] = "failed" THEN at[c] ELSE @]
  /\ at' = [at EXCEPT ![c] = @ + 1]
  /\ UNCHANGED <<poolVars, workerVars, phase, waits, count, outcome, dtor>>

\* One future.get() that returns or throws; first_error keeps the first.
Collect(c) ==
  /\ phase[c] = "collect"
  /\ at[c] < count[c]
  /\ outcome[c][at[c]] # "none"
  /\ raised' = [raised EXCEPT ![c] =
                  IF @ = NoError /\ outcome[c][at[c]] = "failed" THEN at[c] ELSE @]
  /\ at' = [at EXCEPT ![c] = @ + 1]
  /\ UNCHANGED <<poolVars, workerVars, phase, waits, count, outcome, dtor>>

Return(c) ==
  /\ phase[c] = "collect"
  /\ at[c] = count[c]
  /\ phase' = [phase EXCEPT ![c] = "done"]
  /\ UNCHANGED <<poolVars, workerVars, waits, count, at, outcome, raised, dtor>>

Caller(c) ==
  \/ \E o \in Outcomes : RunInline(c, o)
  \/ Submit(c) \/ SubmitThrows(c) \/ Notify(c) \/ Collect(c) \/ Return(c)
-----------------------------------------------------------------------------
(* worker_loop.                                                            *)

TakeTask(w) ==
  /\ mode[w] = "awake"
  /\ queue # <<>>
  /\ task' = [task EXCEPT ![w] = Head(queue)]
  /\ queue' = Tail(queue)
  /\ mode' = [mode EXCEPT ![w] = "running"]
  /\ UNCHANGED <<stop, callVars, dtor>>

\* The predicate is false: the wait gives the mutex back and sleeps at once.
Sleep(w) ==
  /\ mode[w] = "awake"
  /\ queue = <<>> /\ ~stop
  /\ mode' = [mode EXCEPT ![w] = "asleep"]
  /\ UNCHANGED <<poolVars, task, callVars, dtor>>

\* A condition variable may wake for no reason.
WakeSpuriously(w) ==
  /\ mode[w] = "asleep"
  /\ Wake(w)
  /\ UNCHANGED <<poolVars, task, callVars, dtor>>

\* The packaged_task stores what fn did in its future, an exception included.
RunTask(w, o) ==
  /\ mode[w] = "running"
  /\ outcome' = [outcome EXCEPT ![task[w][1]][task[w][2]] = o]
  /\ task' = [task EXCEPT ![w] = NoTask]
  /\ mode' = [mode EXCEPT ![w] = "awake"]
  /\ UNCHANGED <<poolVars, phase, waits, count, at, raised, dtor>>

\* Faulty variant: stop_ is looked at before the queue.
ExitEarly(w) ==
  /\ mode[w] = "awake"
  /\ stop
  /\ mode' = [mode EXCEPT ![w] = "gone"]
  /\ UNCHANGED <<poolVars, task, callVars, dtor>>

Exit(w) ==
  /\ mode[w] = "awake"
  /\ queue = <<>> /\ stop
  /\ mode' = [mode EXCEPT ![w] = "gone"]
  /\ UNCHANGED <<poolVars, task, callVars, dtor>>

Worker(w) ==
  \/ TakeTask(w) \/ Sleep(w) \/ Exit(w)
  \/ \E o \in Outcomes : RunTask(w, o)
-----------------------------------------------------------------------------
(* ~ThreadPool. Nobody is inside a call any more; tasks whose futures were  *)
(* dropped may still be queued or running.                                  *)

StopPool ==
  /\ dtor = "none"
  /\ \A c \in Callers : phase[c] \notin InCall
  /\ stop' = TRUE
  /\ dtor' = "notify"
  /\ UNCHANGED <<queue, workerVars, callVars>>

NotifyAll ==
  /\ dtor = "notify"
  /\ mode' = [w \in Workers |-> IF mode[w] = "asleep" THEN "awake" ELSE mode[w]]
  /\ dtor' = "join"
  /\ UNCHANGED <<poolVars, task, callVars>>

Join ==
  /\ dtor = "join"
  /\ \A w \in Workers : mode[w] = "gone"
  /\ dtor' = "done"
  /\ UNCHANGED <<poolVars, workerVars, callVars>>

Destroy == NotifyAll \/ Join
-----------------------------------------------------------------------------
Next ==
  \/ \E c \in Callers :
       \/ \E n \in 0 .. MaxCount, collects \in BOOLEAN : Begin(c, n, collects)
       \/ Caller(c)
  \/ \E w \in Workers : Worker(w) \/ WakeSpuriously(w)
  \/ StopPool \/ Destroy

Spec == Init /\ [][Next]_vars

\* Threads that can run do run. Nobody has to start a call or to destroy the
\* pool, and no one may count on a spurious wake-up.
Fairness ==
  /\ \A c \in Callers : WF_vars(Caller(c))
  /\ \A w \in Workers : WF_vars(Worker(w))
  /\ WF_vars(Destroy)

FairSpec == Spec /\ Fairness
-----------------------------------------------------------------------------
TypeOK ==
  /\ queue \in Seq(Tasks)
  /\ stop \in BOOLEAN
  /\ mode \in [Workers -> {"awake", "asleep", "running", "gone"}]
  /\ task \in [Workers -> Tasks \union {NoTask}]
  /\ phase \in [Callers -> InCall \union {"ready", "done", "threw"}]
  /\ waits \in [Callers -> BOOLEAN]
  /\ count \in [Callers -> 0 .. MaxCount]
  /\ at \in [Callers -> 0 .. MaxCount]
  /\ outcome \in [Callers -> [Indices -> Outcomes \union {"none"}]]
  /\ raised \in [Callers -> Indices \union {NoError}]
  /\ dtor \in {"none", "notify", "join", "done"}

Awake == {w \in Workers : mode[w] = "awake"}
Asleep == {w \in Workers : mode[w] = "asleep"}
Notifying == {c \in Callers : phase[c] = "notify"}

\* No wake-up is lost: while a worker sleeps, every queued task has an awake
\* worker about to look for it or a submitter about to wake one, although
\* submit() notifies outside the lock and any sleeper may be the one it wakes.
NoLostWakeup ==
  Asleep # {} /\ dtor = "none" =>
    Len(queue) <= Cardinality(Awake) + Cardinality(Notifying)

Queued(t) == \E k \in 1 .. Len(queue) : queue[k] = t
Running(t) == \E w \in Workers : mode[w] = "running" /\ task[w] = t

Outstanding(c) == \E i \in Indices : Queued(<<c, i>>) \/ Running(<<c, i>>)

\* "No task outlives this call": once parallel_for has returned, with or without
\* an error of fn, none of its tasks, which refer to the caller's fn, is queued
\* or running.
NoTaskOutlivesCall ==
  \A c \in Callers : waits[c] /\ phase[c] \in {"ready", "done"} => ~Outstanding(c)

\* The same when submit() itself is what failed, in the middle of the loop.
NoTaskOutlivesFailedCall ==
  \A c \in Callers : waits[c] /\ phase[c] = "threw" => ~Outstanding(c)

\* Graceful shutdown: every task the pool accepted has run when the destructor
\* is over, also those nobody waited for.
DrainedAtShutdown ==
  dtor = "done" =>
    /\ queue = <<>>
    /\ \A c \in Callers : phase[c] = "done" =>
         \A i \in 0 .. count[c] - 1 : outcome[c][i] # "none"

\* Several parallel_for calls over one pool are each the sequential loop, as long
\* as submit() works: a call it failed in never counts as returned.
Loop == INSTANCE ParallelFor
        WITH active <- [c \in Callers |-> waits[c] /\ phase[c] \in InCall \union {"threw"}],
             count <- [c \in Callers |-> IF waits[c] THEN count[c] ELSE 0],
             outcome <- [c \in Callers |->
                           IF waits[c] THEN outcome[c] ELSE [i \in Indices |-> "none"]],
             raised <- [c \in Callers |->
                          IF phase[c] = "done" THEN raised[c] ELSE NoError]
ImplementsLoop == Loop!Spec

\* Every call returns, and so does the destructor: nobody sleeps for ever.
EveryoneReturns ==
  /\ \A c \in Callers : (phase[c] \in InCall) ~> (phase[c] \notin InCall)
  /\ (dtor = "notify") ~> (dtor = "done")
=============================================================================
