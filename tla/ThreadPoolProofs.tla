-------------------------- MODULE ThreadPoolProofs --------------------------
(***************************************************************************)
(* For every finite set of workers and callers and every count: the pool   *)
(* keeps its types, no wake-up is lost, no task outlives the parallel_for  *)
(* it belongs to, and the destructor leaves nothing behind. None of these  *)
(* is inductive by itself; IInv is, in three layers.                       *)
(***************************************************************************)
EXTENDS ThreadPool, FiniteSetTheorems, TLAPS

USE ThreadPoolAssumption DEF ThreadPoolAssumption

\* Layer 1: what the program counters say about the loops, and the stages of
\* the shutdown.
Shape ==
  /\ \A c \in Callers :
       /\ phase[c] \in {"submit", "notify"} => at[c] < count[c]
       /\ phase[c] = "inline" => count[c] = 1 /\ at[c] = 0
       /\ phase[c] \in {"inline", "collect"} => waits[c]
  /\ \A w \in Workers : mode[w] = "running" => task[w] \in Tasks
  /\ stop <=> dtor # "none"
  /\ stop => \A c \in Callers : phase[c] \notin InCall
  /\ \A w \in Workers : mode[w] = "gone" => stop /\ queue = <<>>
  /\ dtor = "done" => \A w \in Workers : mode[w] = "gone"

Base == TypeOK /\ Shape

\* Layer 2: where a task is. Limit(c) tasks of caller c have been handed over.
Limit(c) ==
  IF phase[c] \in {"submit", "threw"} THEN at[c]
  ELSE IF phase[c] = "notify" THEN at[c] + 1
  ELSE IF phase[c] \in {"collect", "done"} THEN count[c]
  ELSE 0

\* A task in the pool was handed over, has no outcome yet and is there once.
InPoolOnce ==
  /\ \A c \in Callers, i \in Indices :
       Queued(<<c, i>>) \/ Running(<<c, i>>) => i < Limit(c) /\ outcome[c][i] = "none"
  /\ \A j, k \in 1 .. Len(queue) : queue[j] = queue[k] => j = k
  /\ \A v, w \in Workers :
       mode[v] = "running" /\ mode[w] = "running" /\ task[v] = task[w] => v = w
  /\ \A w \in Workers, k \in 1 .. Len(queue) :
       mode[w] = "running" => task[w] # queue[k]

\* A task that was handed over is in the pool until it has an outcome.
NoneForgotten ==
  \A c \in Callers, i \in Indices :
    i < Limit(c) => Queued(<<c, i>>) \/ Running(<<c, i>>) \/ outcome[c][i] # "none"

\* parallel_for has seen an outcome for each future it has collected.
Collected ==
  \A c \in Callers, i \in Indices :
    /\ phase[c] = "collect" /\ i < at[c] => outcome[c][i] # "none"
    /\ phase[c] = "done" /\ waits[c] /\ i < count[c] => outcome[c][i] # "none"

\* The tasks still to be submitted have no outcome.
Untouched ==
  \A c \in Callers, i \in Indices :
    phase[c] \in {"submit", "notify"} /\ i >= Limit(c) => outcome[c][i] = "none"

Pool == InPoolOnce /\ NoneForgotten /\ Collected /\ Untouched

IInv == Base /\ Pool /\ NoLostWakeup
-----------------------------------------------------------------------------
LEMMA BaseInit == Init => Base
<1> SUFFICES ASSUME Init PROVE Base
  OBVIOUS
<1>1. TypeOK
  <2>1. queue \in Seq(Tasks)
    BY DEF Init
  <2>2. outcome \in [Callers -> [Indices -> Outcomes \union {"none"}]]
    BY DEF Init
  <2>3. raised \in [Callers -> Indices \union {NoError}]
    BY DEF Init
  <2>4. /\ count \in [Callers -> 0 .. MaxCount]
        /\ at \in [Callers -> 0 .. MaxCount]
    BY DEF Init
  <2>5. /\ mode \in [Workers -> {"awake", "asleep", "running", "gone"}]
        /\ task \in [Workers -> Tasks \union {NoTask}]
    BY DEF Init
  <2>6. /\ phase \in [Callers -> InCall \union {"ready", "done", "threw"}]
        /\ waits \in [Callers -> BOOLEAN]
    BY DEF Init
  <2> QED BY <2>1, <2>2, <2>3, <2>4, <2>5, <2>6 DEF Init, TypeOK
<1>2. Shape
  BY DEF Init, Shape, InCall
<1> QED BY <1>1, <1>2 DEF Base

LEMMA BaseStep == Base /\ [Next]_vars => Base'
<1> SUFFICES ASSUME TypeOK, Shape, [Next]_vars PROVE TypeOK' /\ Shape'
  BY DEF Base
<1> USE DEF TypeOK, Shape, poolVars, workerVars, callVars, Tasks, Indices,
            Outcomes, InCall, NoError
<1>1. ASSUME NEW c \in Callers, NEW n \in 0 .. MaxCount, NEW collects \in BOOLEAN,
             Begin(c, n, collects)
      PROVE TypeOK' /\ Shape'
  <2>1. TypeOK'
    BY <1>1 DEF Begin
  <2>2. Shape'
    BY <1>1 DEF Begin
  <2> QED BY <2>1, <2>2
<1>2. ASSUME NEW c \in Callers, NEW o \in Outcomes, RunInline(c, o)
      PROVE TypeOK' /\ Shape'
  BY <1>2 DEF RunInline
<1>3. ASSUME NEW c \in Callers, Submit(c) PROVE TypeOK' /\ Shape'
  BY <1>3 DEF Submit
<1>4. ASSUME NEW c \in Callers, SubmitThrows(c) PROVE TypeOK' /\ Shape'
  BY <1>4 DEF SubmitThrows
<1>5. ASSUME NEW c \in Callers, Notify(c) PROVE TypeOK' /\ Shape'
  <2>1. mode' \in [Workers -> {"awake", "asleep", "running", "gone"}]
    BY <1>5 DEF Notify, Wake
  <2>2. /\ phase' \in [Callers -> InCall \union {"ready", "done", "threw"}]
        /\ at' \in [Callers -> 0 .. MaxCount]
    BY <1>5 DEF Notify, NextIndex
  <2>3. TypeOK'
    BY <1>5, <2>1, <2>2 DEF Notify
  <2>4. Shape'
    BY <1>5 DEF Notify, NextIndex, Wake
  <2> QED BY <2>3, <2>4
<1>6. ASSUME NEW c \in Callers, Collect(c) PROVE TypeOK' /\ Shape'
  BY <1>6 DEF Collect
<1>7. ASSUME NEW c \in Callers, Return(c) PROVE TypeOK' /\ Shape'
  BY <1>7 DEF Return
<1>8. ASSUME NEW w \in Workers, TakeTask(w) PROVE TypeOK' /\ Shape'
  <2>1. Head(queue) \in Tasks /\ Tail(queue) \in Seq(Tasks)
    BY <1>8 DEF TakeTask
  <2> QED BY <1>8, <2>1 DEF TakeTask
<1>9. ASSUME NEW w \in Workers, Sleep(w) PROVE TypeOK' /\ Shape'
  BY <1>9 DEF Sleep
<1>10. ASSUME NEW w \in Workers, WakeSpuriously(w) PROVE TypeOK' /\ Shape'
  BY <1>10 DEF WakeSpuriously, Wake
<1>11. ASSUME NEW w \in Workers, NEW o \in Outcomes, RunTask(w, o)
       PROVE TypeOK' /\ Shape'
  BY <1>11 DEF RunTask
<1>12. ASSUME NEW w \in Workers, Exit(w) PROVE TypeOK' /\ Shape'
  BY <1>12 DEF Exit
<1>13. CASE StopPool
  BY <1>13 DEF StopPool
<1>14. CASE NotifyAll
  BY <1>14 DEF NotifyAll
<1>15. CASE Join
  BY <1>15 DEF Join
<1>16. CASE UNCHANGED vars
  BY <1>16 DEF vars
<1> HIDE DEF TypeOK, Shape
<1> QED
  BY <1>1, <1>2, <1>3, <1>4, <1>5, <1>6, <1>7, <1>8, <1>9, <1>10, <1>11, <1>12,
     <1>13, <1>14, <1>15, <1>16
     DEF Next, Caller, Worker, Destroy
-----------------------------------------------------------------------------
LEMMA PoolInit == Init => Pool
BY DEF Init, Pool, InPoolOnce, NoneForgotten, Collected, Untouched, Limit, Queued,
   Running, Indices

\* A caller that starts a call, or has ended one with all outcomes, has nothing
\* in the pool.
LEMMA NothingLeft ==
  ASSUME Base, Pool, NEW c \in Callers, NEW i \in Indices,
         phase[c] = "ready" \/ (phase[c] = "done" /\ waits[c])
  PROVE  ~Queued(<<c, i>>) /\ ~Running(<<c, i>>)
<1>1. CASE phase[c] = "ready"
  <2>1. ~(i < Limit(c))
    BY <1>1 DEF Limit, Indices
  <2> QED BY <2>1 DEF Pool, InPoolOnce
<1>2. CASE phase[c] = "done" /\ waits[c]
  <2>1. i < Limit(c) => outcome[c][i] # "none"
    BY <1>2 DEF Limit, Pool, Collected
  <2> QED BY <2>1 DEF Pool, InPoolOnce
<1> QED BY <1>1, <1>2

\* The steps that leave the tasks where they are: only the caller's loop moves.
LEMMA PoolStepElsewhere ==
  ASSUME Base, Pool, Base',
         queue' = queue,
         \A t \in Tasks : Running(t)' <=> Running(t),
         \A v \in Workers : mode'[v] = "running" => mode[v] = "running" /\ task'[v] = task[v],
         \A c \in Callers : Limit(c)' = Limit(c),
         outcome' = outcome,
         Collected' /\ Untouched'
  PROVE  Pool'
<1>1. \A c \in Callers, i \in Indices : Queued(<<c, i>>)' <=> Queued(<<c, i>>)
  BY DEF Queued
<1>2. \A c \in Callers, i \in Indices : Running(<<c, i>>)' <=> Running(<<c, i>>)
  BY DEF Tasks
<1>3. NoneForgotten'
  BY <1>1, <1>2 DEF Pool, NoneForgotten
<1>4. InPoolOnce'
  <2>1. \A c \in Callers, i \in Indices :
          Queued(<<c, i>>)' \/ Running(<<c, i>>)'
            => i < Limit(c)' /\ outcome'[c][i] = "none"
    BY <1>1, <1>2 DEF Pool, InPoolOnce
  <2> QED BY <2>1 DEF Pool, InPoolOnce
<1> QED BY <1>3, <1>4 DEF Pool

LEMMA PoolStep == Base /\ Base' /\ Pool /\ [Next]_vars => Pool'
<1> SUFFICES ASSUME Base, Base', Pool, [Next]_vars PROVE Pool'
  OBVIOUS
<1> USE DEF poolVars, workerVars, callVars
<1>1. ASSUME NEW c \in Callers, NEW n \in 0 .. MaxCount, NEW collects \in BOOLEAN,
             Begin(c, n, collects)
      PROVE Pool'
  <2>1. \A i \in Indices : ~Queued(<<c, i>>) /\ ~Running(<<c, i>>)
    BY <1>1, NothingLeft DEF Begin
  <2>2. \A d \in Callers, i \in Indices :
          /\ Queued(<<d, i>>)' <=> Queued(<<d, i>>)
          /\ Running(<<d, i>>)' <=> Running(<<d, i>>)
    BY <1>1 DEF Begin, Queued, Running
  <2>3. Limit(c)' = 0
    BY <1>1 DEF Begin, Limit, Base, TypeOK
  <2>4. \A d \in Callers \ {c} : Limit(d)' = Limit(d) /\ outcome'[d] = outcome[d]
    BY <1>1 DEF Begin, Limit, Base, TypeOK
  <2>5. \A d \in Callers, i \in Indices :
          Queued(<<d, i>>)' \/ Running(<<d, i>>)'
            => i < Limit(d)' /\ outcome'[d][i] = "none"
    BY <2>1, <2>2, <2>4 DEF Pool, InPoolOnce
  <2>6. InPoolOnce'
    BY <1>1, <2>5 DEF Begin, Pool, InPoolOnce
  <2>7. NoneForgotten'
    BY <2>2, <2>3, <2>4 DEF Pool, NoneForgotten, Indices
  <2>8. Collected'
    BY <1>1 DEF Begin, Pool, Collected, Base, TypeOK, Indices
  <2>9. Untouched'
    BY <1>1 DEF Begin, Pool, Untouched, Limit, Base, TypeOK, Indices
  <2> QED BY <2>6, <2>7, <2>8, <2>9 DEF Pool
<1>2. ASSUME NEW c \in Callers, NEW o \in Outcomes, RunInline(c, o) PROVE Pool'
  <2>1. \A i \in Indices : ~Queued(<<c, i>>) /\ ~Running(<<c, i>>)
    BY <1>2 DEF RunInline, Pool, InPoolOnce, Limit, Indices
  <2>2. \A d \in Callers, i \in Indices :
          /\ Queued(<<d, i>>)' <=> Queued(<<d, i>>)
          /\ Running(<<d, i>>)' <=> Running(<<d, i>>)
    BY <1>2 DEF RunInline, Queued, Running
  <2>3. Limit(c)' = 1 /\ \A i \in Indices : i < 1 => outcome'[c][i] # "none"
    BY <1>2 DEF RunInline, Limit, Base, TypeOK, Shape, Indices, Outcomes
  <2>4. \A d \in Callers \ {c} : Limit(d)' = Limit(d) /\ outcome'[d] = outcome[d]
    BY <1>2 DEF RunInline, Limit, Base, TypeOK
  <2>5. \A d \in Callers, i \in Indices :
          Queued(<<d, i>>)' \/ Running(<<d, i>>)'
            => i < Limit(d)' /\ outcome'[d][i] = "none"
    BY <2>1, <2>2, <2>4 DEF Pool, InPoolOnce
  <2>6. InPoolOnce'
    BY <1>2, <2>5 DEF RunInline, Pool, InPoolOnce
  <2>7. NoneForgotten'
    BY <2>2, <2>3, <2>4 DEF Pool, NoneForgotten
  <2>8. Collected'
    BY <1>2, <2>3 DEF RunInline, Pool, Collected, Base, TypeOK, Shape, Indices
  <2>9. Untouched'
    BY <1>2 DEF RunInline, Pool, Untouched, Limit, Base, TypeOK, Indices
  <2> QED BY <2>6, <2>7, <2>8, <2>9 DEF Pool
<1>3. ASSUME NEW c \in Callers, Submit(c) PROVE Pool'
  <2> DEFINE t == <<c, at[c]>>
  <2>1. at[c] \in Indices /\ t \in Tasks
    BY <1>3 DEF Submit, Base, TypeOK, Shape, Indices, Tasks
  <2>2. ~Queued(t) /\ ~Running(t)
    BY <1>3, <2>1 DEF Submit, Pool, InPoolOnce, Limit, Indices
  <2>2a. /\ Len(queue) \in Nat /\ Len(queue') = Len(queue) + 1
         /\ queue'[Len(queue) + 1] = t
         /\ \A k \in 1 .. Len(queue) : queue'[k] = queue[k]
         /\ mode' = mode /\ task' = task
    BY <1>3, <2>1 DEF Submit, Base, TypeOK
  <2>2b. \A k \in 1 .. Len(queue') : k \in 1 .. Len(queue) \/ k = Len(queue) + 1
    BY <2>2a
  <2>2c. Len(queue) + 1 \in 1 .. Len(queue') /\ 1 .. Len(queue) \subseteq 1 .. Len(queue')
    BY <2>2a
  <2> HIDE DEF t
  <2>3. \A d \in Callers, i \in Indices :
          /\ Queued(<<d, i>>)' <=> (Queued(<<d, i>>) \/ <<d, i>> = t)
          /\ Running(<<d, i>>)' <=> Running(<<d, i>>)
    BY <2>2a, <2>2b, <2>2c DEF Queued, Running
  <2> USE DEF t
  <2>4. Limit(c)' = at[c] + 1 /\ Limit(c) = at[c]
    BY <1>3 DEF Submit, Limit, Base, TypeOK
  <2>5. \A d \in Callers \ {c} : Limit(d)' = Limit(d)
    BY <1>3 DEF Submit, Limit, Base, TypeOK
  <2>6. outcome' = outcome
    BY <1>3 DEF Submit
  <2>7. outcome[c][at[c]] = "none"
    BY <1>3, <2>1, <2>4 DEF Submit, Pool, Untouched, Indices
  <2>8. \A d \in Callers, i \in Indices :
          Queued(<<d, i>>)' \/ Running(<<d, i>>)'
            => i < Limit(d)' /\ outcome'[d][i] = "none"
    BY <2>1, <2>3, <2>4, <2>5, <2>6, <2>7 DEF Pool, InPoolOnce, Indices
  <2>9. \A k \in 1 .. Len(queue) : queue[k] # t
    BY <2>2 DEF Queued
  <2>10. \A w \in Workers : mode[w] = "running" => task[w] # t
    BY <2>2 DEF Running
  <2>11. InPoolOnce'
    <3> HIDE DEF t
    <3>1. \A j, k \in 1 .. Len(queue') : queue'[j] = queue'[k] => j = k
      BY <2>9, <2>2a, <2>2b DEF Pool, InPoolOnce
    <3>2. \A w \in Workers, k \in 1 .. Len(queue') :
            mode'[w] = "running" => task'[w] # queue'[k]
      BY <2>10, <2>2a, <2>2b DEF Pool, InPoolOnce
    <3> QED BY <2>8, <2>2a, <3>1, <3>2 DEF Pool, InPoolOnce
  <2>12. NoneForgotten'
    BY <2>1, <2>3, <2>4, <2>5, <2>6 DEF Pool, NoneForgotten, Indices
  <2>13. Collected' /\ Untouched'
    BY <1>3, <2>4, <2>5 DEF Submit, Pool, Collected, Untouched, Base, TypeOK, Indices
  <2> QED BY <2>11, <2>12, <2>13 DEF Pool
<1>4. ASSUME NEW c \in Callers, SubmitThrows(c) PROVE Pool'
  <2>1. \A d \in Callers : Limit(d)' = Limit(d)
    BY <1>4 DEF SubmitThrows, Limit, Base, TypeOK
  <2>2. Collected' /\ Untouched'
    BY <1>4, <2>1 DEF SubmitThrows, Pool, Collected, Untouched, Base, TypeOK
  <2>3. /\ queue' = queue /\ mode' = mode /\ task' = task /\ outcome' = outcome
        /\ \A t \in Tasks : Running(t)' <=> Running(t)
    BY <1>4 DEF SubmitThrows, Running
  <2> QED BY <2>1, <2>2, <2>3, PoolStepElsewhere
<1>5. ASSUME NEW c \in Callers, Notify(c) PROVE Pool'
  <2>1. \A d \in Callers : Limit(d)' = Limit(d)
    BY <1>5 DEF Notify, NextIndex, Limit, Base, TypeOK, Shape
  <2>2. Collected' /\ Untouched'
    BY <1>5, <2>1 DEF Notify, NextIndex, Pool, Collected, Untouched, Base, TypeOK, Shape, Indices
  <2>3. queue' = queue /\ task' = task /\ outcome' = outcome
    BY <1>5 DEF Notify
  <2>4. \A v \in Workers : mode'[v] = "running" <=> mode[v] = "running"
    BY <1>5 DEF Notify, Wake, Base, TypeOK
  <2>5. \A t \in Tasks : Running(t)' <=> Running(t)
    BY <2>3, <2>4 DEF Running
  <2> QED BY <2>1, <2>2, <2>3, <2>4, <2>5, PoolStepElsewhere
<1>6. ASSUME NEW c \in Callers, Collect(c) PROVE Pool'
  <2>1. \A d \in Callers : Limit(d)' = Limit(d)
    BY <1>6 DEF Collect, Limit, Base, TypeOK
  <2>2. Collected' /\ Untouched'
    BY <1>6, <2>1 DEF Collect, Pool, Collected, Untouched, Base, TypeOK, Indices
  <2>3. /\ queue' = queue /\ mode' = mode /\ task' = task /\ outcome' = outcome
        /\ \A t \in Tasks : Running(t)' <=> Running(t)
    BY <1>6 DEF Collect, Running
  <2> QED BY <2>1, <2>2, <2>3, PoolStepElsewhere
<1>7. ASSUME NEW c \in Callers, Return(c) PROVE Pool'
  <2>1. \A d \in Callers : Limit(d)' = Limit(d)
    BY <1>7 DEF Return, Limit, Base, TypeOK
  <2>2. Collected' /\ Untouched'
    BY <1>7, <2>1 DEF Return, Pool, Collected, Untouched, Base, TypeOK, Indices
  <2>3. /\ queue' = queue /\ mode' = mode /\ task' = task /\ outcome' = outcome
        /\ \A t \in Tasks : Running(t)' <=> Running(t)
    BY <1>7 DEF Return, Running
  <2> QED BY <2>1, <2>2, <2>3, PoolStepElsewhere
<1>8. ASSUME NEW w \in Workers, TakeTask(w) PROVE Pool'
  <2>1. /\ queue \in Seq(Tasks) /\ Len(queue) >= 1
        /\ Head(queue) = queue[1] /\ Len(queue') = Len(queue) - 1
        /\ \A k \in 1 .. Len(queue') : queue'[k] = queue[k + 1]
    BY <1>8 DEF TakeTask, Base, TypeOK
  <2>2. /\ mode' = [mode EXCEPT ![w] = "running"] /\ task' = [task EXCEPT ![w] = queue[1]]
        /\ mode[w] = "awake" /\ outcome' = outcome
        /\ mode \in [Workers -> {"awake", "asleep", "running", "gone"}]
        /\ task \in [Workers -> Tasks \union {NoTask}]
    BY <1>8, <2>1 DEF TakeTask, Base, TypeOK
  <2>3. \A t \in Tasks : Queued(t) <=> (Queued(t)' \/ t = queue[1])
    <3> TAKE t \in Tasks
    <3>1. ASSUME NEW k \in 1 .. Len(queue), queue[k] = t, k # 1 PROVE Queued(t)'
      <4>1. k - 1 \in 1 .. Len(queue') /\ queue'[k - 1] = t
        BY <2>1, <3>1
      <4> QED BY <4>1 DEF Queued
    <3>2. ASSUME NEW k \in 1 .. Len(queue'), queue'[k] = t PROVE Queued(t)
      <4>1. k + 1 \in 1 .. Len(queue) /\ queue[k + 1] = t
        BY <2>1, <3>2
      <4> QED BY <4>1 DEF Queued
    <3>3. 1 \in 1 .. Len(queue)
      BY <2>1
    <3> QED BY <3>1, <3>2, <3>3 DEF Queued
  <2>4. \A t \in Tasks : Running(t)' <=> (Running(t) \/ t = queue[1])
    BY <2>2 DEF Running
  <2>5. \A d \in Callers : Limit(d)' = Limit(d)
    BY <1>8 DEF TakeTask, Limit
  <2>6. \A d \in Callers, i \in Indices : <<d, i>> \in Tasks
    BY DEF Tasks
  <2>7. \A d \in Callers, i \in Indices :
          Queued(<<d, i>>)' \/ Running(<<d, i>>)' <=> Queued(<<d, i>>) \/ Running(<<d, i>>)
    BY <2>3, <2>4, <2>6
  <2>8. \A d \in Callers, i \in Indices :
          Queued(<<d, i>>)' \/ Running(<<d, i>>)'
            => i < Limit(d)' /\ outcome'[d][i] = "none"
    BY <2>2, <2>5, <2>7 DEF Pool, InPoolOnce
  <2>9. \A j, k \in 1 .. Len(queue') : queue'[j] = queue'[k] => j = k
    BY <2>1 DEF Pool, InPoolOnce
  <2>10. \A v, x \in Workers :
           mode'[v] = "running" /\ mode'[x] = "running" /\ task'[v] = task'[x] => v = x
    BY <2>1, <2>2 DEF Pool, InPoolOnce
  <2>11. \A v \in Workers, k \in 1 .. Len(queue') :
           mode'[v] = "running" => task'[v] # queue'[k]
    <3> SUFFICES ASSUME NEW v \in Workers, NEW k \in 1 .. Len(queue'),
                        mode'[v] = "running"
                 PROVE  task'[v] # queue'[k]
      OBVIOUS
    <3>1. k + 1 \in 1 .. Len(queue) /\ queue'[k] = queue[k + 1] /\ 1 \in 1 .. Len(queue)
      BY <2>1
    <3>2. CASE v = w
      BY <2>2, <3>1, <3>2 DEF Pool, InPoolOnce
    <3>3. CASE v # w
      BY <2>2, <3>1, <3>3 DEF Pool, InPoolOnce
    <3> QED BY <3>2, <3>3
  <2>12. InPoolOnce'
    BY <2>8, <2>9, <2>10, <2>11 DEF InPoolOnce
  <2>13. NoneForgotten'
    BY <2>2, <2>5, <2>7 DEF Pool, NoneForgotten
  <2>14. Collected' /\ Untouched'
    BY <1>8, <2>5 DEF TakeTask, Pool, Collected, Untouched
  <2> QED BY <2>12, <2>13, <2>14 DEF Pool
<1>9. ASSUME NEW w \in Workers, RunTask(w, "ok") \/ RunTask(w, "failed") PROVE Pool'
  <2>1. PICK o \in Outcomes : RunTask(w, o)
    BY <1>9 DEF Outcomes
  <2>2. PICK e \in Callers, j \in Indices : task[w] = <<e, j>>
    BY <2>1 DEF RunTask, Base, Shape, Tasks
  <2>3. /\ mode[w] = "running" /\ mode' = [mode EXCEPT ![w] = "awake"]
        /\ task' = [task EXCEPT ![w] = NoTask] /\ queue' = queue
        /\ mode \in [Workers -> {"awake", "asleep", "running", "gone"}]
        /\ task \in [Workers -> Tasks \union {NoTask}]
    BY <2>1 DEF RunTask, Base, TypeOK
  <2>4. /\ outcome'[e][j] # "none"
        /\ \A d \in Callers, i \in Indices :
             <<d, i>> # <<e, j>> => outcome'[d][i] = outcome[d][i]
        /\ \A d \in Callers, i \in Indices :
             outcome[d][i] # "none" => outcome'[d][i] # "none"
    BY <2>1, <2>2 DEF RunTask, Base, TypeOK, Outcomes
  <2>5. \A d \in Callers : Limit(d)' = Limit(d)
    BY <2>1 DEF RunTask, Limit
  <2>6. \A d \in Callers, i \in Indices : Queued(<<d, i>>)' <=> Queued(<<d, i>>)
    BY <2>3 DEF Queued
  <2>7. ~Queued(<<e, j>>) /\ Running(<<e, j>>)
    BY <2>2, <2>3 DEF Queued, Running, Pool, InPoolOnce
  <2>8. \A d \in Callers, i \in Indices :
          Running(<<d, i>>)' <=> Running(<<d, i>>) /\ <<d, i>> # <<e, j>>
    BY <2>2, <2>3 DEF Running, Pool, InPoolOnce
  <2>9. \A d \in Callers, i \in Indices :
          Queued(<<d, i>>)' \/ Running(<<d, i>>)'
            => i < Limit(d)' /\ outcome'[d][i] = "none"
    BY <2>4, <2>5, <2>6, <2>7, <2>8 DEF Pool, InPoolOnce
  <2>10. InPoolOnce'
    BY <2>3, <2>9 DEF Pool, InPoolOnce
  <2>11. NoneForgotten'
    BY <2>4, <2>5, <2>6, <2>8 DEF Pool, NoneForgotten
  <2>12. Collected'
    BY <2>1, <2>4 DEF RunTask, Pool, Collected
  <2>13. e \in Callers /\ j < Limit(e)
    BY <2>7 DEF Pool, InPoolOnce
  <2>14. Untouched'
    <3> SUFFICES ASSUME NEW d \in Callers, NEW i \in Indices,
                        phase[d] \in {"submit", "notify"}, i >= Limit(d)
                 PROVE  outcome'[d][i] = "none"
      BY <2>1, <2>5 DEF RunTask, Untouched
    <3>1. outcome[d][i] = "none"
      BY DEF Pool, Untouched
    <3>2. Limit(d) \in Int
      BY DEF Limit, Base, TypeOK
    <3>3. <<d, i>> # <<e, j>>
      BY <2>13, <3>2 DEF Indices
    <3> QED BY <2>4, <3>1, <3>3
  <2> QED BY <2>10, <2>11, <2>12, <2>14 DEF Pool
<1>10. ASSUME NEW w \in Workers, Sleep(w) \/ WakeSpuriously(w) \/ Exit(w) PROVE Pool'
  <2>1. /\ queue' = queue /\ task' = task /\ outcome' = outcome
        /\ phase' = phase /\ waits' = waits /\ count' = count /\ at' = at
        /\ \A v \in Workers : mode'[v] = "running" <=> mode[v] = "running"
    BY <1>10 DEF Sleep, WakeSpuriously, Exit, Wake, Base, TypeOK
  <2>2. \A t \in Tasks : Running(t)' <=> Running(t)
    BY <2>1 DEF Running
  <2>3. \A d \in Callers : Limit(d)' = Limit(d)
    BY <2>1 DEF Limit
  <2>4. Collected' /\ Untouched'
    BY <2>1, <2>3 DEF Pool, Collected, Untouched
  <2> QED BY <2>1, <2>2, <2>3, <2>4, PoolStepElsewhere
<1>11. ASSUME StopPool \/ NotifyAll \/ Join \/ UNCHANGED vars PROVE Pool'
  <2>1. /\ queue' = queue /\ task' = task /\ outcome' = outcome
        /\ phase' = phase /\ waits' = waits /\ count' = count /\ at' = at
        /\ \A v \in Workers : mode'[v] = "running" <=> mode[v] = "running"
    BY <1>11 DEF StopPool, NotifyAll, Join, vars, Base, TypeOK
  <2>2. \A t \in Tasks : Running(t)' <=> Running(t)
    BY <2>1 DEF Running
  <2>3. \A d \in Callers : Limit(d)' = Limit(d)
    BY <2>1 DEF Limit
  <2>4. Collected' /\ Untouched'
    BY <2>1, <2>3 DEF Pool, Collected, Untouched
  <2> QED BY <2>1, <2>2, <2>3, <2>4, PoolStepElsewhere
<1> QED
  BY <1>1, <1>2, <1>3, <1>4, <1>5, <1>6, <1>7, <1>8, <1>9, <1>10, <1>11
     DEF Next, Caller, Worker, Destroy, Outcomes
-----------------------------------------------------------------------------
(* Layer 3: counting.                                                       *)

LEMMA Countable ==
  /\ IsFiniteSet(Awake) /\ IsFiniteSet(Notifying)
  /\ Cardinality(Awake) \in Nat /\ Cardinality(Notifying) \in Nat
  /\ IsFiniteSet(Awake)' /\ IsFiniteSet(Notifying)'
  /\ Cardinality(Awake)' \in Nat /\ Cardinality(Notifying)' \in Nat
<1>1. /\ Awake \subseteq Workers /\ Awake' \subseteq Workers
      /\ Notifying \subseteq Callers /\ Notifying' \subseteq Callers
  BY DEF Awake, Notifying
<1> QED BY <1>1, FS_Subset, FS_CardinalityType

\* One worker more or less is awake.
LEMMA OneMoreAwake ==
  ASSUME NEW w \in Workers, w \notin Awake, Awake' = Awake \union {w}
  PROVE  Cardinality(Awake)' = Cardinality(Awake) + 1
BY Countable, FS_AddElement

LEMMA OneLessAwake ==
  ASSUME NEW w \in Workers, w \in Awake, Awake' = Awake \ {w}
  PROVE  Cardinality(Awake)' = Cardinality(Awake) - 1
BY Countable, FS_RemoveElement

LEMMA WakeupStep == Base /\ Base' /\ NoLostWakeup /\ [Next]_vars => NoLostWakeup'
<1> SUFFICES ASSUME Base, Base', NoLostWakeup, [Next]_vars,
                    Asleep' # {}, dtor' = "none"
             PROVE  Len(queue') <= Cardinality(Awake)' + Cardinality(Notifying)'
  BY DEF NoLostWakeup
<1> USE DEF poolVars, workerVars, callVars
<1>1. Len(queue) \in Nat /\ Len(queue') \in Nat
  BY DEF Base, TypeOK
<1>2. dtor = "none" => ~stop
  BY DEF Base, Shape
<1>3. ASSUME NEW c \in Callers, \/ \E n \in 0 .. MaxCount, collects \in BOOLEAN :
                                       Begin(c, n, collects)
                                \/ \E o \in Outcomes : RunInline(c, o)
                                \/ SubmitThrows(c) \/ Collect(c) \/ Return(c)
      PROVE Len(queue') <= Cardinality(Awake)' + Cardinality(Notifying)'
  <2>1. queue' = queue /\ mode' = mode /\ dtor' = dtor
    BY <1>3 DEF Begin, RunInline, SubmitThrows, Collect, Return
  <2>2. Notifying' = Notifying
    BY <1>3 DEF Begin, RunInline, SubmitThrows, Collect, Return, Notifying, Base, TypeOK
  <2>3. Awake' = Awake /\ Asleep' = Asleep
    BY <2>1 DEF Awake, Asleep
  <2> QED BY <2>1, <2>2, <2>3 DEF NoLostWakeup
<1>4. ASSUME NEW c \in Callers, Submit(c)
      PROVE Len(queue') <= Cardinality(Awake)' + Cardinality(Notifying)'
  <2>1. Len(queue') = Len(queue) + 1 /\ mode' = mode /\ dtor' = dtor
    BY <1>4 DEF Submit, Base, TypeOK
  <2>2. Notifying' = Notifying \union {c} /\ c \notin Notifying
    BY <1>4 DEF Submit, Notifying, Base, TypeOK
  <2>3. Cardinality(Notifying)' = Cardinality(Notifying) + 1
    BY <2>2, Countable, FS_AddElement
  <2>4. Awake' = Awake /\ Asleep' = Asleep
    BY <2>1 DEF Awake, Asleep
  <2> QED BY <1>1, <2>1, <2>3, <2>4, Countable DEF NoLostWakeup
<1>5. ASSUME NEW c \in Callers, Notify(c)
      PROVE Len(queue') <= Cardinality(Awake)' + Cardinality(Notifying)'
  <2>1. queue' = queue /\ dtor' = dtor
    BY <1>5 DEF Notify
  <2>2. Notifying' = Notifying \ {c} /\ c \in Notifying
    BY <1>5 DEF Notify, NextIndex, Notifying, Base, TypeOK
  <2>3. Cardinality(Notifying)' = Cardinality(Notifying) - 1
    BY <2>2, Countable, FS_RemoveElement
  <2>4. PICK w \in Workers : mode[w] = "asleep" /\ Wake(w)
    BY <1>5 DEF Notify, Asleep
  <2>5. Awake' = Awake \union {w} /\ w \notin Awake /\ Asleep # {}
    BY <2>4 DEF Wake, Awake, Asleep, Base, TypeOK
  <2>6. Cardinality(Awake)' = Cardinality(Awake) + 1
    BY <2>5, OneMoreAwake
  <2> QED BY <1>1, <2>1, <2>3, <2>5, <2>6, Countable DEF NoLostWakeup
<1>6. ASSUME NEW w \in Workers, TakeTask(w)
      PROVE Len(queue') <= Cardinality(Awake)' + Cardinality(Notifying)'
  <2>1. Len(queue') = Len(queue) - 1 /\ dtor' = dtor
    BY <1>6 DEF TakeTask, Base, TypeOK
  <2>2. Notifying' = Notifying
    BY <1>6 DEF TakeTask, Notifying
  <2>3. Awake' = Awake \ {w} /\ w \in Awake /\ Asleep' = Asleep
    BY <1>6 DEF TakeTask, Awake, Asleep, Base, TypeOK
  <2>4. Cardinality(Awake)' = Cardinality(Awake) - 1
    BY <2>3, OneLessAwake
  <2> QED BY <1>1, <2>1, <2>2, <2>3, <2>4, Countable DEF NoLostWakeup
<1>7. ASSUME NEW w \in Workers, Sleep(w)
      PROVE Len(queue') <= Cardinality(Awake)' + Cardinality(Notifying)'
  <2>1. Len(queue') = 0
    BY <1>7 DEF Sleep
  <2> QED BY <2>1, Countable
<1>8. ASSUME NEW w \in Workers, WakeSpuriously(w) \/ \E o \in Outcomes : RunTask(w, o)
      PROVE Len(queue') <= Cardinality(Awake)' + Cardinality(Notifying)'
  <2>1. queue' = queue /\ dtor' = dtor /\ phase' = phase
    BY <1>8 DEF WakeSpuriously, RunTask
  <2>2. Awake' = Awake \union {w} /\ w \notin Awake /\ Asleep' \subseteq Asleep
    <3>1. mode' = [mode EXCEPT ![w] = "awake"] /\ mode[w] # "awake"
      BY <1>8 DEF WakeSpuriously, RunTask, Wake
    <3>2. mode \in [Workers -> {"awake", "asleep", "running", "gone"}]
      BY DEF Base, TypeOK
    <3> QED BY <3>1, <3>2 DEF Awake, Asleep
  <2>3. Cardinality(Awake)' = Cardinality(Awake) + 1
    BY <2>2, OneMoreAwake
  <2>4. Notifying' = Notifying
    BY <2>1 DEF Notifying
  <2> QED BY <1>1, <2>1, <2>2, <2>3, <2>4, Countable DEF NoLostWakeup
<1>9. ASSUME NEW w \in Workers, Exit(w) PROVE FALSE
  BY <1>2, <1>9 DEF Exit
<1>10. CASE StopPool \/ NotifyAll \/ Join
  BY <1>10 DEF StopPool, NotifyAll, Join
<1>11. CASE UNCHANGED vars
  <2>1. queue' = queue /\ dtor' = dtor /\ Awake' = Awake /\ Asleep' = Asleep
        /\ Notifying' = Notifying
    BY <1>11 DEF vars, Awake, Asleep, Notifying
  <2> QED BY <2>1 DEF NoLostWakeup
<1> QED
  BY <1>3, <1>4, <1>5, <1>6, <1>7, <1>8, <1>9, <1>10, <1>11
     DEF Next, Caller, Worker, Destroy
-----------------------------------------------------------------------------
\* IInv is an invariant of the pool, whatever the threads do and in any order.
THEOREM Invariance == Spec => []IInv
<1>1. Init => IInv
  <2>1. Init => NoLostWakeup
    BY DEF Init, NoLostWakeup, Asleep
  <2> QED BY <2>1, BaseInit, PoolInit DEF IInv
<1>2. IInv /\ [Next]_vars => IInv'
  BY BaseStep, PoolStep, WakeupStep DEF IInv
<1> QED BY <1>1, <1>2, PTL DEF Spec

\* The state keeps its types.
THEOREM TypeCorrect == Spec => []TypeOK
<1>1. IInv => TypeOK
  BY DEF IInv, Base
<1> QED BY <1>1, Invariance, PTL

\* No wake-up is lost, with any number of workers and of submitters that notify
\* outside the lock.
THEOREM WakeupsKept == Spec => []NoLostWakeup
<1>1. IInv => NoLostWakeup
  BY DEF IInv
<1> QED BY <1>1, Invariance, PTL

\* The references of a parallel_for's tasks to the caller's frame never dangle.
THEOREM NoDanglingTask == Spec => []NoTaskOutlivesCall
<1>1. IInv => NoTaskOutlivesCall
  <2> SUFFICES ASSUME IInv, NEW c \in Callers, waits[c], phase[c] \in {"ready", "done"},
                      NEW i \in Indices
               PROVE  ~Queued(<<c, i>>) /\ ~Running(<<c, i>>)
    BY DEF NoTaskOutlivesCall, Outstanding
  <2> QED BY NothingLeft DEF IInv
<1> QED BY <1>1, Invariance, PTL

\* The destructor leaves no accepted task behind.
THEOREM GracefulShutdown == Spec => []DrainedAtShutdown
<1>1. IInv => DrainedAtShutdown
  <2> SUFFICES ASSUME IInv, dtor = "done" PROVE DrainedAtShutdown
    BY DEF DrainedAtShutdown
  <2>1. \A w \in Workers : mode[w] = "gone"
    BY DEF IInv, Base, Shape
  <2>2. queue = <<>>
    BY <2>1 DEF IInv, Base, Shape
  <2>3. \A c \in Callers, i \in Indices : ~Queued(<<c, i>>) /\ ~Running(<<c, i>>)
    BY <2>1, <2>2 DEF Queued, Running
  <2>4. ASSUME NEW c \in Callers, phase[c] = "done", NEW i \in 0 .. count[c] - 1
        PROVE  outcome[c][i] # "none"
    <3>1. i \in Indices /\ i < Limit(c)
      BY <2>4 DEF IInv, Base, TypeOK, Indices, Limit
    <3> QED BY <2>3, <3>1 DEF IInv, Pool, NoneForgotten
  <2> QED BY <2>2, <2>4 DEF DrainedAtShutdown
<1> QED BY <1>1, Invariance, PTL
-----------------------------------------------------------------------------
(* parallel_for is the sequential loop: ThreadPool implements ParallelFor.  *)

\* Among the first n outcomes of caller c, raised[c] is the first failure.
FirstOf(c, n) ==
  \/ raised[c] = NoError /\ \A i \in Indices : i < n => outcome[c][i] # "failed"
  \/ /\ raised[c] \in Indices /\ raised[c] < n /\ outcome[c][raised[c]] = "failed"
     /\ \A i \in Indices : i < raised[c] => outcome[c][i] # "failed"

\* What the refinement needs beyond IInv: where a call's outcomes, its error and its
\* count stand at each point of the call.
LoopInv ==
  \A c \in Callers :
    /\ phase[c] = "ready" =>
         waits[c] /\ count[c] = 0 /\ \A i \in Indices : outcome[c][i] = "none"
    /\ phase[c] = "inline" => outcome[c][0] = "none"
    /\ phase[c] \in {"collect", "threw"} => at[c] <= count[c]
    /\ phase[c] \notin {"collect", "done"} \/ ~ waits[c] => raised[c] = NoError
    /\ phase[c] = "collect" => FirstOf(c, at[c])

LEMMA LoopInit == Init => LoopInv
BY DEF Init, LoopInv, Indices, NoError

\* Steps that change nothing of the calls.
LEMMA LoopSame ==
  ASSUME LoopInv, UNCHANGED callVars
  PROVE  LoopInv'
<1>1. UNCHANGED <<phase, waits, count, at, outcome, raised>>
  BY DEF callVars
<1> QED BY <1>1 DEF LoopInv, FirstOf

\* Of a caller whose part of the state stays as it is, nothing is to be shown.
LEMMA LoopOthers ==
  ASSUME LoopInv, NEW c \in Callers,
         \A d \in Callers \ {c} :
           /\ phase'[d] = phase[d] /\ waits'[d] = waits[d] /\ count'[d] = count[d]
           /\ at'[d] = at[d] /\ outcome'[d] = outcome[d] /\ raised'[d] = raised[d],
         phase'[c] = "ready" =>
           waits'[c] /\ count'[c] = 0 /\ \A i \in Indices : outcome'[c][i] = "none",
         phase'[c] = "inline" => outcome'[c][0] = "none",
         phase'[c] \in {"collect", "threw"} => at'[c] <= count'[c],
         phase'[c] \notin {"collect", "done"} \/ ~ waits'[c] => raised'[c] = NoError,
         phase'[c] = "collect" => FirstOf(c, at[c])'
  PROVE  LoopInv'
<1> SUFFICES ASSUME NEW d \in Callers
             PROVE  /\ phase'[d] = "ready" =>
                         waits'[d] /\ count'[d] = 0 /\ \A i \in Indices : outcome'[d][i] = "none"
                    /\ phase'[d] = "inline" => outcome'[d][0] = "none"
                    /\ phase'[d] \in {"collect", "threw"} => at'[d] <= count'[d]
                    /\ phase'[d] \notin {"collect", "done"} \/ ~ waits'[d] => raised'[d] = NoError
                    /\ phase'[d] = "collect" => FirstOf(d, at[d])'
  BY DEF LoopInv
<1>1. CASE d = c
  BY <1>1
<1>2. CASE d # c
  <2>1. /\ phase'[d] = phase[d] /\ waits'[d] = waits[d] /\ count'[d] = count[d]
        /\ at'[d] = at[d] /\ outcome'[d] = outcome[d] /\ raised'[d] = raised[d]
    BY <1>2
  <2> QED BY <2>1 DEF LoopInv, FirstOf
<1> QED BY <1>1, <1>2

LEMMA LoopStep == IInv /\ IInv' /\ LoopInv /\ [Next]_vars => LoopInv'
<1> SUFFICES ASSUME IInv, IInv', LoopInv, [Next]_vars PROVE LoopInv'
  OBVIOUS
<1>0. TypeOK /\ Shape /\ TypeOK' /\ Shape'
  BY DEF IInv, Base
<1>1. ASSUME NEW c \in Callers, NEW n \in 0 .. MaxCount, NEW collects \in BOOLEAN,
             Begin(c, n, collects)
      PROVE  LoopInv'
  <2>1. /\ phase'[c] \in {"collect", "inline", "submit"}
        /\ waits'[c] = collects /\ count'[c] = n /\ at'[c] = 0
        /\ outcome'[c] = [i \in Indices |-> "none"] /\ raised'[c] = NoError
    BY <1>0, <1>1 DEF Begin, TypeOK
  <2>2. \A d \in Callers \ {c} :
           /\ phase'[d] = phase[d] /\ waits'[d] = waits[d] /\ count'[d] = count[d]
           /\ at'[d] = at[d] /\ outcome'[d] = outcome[d] /\ raised'[d] = raised[d]
    BY <1>0, <1>1 DEF Begin, TypeOK
  <2>3. phase'[c] = "inline" => outcome'[c][0] = "none"
    <3>1. phase'[c] = "inline" => n = 1
      BY <1>0, <1>1 DEF Begin, TypeOK
    <3> QED BY <2>1, <3>1 DEF Indices
  <2>4. FirstOf(c, at[c])'
    BY <2>1 DEF FirstOf, Indices
  <2>5. at'[c] <= count'[c]
    BY <2>1
  <2> QED BY <2>1, <2>2, <2>3, <2>4, <2>5, LoopOthers
<1>2. ASSUME NEW c \in Callers, NEW o \in Outcomes, RunInline(c, o) PROVE LoopInv'
  <2>1. /\ phase'[c] = "collect" /\ UNCHANGED <<waits, count, at, raised>>
        /\ waits[c] /\ at[c] = 0 /\ count[c] = 1 /\ raised[c] = NoError
    BY <1>0, <1>2 DEF RunInline, TypeOK, Shape, LoopInv
  <2>2. \A d \in Callers \ {c} : phase'[d] = phase[d] /\ outcome'[d] = outcome[d]
    BY <1>0, <1>2 DEF RunInline, TypeOK
  <2>3. FirstOf(c, at[c])'
    BY <2>1 DEF FirstOf, Indices
  <2> QED BY <2>1, <2>2, <2>3, LoopOthers
<1>3. ASSUME NEW c \in Callers, Submit(c) \/ SubmitThrows(c) PROVE LoopInv'
  <2>1. /\ phase[c] = "submit" /\ phase'[c] \in {"notify", "threw"}
        /\ UNCHANGED <<waits, count, at, outcome, raised>>
        /\ \A d \in Callers \ {c} : phase'[d] = phase[d]
    BY <1>0, <1>3 DEF Submit, SubmitThrows, TypeOK
  <2>2. at[c] < count[c] /\ raised[c] = NoError
    BY <1>0, <2>1 DEF Shape, LoopInv
  <2>3. at'[c] <= count'[c]
    BY <1>0, <2>1, <2>2 DEF TypeOK
  <2> QED BY <2>1, <2>2, <2>3, LoopOthers
<1>4. ASSUME NEW c \in Callers, Notify(c) PROVE LoopInv'
  <2>1. phase[c] = "notify" /\ NextIndex(c) /\ UNCHANGED <<waits, count, outcome, raised>>
    BY <1>4 DEF Notify
  <2>2. /\ at[c] < count[c] /\ raised[c] = NoError
    BY <1>0, <2>1 DEF Shape, LoopInv
  <2>3. /\ \A d \in Callers \ {c} : phase'[d] = phase[d] /\ at'[d] = at[d]
        /\ phase'[c] \in {"submit", "collect", "done"}
        /\ phase'[c] = "collect" => at'[c] = 0
    BY <1>0, <2>1 DEF NextIndex, TypeOK
  <2>4. phase'[c] = "collect" => at'[c] <= count'[c] /\ FirstOf(c, at[c])'
    BY <1>0, <2>1, <2>2, <2>3 DEF FirstOf, Indices, TypeOK
  <2> QED BY <2>1, <2>2, <2>3, <2>4, LoopOthers
<1>5. ASSUME NEW c \in Callers, Collect(c) PROVE LoopInv'
  <2>1. /\ phase[c] = "collect" /\ at[c] < count[c] /\ outcome[c][at[c]] # "none"
        /\ UNCHANGED <<phase, waits, count, outcome>>
        /\ at'[c] = at[c] + 1
        /\ raised'[c] = IF raised[c] = NoError /\ outcome[c][at[c]] = "failed"
                        THEN at[c] ELSE raised[c]
        /\ \A d \in Callers \ {c} : raised'[d] = raised[d] /\ at'[d] = at[d]
    BY <1>0, <1>5 DEF Collect, TypeOK
  <2>2. at[c] \in Indices /\ waits[c] /\ count[c] \in 0 .. MaxCount
    BY <1>0, <2>1 DEF TypeOK, Shape, Indices
  <2>3. FirstOf(c, at[c])
    BY <2>1 DEF LoopInv
  <2>4. FirstOf(c, at[c])'
    <3>1. \A i \in Indices : i < at'[c] => i < at[c] \/ i = at[c]
      BY <2>1, <2>2 DEF Indices
    <3>2. at[c] < at'[c] /\ \A i \in Indices : i < at[c] => i < at'[c]
      BY <2>1, <2>2 DEF Indices
    <3>3. at[c] # NoError
      BY <2>2 DEF Indices, NoError
    <3>4. CASE raised[c] = NoError /\ outcome[c][at[c]] = "failed"
      <4>1. raised'[c] = at[c]
        BY <2>1, <3>4
      <4>2. \A i \in Indices : i < at[c] => outcome[c][i] # "failed"
        BY <2>3, <3>4 DEF FirstOf, NoError, Indices
      <4> QED BY <2>1, <2>2, <3>2, <3>4, <4>1, <4>2 DEF FirstOf
    <3>5. CASE raised[c] = NoError /\ outcome[c][at[c]] # "failed"
      BY <2>1, <2>3, <3>1, <3>5 DEF FirstOf, NoError, Indices
    <3>6. CASE raised[c] # NoError
      BY <2>1, <2>3, <3>2, <3>6 DEF FirstOf
    <3> QED BY <3>4, <3>5, <3>6
  <2>5. at'[c] <= count'[c]
    BY <2>1, <2>2 DEF Indices
  <2> QED BY <2>1, <2>2, <2>4, <2>5, LoopOthers
<1>6. ASSUME NEW c \in Callers, Return(c) PROVE LoopInv'
  <2>1. /\ phase'[c] = "done" /\ phase[c] = "collect"
        /\ UNCHANGED <<waits, count, at, outcome, raised>>
        /\ \A d \in Callers \ {c} : phase'[d] = phase[d]
    BY <1>0, <1>6 DEF Return, TypeOK
  <2>2. waits[c]
    BY <1>0, <2>1 DEF Shape
  <2> QED BY <2>1, <2>2, LoopOthers
<1>7. ASSUME NEW w \in Workers, NEW o \in Outcomes, RunTask(w, o) PROVE LoopInv'
  <2>1. task[w] \in Tasks /\ mode[w] = "running"
    BY <1>0, <1>7 DEF RunTask, Shape
  <2>2. PICK c \in Callers, i \in Indices : task[w] = <<c, i>>
    BY <2>1 DEF Tasks
  <2>3. outcome[c][i] = "none" /\ i < Limit(c)
    BY <2>1, <2>2 DEF Running, IInv, Pool, InPoolOnce
  <2>4. /\ UNCHANGED <<phase, waits, count, at, raised>>
        /\ \A d \in Callers \ {c} : outcome'[d] = outcome[d]
        /\ \A j \in Indices : j # i => outcome'[c][j] = outcome[c][j]
    BY <1>0, <1>7, <2>2 DEF RunTask, TypeOK
  <2>5. phase[c] \notin {"ready", "inline"}
    BY <2>3 DEF Limit, Indices
  <2>6. phase'[c] = "collect" => FirstOf(c, at[c])'
    <3> SUFFICES ASSUME phase[c] = "collect" PROVE FirstOf(c, at[c])'
      BY <2>4
    <3>1. ~ (i < at[c])
      BY <2>3 DEF IInv, Pool, Collected
    <3>2. at[c] \in 0 .. MaxCount
      BY <1>0 DEF TypeOK
    <3>3. \A j \in Indices : j < at[c] => j # i
      BY <3>1
    <3>4. FirstOf(c, at[c])
      BY DEF LoopInv
    <3>5. CASE raised[c] = NoError
      BY <2>4, <3>3, <3>4, <3>5 DEF FirstOf, NoError, Indices
    <3>6. CASE raised[c] # NoError
      <4>1. /\ raised[c] \in Indices /\ raised[c] < at[c] /\ outcome[c][raised[c]] = "failed"
            /\ \A j \in Indices : j < raised[c] => outcome[c][j] # "failed"
        BY <3>4, <3>6 DEF FirstOf
      <4>2. \A j \in Indices : j < raised[c] => j < at[c]
        BY <3>2, <4>1 DEF Indices
      <4> QED BY <2>4, <3>3, <4>1, <4>2 DEF FirstOf
    <3> QED BY <3>5, <3>6
  <2>7. phase'[c] \in {"collect", "threw"} => at'[c] <= count'[c]
    BY <2>4 DEF LoopInv
  <2>8. phase'[c] \notin {"collect", "done"} \/ ~ waits'[c] => raised'[c] = NoError
    BY <2>4 DEF LoopInv
  <2> QED BY <2>4, <2>5, <2>6, <2>7, <2>8, LoopOthers
<1>8. ASSUME NEW w \in Workers, TakeTask(w) \/ Sleep(w) \/ Exit(w) \/ WakeSpuriously(w)
      PROVE  LoopInv'
  <2>1. UNCHANGED callVars
    BY <1>8 DEF TakeTask, Sleep, Exit, WakeSpuriously
  <2> QED BY <2>1, LoopSame
<1>9. CASE StopPool \/ Destroy \/ UNCHANGED vars
  <2>1. UNCHANGED callVars
    BY <1>9 DEF StopPool, Destroy, NotifyAll, Join, vars
  <2> QED BY <2>1, LoopSame
<1> QED
  BY <1>1, <1>2, <1>3, <1>4, <1>5, <1>6, <1>7, <1>8, <1>9 DEF Next, Caller, Worker

\* The calls at each point: the error is the first among those collected so far.
THEOREM LoopInvariant == Spec => []LoopInv
<1> QED BY Invariance, LoopInit, LoopStep, PTL DEF Spec


\* The variables of the abstract loop, as the refinement mapping reads them.
ActiveOf == [c \in Callers |-> waits[c] /\ phase[c] \in InCall \union {"threw"}]
CountOf == [c \in Callers |-> IF waits[c] THEN count[c] ELSE 0]
OutcomeOf == [c \in Callers |->
                IF waits[c] THEN outcome[c] ELSE [i \in Indices |-> "none"]]
RaisedOf == [c \in Callers |-> IF phase[c] = "done" THEN raised[c] ELSE NoError]

Alike(c) ==
  /\ ActiveOf'[c] <=> ActiveOf[c]
  /\ CountOf'[c] = CountOf[c]
  /\ OutcomeOf'[c] = OutcomeOf[c]
  /\ RaisedOf'[c] = RaisedOf[c]

\* A caller in the same place of the same call looks the same.
LEMMA SamePlace ==
  ASSUME NEW c \in Callers,
         waits'[c] = waits[c], count'[c] = count[c], outcome'[c] = outcome[c],
         phase'[c] \in InCall \union {"threw"} <=> phase[c] \in InCall \union {"threw"},
         phase[c] = "done" => phase'[c] = "done" /\ raised'[c] = raised[c],
         phase[c] # "done" /\ phase'[c] = "done" => raised'[c] = NoError
  PROVE  Alike(c)
BY DEF Alike, ActiveOf, CountOf, OutcomeOf, RaisedOf

\* A step that leaves every caller what the abstract loop sees of it is a stutter.
LEMMA Stutters ==
  ASSUME \A c \in Callers : Alike(c)
  PROVE  UNCHANGED Loop!vars
<1>1. ActiveOf' = ActiveOf
  <2>1. \A c \in Callers :
          (waits'[c] /\ phase'[c] \in InCall \union {"threw"}) =
          (waits[c] /\ phase[c] \in InCall \union {"threw"})
    BY DEF Alike, ActiveOf
  <2> QED BY <2>1, Zenon DEF ActiveOf
<1>2. CountOf' = CountOf
  BY DEF CountOf, Alike
<1>3. OutcomeOf' = OutcomeOf
  BY DEF OutcomeOf, Alike
<1>4. RaisedOf' = RaisedOf
  BY DEF RaisedOf, Alike
<1> QED BY <1>1, <1>2, <1>3, <1>4
        DEF Loop!vars, ActiveOf, CountOf, OutcomeOf, RaisedOf

LEMMA MapsInit == Init => Loop!Init
<1> SUFFICES ASSUME Init PROVE Loop!Init
  OBVIOUS
<1>1. \A c \in Callers : ~ (phase[c] \in InCall \union {"threw"})
  BY DEF Init, InCall
<1>2. ActiveOf = [c \in Callers |-> FALSE]
  BY <1>1, Zenon DEF ActiveOf
<1>3. CountOf = [c \in Callers |-> 0]
  BY DEF Init, CountOf
<1>4. OutcomeOf = [c \in Callers |-> [i \in Indices |-> "none"]]
  BY DEF Init, OutcomeOf
<1>5. RaisedOf = [c \in Callers |-> NoError]
  BY DEF Init, RaisedOf
<1> QED BY <1>2, <1>3, <1>4, <1>5
        DEF Loop!Init, Loop!Indices, Loop!NoError, Indices, NoError,
            ActiveOf, CountOf, OutcomeOf, RaisedOf

\* Steps of the abstract loop, from the mapping at the caller and elsewhere.
LEMMA MapsBegin ==
  ASSUME NEW c \in Callers, NEW n \in 0 .. MaxCount,
         ~ ActiveOf[c], ActiveOf'[c], CountOf'[c] = n,
         OutcomeOf'[c] = [i \in Indices |-> "none"], RaisedOf'[c] = NoError,
         \A d \in Callers \ {c} : Alike(d)
  PROVE  Loop!Begin(c)
<1>1. ActiveOf' = [ActiveOf EXCEPT ![c] = TRUE]
  <2>1. \A d \in Callers :
          (waits'[d] /\ phase'[d] \in InCall \union {"threw"}) =
          IF d = c THEN TRUE ELSE (waits[d] /\ phase[d] \in InCall \union {"threw"})
    BY DEF Alike, ActiveOf
  <2> QED BY <2>1, Zenon DEF ActiveOf
<1>2. CountOf' = [CountOf EXCEPT ![c] = n]
  BY DEF CountOf, Alike
<1>3. OutcomeOf' = [OutcomeOf EXCEPT ![c] = [i \in Indices |-> "none"]]
  BY DEF OutcomeOf, Alike
<1>4. RaisedOf' = [RaisedOf EXCEPT ![c] = NoError]
  BY DEF RaisedOf, Alike
<1> QED BY <1>1, <1>2, <1>3, <1>4
        DEF Loop!Begin, Loop!Indices, Loop!NoError, Indices, NoError,
            ActiveOf, CountOf, OutcomeOf, RaisedOf

LEMMA MapsRun ==
  ASSUME NEW c \in Callers, NEW i \in 0 .. CountOf[c] - 1, NEW o \in Outcomes,
         ActiveOf[c], ActiveOf'[c], CountOf'[c] = CountOf[c], RaisedOf'[c] = RaisedOf[c],
         OutcomeOf[c][i] = "none", OutcomeOf'[c] = [OutcomeOf[c] EXCEPT ![i] = o],
         \A d \in Callers \ {c} : Alike(d)
  PROVE  Loop!Run(c)
<1>1. ActiveOf' = ActiveOf
  <2>1. \A d \in Callers :
          (waits'[d] /\ phase'[d] \in InCall \union {"threw"}) =
          (waits[d] /\ phase[d] \in InCall \union {"threw"})
    BY DEF Alike, ActiveOf
  <2> QED BY <2>1, Zenon DEF ActiveOf
<1>2. CountOf' = CountOf
  BY DEF CountOf, Alike
<1>3. OutcomeOf' = [OutcomeOf EXCEPT ![c][i] = o]
  BY DEF OutcomeOf, Alike
<1>4. RaisedOf' = RaisedOf
  BY DEF RaisedOf, Alike
<1> QED BY <1>1, <1>2, <1>3, <1>4
        DEF Loop!Run, Outcomes, ActiveOf, CountOf, OutcomeOf, RaisedOf

LEMMA MapsReturn ==
  ASSUME NEW c \in Callers,
         ActiveOf[c], ~ ActiveOf'[c], CountOf'[c] = CountOf[c],
         OutcomeOf'[c] = OutcomeOf[c], RaisedOf'[c] = Loop!FirstFailure(c),
         \A i \in 0 .. CountOf[c] - 1 : OutcomeOf[c][i] # "none",
         \A d \in Callers \ {c} : Alike(d)
  PROVE  Loop!Return(c)
<1>1. ActiveOf' = [ActiveOf EXCEPT ![c] = FALSE]
  <2>1. \A d \in Callers :
          (waits'[d] /\ phase'[d] \in InCall \union {"threw"}) =
          IF d = c THEN FALSE ELSE (waits[d] /\ phase[d] \in InCall \union {"threw"})
    BY DEF Alike, ActiveOf
  <2> QED BY <2>1, Zenon DEF ActiveOf
<1>2. CountOf' = CountOf
  BY DEF CountOf, Alike
<1>3. OutcomeOf' = OutcomeOf
  BY DEF OutcomeOf, Alike
<1>4. RaisedOf' = [RaisedOf EXCEPT ![c] = Loop!FirstFailure(c)]
  BY DEF RaisedOf, Alike
<1> QED BY <1>1, <1>2, <1>3, <1>4
        DEF Loop!Return, ActiveOf, CountOf, OutcomeOf, RaisedOf

\* What parallel_for rethrows is the error of the lowest index that failed.
LEMMA FirstIsFirst ==
  ASSUME IInv, LoopInv, NEW c \in Callers, phase[c] = "collect", at[c] = count[c], waits[c]
  PROVE  raised[c] = Loop!FirstFailure(c)
<1> DEFINE failed == {i \in 0 .. count[c] - 1 : outcome[c][i] = "failed"}
<1>1. Loop!FirstFailure(c) = IF failed = {} THEN NoError
                             ELSE CHOOSE i \in failed : \A j \in failed : i <= j
  <2>1. CountOf[c] = count[c] /\ OutcomeOf[c] = outcome[c]
    BY DEF CountOf, OutcomeOf
  <2>2. Loop!FirstFailure(c) =
          IF {i \in 0 .. CountOf[c] - 1 : OutcomeOf[c][i] = "failed"} = {} THEN NoError
          ELSE CHOOSE i \in {k \in 0 .. CountOf[c] - 1 : OutcomeOf[c][k] = "failed"} :
                 \A j \in {k \in 0 .. CountOf[c] - 1 : OutcomeOf[c][k] = "failed"} : i <= j
    BY DEF Loop!FirstFailure, Loop!NoError, NoError, CountOf, OutcomeOf
  <2> QED BY <2>1, <2>2
<1>2. FirstOf(c, count[c])
  BY DEF LoopInv
<1>3. count[c] \in 0 .. MaxCount
  BY DEF IInv, Base, TypeOK
<1>4. 0 .. count[c] - 1 \subseteq Indices /\ \A i \in Indices : i < count[c] => i \in 0 .. count[c] - 1
  BY <1>3 DEF Indices
<1>5. CASE raised[c] = NoError
  <2>1. failed = {}
    BY <1>2, <1>3, <1>4, <1>5 DEF FirstOf, NoError, Indices
  <2> QED BY <1>1, <1>5, <2>1
<1>6. CASE raised[c] # NoError
  <2>1. raised[c] \in failed
    BY <1>2, <1>4, <1>6 DEF FirstOf
  <2>2. \A j \in failed : raised[c] <= j
    BY <1>2, <1>3, <1>4, <1>6 DEF FirstOf, Indices
  <2>3. \A i \in failed : (\A j \in failed : i <= j) => i = raised[c]
    BY <1>3, <2>1, <2>2
  <2> HIDE DEF failed
  <2>4. (CHOOSE i \in failed : \A j \in failed : i <= j) = raised[c]
    BY <2>1, <2>2, <2>3
  <2> QED BY <1>1, <2>1, <2>4
<1> QED BY <1>5, <1>6

\* Every step of the pool is a step of the abstract loop or a stutter.
LEMMA MapsStep == IInv /\ IInv' /\ LoopInv /\ LoopInv' /\ [Next]_vars
                    => [Loop!Next]_(Loop!vars)
<1> SUFFICES ASSUME IInv, IInv', LoopInv, LoopInv', [Next]_vars
             PROVE  Loop!Next \/ UNCHANGED Loop!vars
  OBVIOUS
<1>0. TypeOK /\ Shape /\ TypeOK' /\ Shape'
  BY DEF IInv, Base
<1>1. ASSUME NEW c \in Callers, NEW n \in 0 .. MaxCount, NEW collects \in BOOLEAN,
             Begin(c, n, collects)
      PROVE  Loop!Next \/ UNCHANGED Loop!vars
  <2>1. /\ phase'[c] \in {"collect", "inline", "submit"}
        /\ waits'[c] = collects /\ count'[c] = n
        /\ outcome'[c] = [i \in Indices |-> "none"] /\ raised'[c] = NoError
        /\ phase[c] \in {"ready", "done"}
        /\ ~ collects => phase[c] = "ready"
    BY <1>0, <1>1 DEF Begin, TypeOK
  <2>2. \A d \in Callers \ {c} : Alike(d)
    <3>1. \A d \in Callers \ {c} :
            /\ phase'[d] = phase[d] /\ waits'[d] = waits[d] /\ count'[d] = count[d]
            /\ outcome'[d] = outcome[d] /\ raised'[d] = raised[d]
      BY <1>0, <1>1 DEF Begin, TypeOK
    <3> QED BY <3>1, SamePlace
  <2>3. CASE collects
    <3>1. ~ ActiveOf[c] /\ ActiveOf'[c]
      BY <2>1, <2>3 DEF ActiveOf, InCall
    <3>2. /\ CountOf'[c] = n /\ OutcomeOf'[c] = [i \in Indices |-> "none"]
          /\ RaisedOf'[c] = NoError
      BY <2>1, <2>3 DEF CountOf, OutcomeOf, RaisedOf
    <3> QED BY <2>2, <3>1, <3>2, MapsBegin DEF Loop!Next
  <2>4. CASE ~ collects
    <3>1. waits[c] /\ count[c] = 0 /\ \A i \in Indices : outcome[c][i] = "none"
      BY <2>1, <2>4 DEF LoopInv
    <3>2. outcome[c] = [i \in Indices |-> "none"]
      BY <1>0, <3>1 DEF TypeOK
    <3>3. ActiveOf'[c] <=> ActiveOf[c]
      BY <2>1, <2>4 DEF ActiveOf, InCall
    <3>4. /\ CountOf'[c] = CountOf[c] /\ OutcomeOf'[c] = OutcomeOf[c]
          /\ RaisedOf'[c] = RaisedOf[c]
      BY <2>1, <2>4, <3>1, <3>2 DEF CountOf, OutcomeOf, RaisedOf
    <3> QED BY <2>2, <3>3, <3>4, Stutters DEF Alike
  <2> QED BY <2>3, <2>4
<1>2. ASSUME NEW c \in Callers, NEW o \in Outcomes, RunInline(c, o)
      PROVE  Loop!Next \/ UNCHANGED Loop!vars
  <2>1. /\ phase[c] = "inline" /\ phase'[c] = "collect"
        /\ UNCHANGED <<waits, count, raised>>
        /\ outcome'[c] = [outcome[c] EXCEPT ![0] = o]
        /\ waits[c] /\ count[c] = 1 /\ outcome[c][0] = "none"
    BY <1>0, <1>2 DEF RunInline, TypeOK, Shape, LoopInv
  <2>2. \A d \in Callers \ {c} : Alike(d)
    <3>1. \A d \in Callers \ {c} : phase'[d] = phase[d] /\ outcome'[d] = outcome[d]
      BY <1>0, <1>2 DEF RunInline, TypeOK
    <3> QED BY <2>1, <3>1, SamePlace
  <2>3. ActiveOf[c] /\ ActiveOf'[c]
    BY <2>1 DEF ActiveOf, InCall
  <2>4. /\ CountOf[c] = 1 /\ CountOf'[c] = CountOf[c] /\ RaisedOf'[c] = RaisedOf[c]
        /\ OutcomeOf[c][0] = "none" /\ OutcomeOf'[c] = [OutcomeOf[c] EXCEPT ![0] = o]
    BY <2>1 DEF CountOf, OutcomeOf, RaisedOf
  <2>5. 0 \in 0 .. CountOf[c] - 1
    BY <2>4
  <2> QED BY <2>2, <2>3, <2>4, <2>5, MapsRun DEF Loop!Next
<1>3. ASSUME NEW c \in Callers, Submit(c) \/ SubmitThrows(c)
      PROVE  Loop!Next \/ UNCHANGED Loop!vars
  <2>1. /\ phase[c] = "submit" /\ phase'[c] \in {"notify", "threw"}
        /\ UNCHANGED <<waits, count, outcome, raised>>
        /\ \A d \in Callers \ {c} : phase'[d] = phase[d]
    BY <1>0, <1>3 DEF Submit, SubmitThrows, TypeOK
  <2>2. \A d \in Callers : Alike(d)
    BY <2>1, SamePlace DEF InCall
  <2> QED BY <2>2, Stutters
<1>4. ASSUME NEW c \in Callers, Notify(c) PROVE Loop!Next \/ UNCHANGED Loop!vars
  <2>1. phase[c] = "notify" /\ NextIndex(c) /\ UNCHANGED <<waits, count, outcome, raised>>
    BY <1>4 DEF Notify
  <2>2. /\ \A d \in Callers \ {c} : phase'[d] = phase[d]
        /\ phase'[c] \in {"submit", "collect", "done"}
        /\ phase'[c] = "done" => ~ waits[c]
    BY <1>0, <2>1 DEF NextIndex, TypeOK
  <2>3. \A d \in Callers \ {c} : Alike(d)
    BY <2>1, <2>2, SamePlace
  <2>4. ActiveOf'[c] <=> ActiveOf[c]
    BY <2>1, <2>2 DEF ActiveOf, InCall
  <2>5. raised[c] = NoError
    BY <2>1 DEF LoopInv
  <2>6. /\ CountOf'[c] = CountOf[c] /\ OutcomeOf'[c] = OutcomeOf[c]
        /\ RaisedOf'[c] = RaisedOf[c]
    BY <2>1, <2>2, <2>5 DEF CountOf, OutcomeOf, RaisedOf
  <2> QED BY <2>3, <2>4, <2>6, Stutters DEF Alike
<1>5. ASSUME NEW c \in Callers, Collect(c) PROVE Loop!Next \/ UNCHANGED Loop!vars
  <2>1. /\ phase[c] = "collect" /\ UNCHANGED <<phase, waits, count, outcome>>
        /\ \A d \in Callers \ {c} : raised'[d] = raised[d]
    BY <1>0, <1>5 DEF Collect, TypeOK
  <2>2. \A d \in Callers : Alike(d)
    BY <2>1, SamePlace
  <2> QED BY <2>2, Stutters
<1>6. ASSUME NEW c \in Callers, Return(c) PROVE Loop!Next \/ UNCHANGED Loop!vars
  <2>1. /\ phase'[c] = "done" /\ phase[c] = "collect" /\ at[c] = count[c]
        /\ UNCHANGED <<waits, count, outcome, raised>>
        /\ \A d \in Callers \ {c} : phase'[d] = phase[d]
    BY <1>0, <1>6 DEF Return, TypeOK
  <2>2. waits[c]
    BY <1>0, <2>1 DEF Shape
  <2>3. \A d \in Callers \ {c} : Alike(d)
    BY <2>1, SamePlace
  <2>4. ActiveOf[c] /\ ~ ActiveOf'[c]
    BY <2>1, <2>2 DEF ActiveOf, InCall
  <2>5. /\ CountOf[c] = count[c] /\ CountOf'[c] = CountOf[c]
        /\ OutcomeOf[c] = outcome[c] /\ OutcomeOf'[c] = OutcomeOf[c]
        /\ RaisedOf'[c] = raised[c]
    BY <2>1, <2>2 DEF CountOf, OutcomeOf, RaisedOf
  <2>6. \A i \in 0 .. count[c] - 1 : outcome[c][i] # "none"
    <3>1. 0 .. count[c] - 1 \subseteq Indices
      BY <1>0 DEF TypeOK, Indices
    <3>2. \A i \in Indices : phase'[c] = "done" /\ waits'[c] /\ i < count'[c] =>
                            outcome'[c][i] # "none"
      BY DEF IInv, Pool, Collected
    <3>3. \A i \in 0 .. count[c] - 1 : i < count[c]
      BY <1>0 DEF TypeOK
    <3> QED BY <2>1, <2>2, <3>1, <3>2, <3>3
  <2>7. RaisedOf'[c] = Loop!FirstFailure(c)
    BY <2>1, <2>2, <2>5, FirstIsFirst
  <2> QED BY <2>3, <2>4, <2>5, <2>6, <2>7, MapsReturn DEF Loop!Next
<1>7. ASSUME NEW w \in Workers, NEW o \in Outcomes, RunTask(w, o)
      PROVE  Loop!Next \/ UNCHANGED Loop!vars
  <2>1. task[w] \in Tasks /\ mode[w] = "running"
    BY <1>0, <1>7 DEF RunTask, Shape
  <2>2. PICK c \in Callers, i \in Indices : task[w] = <<c, i>>
    BY <2>1 DEF Tasks
  <2>3. Running(<<c, i>>)
    BY <2>1, <2>2 DEF Running
  <2>4. outcome[c][i] = "none" /\ i < Limit(c)
    BY <2>3 DEF IInv, Pool, InPoolOnce
  <2>5. /\ UNCHANGED <<phase, waits, count, raised>>
        /\ \A d \in Callers \ {c} : outcome'[d] = outcome[d]
        /\ outcome'[c] = [outcome[c] EXCEPT ![i] = o]
    BY <1>0, <1>7, <2>2 DEF RunTask, TypeOK
  <2>6. \A d \in Callers \ {c} : Alike(d)
    BY <2>5, SamePlace
  <2>7. CASE waits[c]
    <3>1. phase[c] \notin {"ready", "done"}
      BY <2>3, <2>7, NothingLeft DEF IInv
    <3>2. ActiveOf[c] /\ ActiveOf'[c]
      BY <1>0, <2>5, <2>7, <3>1 DEF ActiveOf, InCall, TypeOK
    <3>3. /\ CountOf[c] = count[c] /\ CountOf'[c] = CountOf[c] /\ RaisedOf'[c] = RaisedOf[c]
          /\ OutcomeOf[c] = outcome[c] /\ OutcomeOf'[c] = outcome'[c]
      BY <2>5, <2>7, <3>1 DEF CountOf, OutcomeOf, RaisedOf
    <3>4. i \in 0 .. count[c] - 1
      <4>1. Limit(c) <= count[c]
        BY <1>0, <3>1 DEF Limit, TypeOK, Shape, LoopInv, Indices
      <4> QED BY <1>0, <2>4, <4>1 DEF Indices, TypeOK, Limit
    <3> QED BY <2>4, <2>5, <2>6, <3>2, <3>3, <3>4, MapsRun DEF Loop!Next
  <2>8. CASE ~ waits[c]
    <3>1. Alike(c)
      BY <2>5, <2>8 DEF Alike, ActiveOf, CountOf, OutcomeOf, RaisedOf
    <3> QED BY <2>6, <3>1, Stutters
  <2> QED BY <2>7, <2>8
<1>8. ASSUME UNCHANGED callVars PROVE Loop!Next \/ UNCHANGED Loop!vars
  <2>1. \A d \in Callers : Alike(d)
    BY <1>8, SamePlace DEF callVars
  <2> QED BY <2>1, Stutters
<1>9. ASSUME NEW w \in Workers, TakeTask(w) \/ Sleep(w) \/ Exit(w) \/ WakeSpuriously(w)
      PROVE  Loop!Next \/ UNCHANGED Loop!vars
  BY <1>8, <1>9 DEF TakeTask, Sleep, Exit, WakeSpuriously
<1>10. CASE StopPool \/ Destroy \/ UNCHANGED vars
  BY <1>8, <1>10 DEF StopPool, Destroy, NotifyAll, Join, vars
<1> QED
  BY <1>1, <1>2, <1>3, <1>4, <1>5, <1>6, <1>7, <1>9, <1>10 DEF Next, Caller, Worker

\* Several parallel_for calls over one pool are each the sequential loop: every index
\* is run once and inside its call, the call returns when all are over, and it rethrows
\* the error of the lowest index that failed.
THEOREM ParallelForIsLoop == Spec => ImplementsLoop
<1> QED BY MapsInit, MapsStep, Invariance, LoopInvariant, PTL
        DEF Spec, ImplementsLoop, Loop!Spec

=============================================================================
