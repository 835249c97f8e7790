----------------------- MODULE WorkStealingPoolProofs -----------------------
(***************************************************************************)
(* What is proved of WorkStealingPool, for any number of workers, clients  *)
(* and tasks: no task is lost, run twice or in two places, however pops    *)
(* and steals interleave, and the two counters are exact after the join.   *)
(***************************************************************************)
EXTENDS WorkStealingPool, Functions, FiniteSetTheorems, SequenceTheorems, TLAPS

AtWorker == {"own", "steal", "run", "completed", "check", "gone", "predicate",
             "block", "asleep"}
AtClient == {"choose", "push", "count", "notify", "await", "left", "dropped"}

PoolTypeOK ==
  /\ queue \in [Workers -> Seq(Tasks)]
  /\ at \in [Workers -> AtWorker]
  /\ offset \in [Workers -> Nat]
  /\ hand \in [Workers -> Tasks \union {NoTask}]
  /\ nextQueue \in Nat
  /\ phase \in [Clients -> AtClient]
  /\ sent \in [Clients -> 0 .. TasksEach]
  /\ target \in [Clients -> Workers]
  /\ ready \in SUBSET Tasks
  /\ submitted \in Nat
  /\ completed \in Nat
  /\ stop \in BOOLEAN
  /\ dtor \in {"none", "notify", "join", "done"}

\* A client submits while it has tasks left, and leaves submit() for good without any.
ClientsInStep ==
  \A c \in Clients :
    /\ phase[c] \in {"choose", "push"} => sent[c] < TasksEach
    /\ phase[c] \in {"await", "left", "dropped"} => sent[c] = TasksEach

\* A worker has a task in hand exactly while it is about to run it.
HandsInStep == \A w \in Workers : at[w] = "run" <=> hand[w] # NoTask

Queued(w) == Range(queue[w])

\* The places a task may be in have no task in common.
OnePlace ==
  /\ \A w \in Workers : IsInjective(queue[w])
  /\ \A v, w \in Workers : v # w => Queued(v) \intersect Queued(w) = {}
  /\ \A v, w \in Workers : hand[v] \notin Queued(w)
  /\ \A v, w \in Workers : v # w /\ hand[v] = hand[w] => hand[v] = NoTask
  /\ \A w \in Workers : Queued(w) \intersect ready = {}
  /\ \A w \in Workers : hand[w] \notin ready

Sent == {t \in Tasks : t[2] < sent[t[1]]}

\* The places together hold what was submitted.
SentIsPlaced ==
  \A t \in Tasks :
    t \in Sent <=> \/ \E w \in Workers : t \in Queued(w) \/ t = hand[w]
                   \/ t \in ready

\* Each counter lags behind by the threads that are about to raise it.
Completing == {w \in Workers : at[w] = "completed"}
Counting == {c \in Clients : phase[c] = "count"}

CountersInStep ==
  /\ completed + Cardinality(Completing) = Cardinality(ready)
  /\ submitted + Cardinality(Counting) = Cardinality(Sent)

\* Who waited has what it waited for, and the destructor waited for everyone.
LeftInStep ==
  /\ \A c \in Clients, i \in 0 .. TasksEach - 1 : phase[c] = "left" => <<c, i>> \in ready
  /\ dtor # "none" => \A c \in Clients : phase[c] \in {"left", "dropped"}
  /\ dtor = "done" => \A w \in Workers : at[w] = "gone"

PoolInv ==
  PoolTypeOK /\ ClientsInStep /\ HandsInStep /\ OnePlace /\ SentIsPlaced /\ CountersInStep
  /\ LeftInStep
-----------------------------------------------------------------------------
(* Removing from either end of a queue, and appending to it.                *)

LEMMA PopFront ==
  ASSUME NEW S, NEW s \in Seq(S), s # <<>>, IsInjective(s)
  PROVE  /\ Head(s) \in S
         /\ Tail(s) \in Seq(S)
         /\ IsInjective(Tail(s))
         /\ Head(s) \in Range(s)
         /\ Range(Tail(s)) = Range(s) \ {Head(s)}
<1>1. /\ Len(s) \in Nat \ {0}
      /\ DOMAIN s = 1 .. Len(s)
  BY EmptySeq, LenProperties
<1>2. Head(s) = s[1] /\ Head(s) \in S /\ Head(s) \in Range(s)
  BY <1>1, HeadTailProperties DEF Range
<1>3. /\ Tail(s) \in Seq(S)
      /\ DOMAIN Tail(s) = 1 .. Len(s) - 1
      /\ \A i \in 1 .. Len(s) - 1 : Tail(s)[i] = s[i + 1]
  BY <1>1, HeadTailProperties, LenProperties
<1>4. IsInjective(Tail(s))
  BY <1>1, <1>3 DEF IsInjective
<1>5. ASSUME NEW x PROVE x \in Range(Tail(s)) <=> x \in Range(s) /\ x # Head(s)
  <2>1. ASSUME x \in Range(Tail(s)) PROVE x \in Range(s) /\ x # Head(s)
    <3>1. PICK i \in 1 .. Len(s) - 1 : x = s[i + 1]
      BY <2>1, <1>3 DEF Range
    <3>2. i + 1 \in DOMAIN s /\ 1 \in DOMAIN s /\ i + 1 # 1
      BY <1>1
    <3> QED BY <3>1, <3>2, <1>2 DEF Range, IsInjective
  <2>2. ASSUME x \in Range(s), x # Head(s) PROVE x \in Range(Tail(s))
    <3>1. PICK i \in 1 .. Len(s) : x = s[i]
      BY <2>2, <1>1 DEF Range
    <3>2. i - 1 \in 1 .. Len(s) - 1 /\ x = s[(i - 1) + 1]
      BY <3>1, <2>2, <1>1, <1>2
    <3>3. x = Tail(s)[i - 1] /\ i - 1 \in DOMAIN Tail(s)
      BY <3>2, <1>3
    <3> QED BY <3>3 DEF Range
  <2> QED BY <2>1, <2>2
<1>6. Range(Tail(s)) = Range(s) \ {Head(s)}
  BY <1>5
<1> QED BY <1>2, <1>3, <1>4, <1>6

LEMMA PopBack ==
  ASSUME NEW S, NEW s \in Seq(S), s # <<>>, IsInjective(s)
  PROVE  /\ LastOf(s) \in S
         /\ FrontOf(s) \in Seq(S)
         /\ IsInjective(FrontOf(s))
         /\ LastOf(s) \in Range(s)
         /\ Range(FrontOf(s)) = Range(s) \ {LastOf(s)}
<1>0. Len(s) \in Nat \ {0}
  BY EmptySeq
<1>1. /\ Len(s) \in Nat \ {0}
      /\ DOMAIN s = 1 .. Len(s)
      /\ \A i \in 1 .. Len(s) : s[i] \in S
  BY EmptySeq, LenProperties, ElementOfSeq
<1>2. LastOf(s) = s[Len(s)] /\ LastOf(s) \in S /\ LastOf(s) \in Range(s)
  BY <1>1 DEF Range, LastOf
<1>3. /\ FrontOf(s) \in Seq(S)
      /\ Len(FrontOf(s)) = Len(s) - 1
      /\ \A i \in 1 .. Len(s) - 1 : FrontOf(s)[i] = s[i]
  <2>1. PICK n \in Int : n = Len(s) - 1 /\ n \in Nat
    BY <1>0
  <2>2. \A i \in 1 .. n : s[i] \in S
    BY <1>1, <2>1
  <2>3. /\ SubSeq(s, 1, n) \in Seq(S)
        /\ Len(SubSeq(s, 1, n)) = IF 1 <= n THEN n - 1 + 1 ELSE 0
        /\ \A i \in 1 .. n - 1 + 1 : SubSeq(s, 1, n)[i] = s[1 + i - 1]
    BY <2>2, SubSeqProperties
  <2>4. /\ Len(SubSeq(s, 1, n)) = n
        /\ \A i \in 1 .. n : SubSeq(s, 1, n)[i] = s[i]
    BY <2>1, <2>3
  <2> QED BY <2>1, <2>3, <2>4 DEF FrontOf
<1>4. DOMAIN FrontOf(s) = 1 .. Len(s) - 1
  BY <1>3, LenProperties
<1>5. IsInjective(FrontOf(s))
  BY <1>1, <1>3, <1>4 DEF IsInjective
<1>6. ASSUME NEW x PROVE x \in Range(FrontOf(s)) <=> x \in Range(s) /\ x # LastOf(s)
  <2>1. ASSUME x \in Range(FrontOf(s)) PROVE x \in Range(s) /\ x # LastOf(s)
    <3>1. PICK i \in 1 .. Len(s) - 1 : x = s[i]
      BY <2>1, <1>3, <1>4 DEF Range
    <3>2. i \in 1 .. Len(s) /\ Len(s) \in 1 .. Len(s) /\ i # Len(s)
      BY <1>0
    <3> QED BY <3>1, <3>2, <1>1, <1>2 DEF Range, IsInjective
  <2>2. ASSUME x \in Range(s), x # LastOf(s) PROVE x \in Range(FrontOf(s))
    <3>1. PICK i \in 1 .. Len(s) : x = s[i]
      BY <2>2, <1>1 DEF Range
    <3>2. i \in 1 .. Len(s) - 1
      BY <3>1, <2>2, <1>1, <1>2
    <3> QED BY <3>1, <3>2, <1>3, <1>4 DEF Range
  <2> QED BY <2>1, <2>2
<1>7. Range(FrontOf(s)) = Range(s) \ {LastOf(s)}
  BY <1>6
<1> QED BY <1>2, <1>3, <1>5, <1>7

LEMMA PushBack ==
  ASSUME NEW S, NEW s \in Seq(S), NEW t \in S, IsInjective(s), t \notin Range(s)
  PROVE  /\ Append(s, t) \in Seq(S)
         /\ IsInjective(Append(s, t))
         /\ Range(Append(s, t)) = Range(s) \union {t}
<1>1. /\ Len(s) \in Nat
      /\ DOMAIN s = 1 .. Len(s)
  BY LenProperties
<1>2. /\ Append(s, t) \in Seq(S)
      /\ \A i \in 1 .. Len(s) : Append(s, t)[i] = s[i]
      /\ Append(s, t)[Len(s) + 1] = t
      /\ DOMAIN Append(s, t) = 1 .. Len(s) + 1
  BY AppendProperties, LenProperties
<1>3. \A i \in 1 .. Len(s) : s[i] # t
  BY <1>1 DEF Range
<1>4. IsInjective(Append(s, t))
  <2> SUFFICES ASSUME NEW i \in 1 .. Len(s) + 1, NEW j \in 1 .. Len(s) + 1,
                      Append(s, t)[i] = Append(s, t)[j]
               PROVE  i = j
    BY <1>2 DEF IsInjective
  <2>1. CASE i <= Len(s) /\ j <= Len(s)
    BY <2>1, <1>1, <1>2 DEF IsInjective
  <2>2. CASE i = Len(s) + 1 \/ j = Len(s) + 1
    BY <2>2, <1>1, <1>2, <1>3
  <2> QED BY <2>1, <2>2, <1>1
<1>5. ASSUME NEW x PROVE x \in Range(Append(s, t)) <=> x \in Range(s) \/ x = t
  <2>1. x \in Range(Append(s, t)) <=> \E i \in 1 .. Len(s) + 1 : x = Append(s, t)[i]
    BY <1>2 DEF Range
  <2>2. x \in Range(s) <=> \E i \in 1 .. Len(s) : x = s[i]
    BY <1>1 DEF Range
  <2>3. \A i \in 1 .. Len(s) + 1 : i \in 1 .. Len(s) \/ i = Len(s) + 1
    BY <1>1
  <2>4. /\ \A i \in 1 .. Len(s) : i \in 1 .. Len(s) + 1
        /\ Len(s) + 1 \in 1 .. Len(s) + 1
    BY <1>1
  <2> QED BY <2>1, <2>2, <2>3, <2>4, <1>2
<1> QED BY <1>2, <1>4, <1>5
-----------------------------------------------------------------------------
(* Types.                                                                   *)

LEMMA InWorkers == \A n \in Nat : n % NumWorkers \in Workers
BY WorkStealingAssumption DEF Workers

LEMMA VictimIsWorker == ASSUME PoolTypeOK, NEW w \in Workers PROVE Victim(w) \in Workers
<1>1. w \in Nat /\ offset[w] \in Nat
  BY WorkStealingAssumption DEF PoolTypeOK, Workers
<1>2. w + offset[w] \in Nat
  BY <1>1
<1> QED BY <1>2, InWorkers DEF Victim

LEMMA TypeInit == Init => PoolTypeOK
<1> SUFFICES ASSUME Init PROVE PoolTypeOK
  OBVIOUS
<1>1. queue \in [Workers -> Seq(Tasks)]
  BY EmptySeq DEF Init
<1>2. 0 \in Workers /\ 0 \in 0 .. TasksEach
  BY WorkStealingAssumption DEF Workers
<1>3. at \in [Workers -> AtWorker] /\ phase \in [Clients -> AtClient]
  BY DEF Init, AtWorker, AtClient
<1>4. /\ offset \in [Workers -> Nat] /\ hand \in [Workers -> Tasks \union {NoTask}]
      /\ sent \in [Clients -> 0 .. TasksEach] /\ target \in [Clients -> Workers]
  BY <1>2 DEF Init
<1> QED BY <1>1, <1>3, <1>4 DEF Init, PoolTypeOK

LEMMA TypeClient ==
  ASSUME PoolTypeOK, ClientsInStep, NEW c \in Clients, Client(c)
  PROVE  PoolTypeOK'
<1> USE DEF PoolTypeOK, AtWorker, AtClient, workerVars, clientVars, dtorVars
<1>1. CASE ChooseQueue(c)
  <2>1. nextQueue % NumWorkers \in Workers
    BY InWorkers
  <2> QED BY <1>1, <2>1 DEF ChooseQueue
<1>2. CASE Push(c)
  <2>1. <<c, sent[c]>> \in Tasks /\ sent[c] + 1 \in 0 .. TasksEach
    BY <1>2, WorkStealingAssumption DEF Push, ClientsInStep, Tasks
  <2>2. Append(queue[target[c]], <<c, sent[c]>>) \in Seq(Tasks)
    BY <2>1
  <2>3. queue' \in [Workers -> Seq(Tasks)]
    BY <1>2, <2>2 DEF Push
  <2>4. sent' \in [Clients -> 0 .. TasksEach]
    BY <1>2, <2>1 DEF Push
  <2> QED BY <1>2, <2>3, <2>4 DEF Push
<1>3. CASE CountSubmitted(c)
  BY <1>3 DEF CountSubmitted
<1>4. CASE NotifyAll(c)
  BY <1>4 DEF NotifyAll, WakeAll
<1>5. CASE Await(c)
  BY <1>5 DEF Await
<1> QED BY <1>1, <1>2, <1>3, <1>4, <1>5 DEF Client

LEMMA TypeWorker ==
  ASSUME PoolTypeOK, HandsInStep, OnePlace, NEW w \in Workers, Worker(w)
  PROVE  PoolTypeOK'
<1> USE DEF PoolTypeOK, AtWorker, AtClient, workerVars, clientVars, dtorVars
<1>1. CASE PopOwn(w)
  <2>1. Head(queue[w]) \in Tasks /\ Tail(queue[w]) \in Seq(Tasks)
    BY <1>1, PopFront DEF PopOwn, OnePlace
  <2> QED BY <1>1, <2>1 DEF PopOwn
<1>2. CASE OwnEmpty(w)
  BY <1>2 DEF OwnEmpty
<1>3. CASE Steal(w)
  <2>1. Victim(w) \in Workers
    BY VictimIsWorker
  <2>2. LastOf(queue[Victim(w)]) \in Tasks /\ FrontOf(queue[Victim(w)]) \in Seq(Tasks)
    BY <1>3, <2>1, PopBack DEF Steal, OnePlace
  <2> QED BY <1>3, <2>1, <2>2 DEF Steal
<1>4. CASE VictimEmpty(w)
  <2>1. /\ offset' = [offset EXCEPT ![w] = @ + 1] \/ offset' = offset
        /\ at' = [at EXCEPT ![w] = "check"] \/ at' = at
    BY <1>4 DEF VictimEmpty
  <2>2. offset' \in [Workers -> Nat] /\ at' \in [Workers -> AtWorker]
    BY <2>1
  <2> QED BY <1>4, <2>2 DEF VictimEmpty
<1>5. CASE RunTask(w)
  BY <1>5 DEF RunTask, HandsInStep
<1>6. CASE CountCompleted(w)
  BY <1>6 DEF CountCompleted
<1>7. CASE CheckStop(w)
  BY <1>7 DEF CheckStop
<1>8. CASE CheckPredicate(w)
  BY <1>8 DEF CheckPredicate
<1>9. CASE Block(w)
  BY <1>9 DEF Block
<1>10. CASE TimeOut(w)
  BY <1>10 DEF TimeOut
<1> QED BY <1>1, <1>2, <1>3, <1>4, <1>5, <1>6, <1>7, <1>8, <1>9, <1>10 DEF Worker

LEMMA TypeDtor ==
  ASSUME PoolTypeOK, StopPool \/ Destroy
  PROVE  PoolTypeOK'
<1> USE DEF PoolTypeOK
<1>1. CASE StopPool
  BY <1>1 DEF StopPool, workerVars, clientVars
<1>2. CASE NotifyStop
  <2>1. at' \in [Workers -> AtWorker]
    BY <1>2 DEF NotifyStop, WakeAll, AtWorker
  <2> QED BY <1>2, <2>1 DEF NotifyStop, clientVars
<1>3. CASE Join
  BY <1>3 DEF Join, workerVars, clientVars
<1> QED BY <1>1, <1>2, <1>3 DEF Destroy
-----------------------------------------------------------------------------
(* Where each thread is.                                                    *)

LEMMA InStepClient ==
  ASSUME PoolInv, NEW c \in Clients, Client(c)
  PROVE  ClientsInStep' /\ HandsInStep'
<1> USE DEF PoolInv, PoolTypeOK, ClientsInStep, HandsInStep, workerVars, clientVars, dtorVars
<1>1. CASE ChooseQueue(c)
  BY <1>1 DEF ChooseQueue
<1>2. CASE Push(c)
  BY <1>2 DEF Push
<1>3. CASE CountSubmitted(c)
  BY <1>3 DEF CountSubmitted
<1>4. CASE NotifyAll(c)
  <2>1. sent' = sent /\ sent[c] \in 0 .. TasksEach
    BY <1>4 DEF NotifyAll
  <2>2. PICK then \in IF sent[c] < TasksEach THEN {"choose"} ELSE {"await", "dropped"} :
          phase' = [phase EXCEPT ![c] = then]
    BY <1>4 DEF NotifyAll
  <2>3. \/ sent[c] < TasksEach /\ then = "choose"
        \/ sent[c] = TasksEach /\ then \in {"await", "dropped"}
    BY <2>1, <2>2, WorkStealingAssumption
  <2>4. ClientsInStep'
    BY <2>1, <2>2, <2>3
  <2>5. \A w \in Workers : at'[w] = "run" <=> at[w] = "run"
    BY <1>4 DEF NotifyAll, WakeAll
  <2> QED BY <1>4, <2>4, <2>5 DEF NotifyAll
<1>5. CASE Await(c)
  BY <1>5 DEF Await
<1> QED BY <1>1, <1>2, <1>3, <1>4, <1>5 DEF Client

LEMMA InStepWorker ==
  ASSUME PoolInv, NEW w \in Workers, Worker(w)
  PROVE  ClientsInStep' /\ HandsInStep'
<1>0. NoTask \notin Tasks
  BY WorkStealingAssumption DEF Tasks
<1>1. ClientsInStep'
  BY DEF PoolInv, ClientsInStep, workerVars, clientVars, Worker, PopOwn, OwnEmpty, Steal,
         VictimEmpty, RunTask, CountCompleted, CheckStop, CheckPredicate, Block, TimeOut
<1> USE DEF PoolInv, PoolTypeOK, HandsInStep, workerVars
<1>2. CASE PopOwn(w)
  <2>1. Head(queue[w]) \in Tasks
    BY <1>2, PopFront DEF PopOwn, OnePlace
  <2> QED BY <1>0, <1>1, <1>2, <2>1 DEF PopOwn
<1>3. CASE Steal(w)
  <2>1. LastOf(queue[Victim(w)]) \in Tasks
    BY <1>3, VictimIsWorker, PopBack DEF Steal, OnePlace
  <2> QED BY <1>0, <1>1, <1>3, <2>1 DEF Steal
<1>4. CASE OwnEmpty(w) \/ VictimEmpty(w)
  <2>1. /\ \A v \in Workers \ {w} : at'[v] = at[v]
        /\ at[w] # "run" /\ at'[w] # "run" /\ hand' = hand
    BY <1>4 DEF OwnEmpty, VictimEmpty
  <2> QED BY <1>1, <2>1
<1>5. CASE RunTask(w) \/ CountCompleted(w)
  BY <1>1, <1>5 DEF RunTask, CountCompleted
<1>6. CASE CheckStop(w) \/ CheckPredicate(w) \/ Block(w) \/ TimeOut(w)
  BY <1>1, <1>6 DEF CheckStop, CheckPredicate, Block, TimeOut
<1> QED BY <1>2, <1>3, <1>4, <1>5, <1>6 DEF Worker

LEMMA InStepDtor ==
  ASSUME PoolInv, StopPool \/ Destroy
  PROVE  ClientsInStep' /\ HandsInStep'
BY DEF PoolInv, PoolTypeOK, ClientsInStep, HandsInStep, workerVars, clientVars, StopPool,
       Destroy, NotifyStop, Join, WakeAll
-----------------------------------------------------------------------------
(* Where each task is.                                                      *)

LEMMA PlacesPush ==
  ASSUME PoolInv, NEW c \in Clients, Push(c)
  PROVE  OnePlace' /\ SentIsPlaced'
<1>0. /\ target[c] \in Workers
      /\ <<c, sent[c]>> \in Tasks /\ <<c, sent[c]>> \notin Sent
      /\ queue \in [Workers -> Seq(Tasks)]
  BY WorkStealingAssumption
     DEF Push, PoolInv, PoolTypeOK, ClientsInStep, Tasks, Sent
<1>1. PICK v \in Workers, t \in Tasks :
        v = target[c] /\ t = <<c, sent[c]>> /\ t \notin Sent
  BY <1>0
<1>2. /\ \A w \in Workers : t \notin Queued(w) /\ t # hand[w]
      /\ t \notin ready
  BY <1>1 DEF PoolInv, SentIsPlaced
<1>3. /\ queue' = [queue EXCEPT ![v] = Append(@, t)]
      /\ hand' = hand /\ ready' = ready
      /\ sent' = [sent EXCEPT ![c] = @ + 1]
  BY <1>1 DEF Push
<1>4. Sent' = Sent \union {t}
  <2>1. ASSUME NEW u \in Tasks PROVE u \in Sent' <=> u \in Sent \/ u = t
    <3>1. u = <<u[1], u[2]>> /\ u[1] \in Clients /\ u[2] \in Nat
      BY DEF Tasks
    <3>2. sent[c] \in Nat /\ sent'[u[1]] = IF u[1] = c THEN sent[c] + 1 ELSE sent[u[1]]
      BY <1>3, <3>1 DEF PoolInv, PoolTypeOK
    <3>3. u[1] = c => (u[2] < sent[c] + 1 <=> u[2] < sent[c] \/ u[2] = sent[c])
      BY <3>1, <3>2
    <3>4. u = t <=> u[1] = c /\ u[2] = sent[c]
      BY <1>1, <3>1
    <3> QED BY <3>2, <3>3, <3>4 DEF Sent
  <2> QED BY <2>1, <1>1 DEF Sent
<1>5. /\ IsInjective(queue[v]) /\ queue[v] \in Seq(Tasks)
      /\ t \notin Range(queue[v])
  BY <1>0, <1>1, <1>2 DEF PoolInv, OnePlace, Queued
<1>6. /\ queue'[v] = Append(queue[v], t)
      /\ \A w \in Workers \ {v} : queue'[w] = queue[w]
  BY <1>0, <1>1, <1>3
<1>7. /\ IsInjective(queue'[v])
      /\ Range(queue'[v]) = Range(queue[v]) \union {t}
  BY <1>1, <1>5, <1>6, PushBack
<1>8. /\ Queued(v)' = Queued(v) \union {t}
      /\ \A w \in Workers \ {v} : Queued(w)' = Queued(w)
      /\ \A w \in Workers : IsInjective(queue'[w])
  BY <1>6, <1>7 DEF Queued, PoolInv, OnePlace
<1>9. OnePlace'
  BY <1>1, <1>2, <1>3, <1>8 DEF PoolInv, OnePlace
<1>10. SentIsPlaced'
  BY <1>1, <1>3, <1>4, <1>8 DEF PoolInv, SentIsPlaced
<1> QED BY <1>9, <1>10

\* A task goes from the queue of v into the empty hand of w.
LEMMA PlacesTake ==
  ASSUME PoolInv, NEW v \in Workers, NEW w \in Workers, NEW t \in Tasks,
         t \in Queued(v), hand[w] = NoTask, hand' = [hand EXCEPT ![w] = t],
         IsInjective(queue'[v]), Range(queue'[v]) = Range(queue[v]) \ {t},
         \A u \in Workers \ {v} : queue'[u] = queue[u],
         ready' = ready, sent' = sent
  PROVE  OnePlace' /\ SentIsPlaced'
<1>1. t # NoTask
  BY WorkStealingAssumption DEF Tasks
<1>2. /\ Queued(v)' = Queued(v) \ {t}
      /\ \A u \in Workers \ {v} : Queued(u)' = Queued(u)
      /\ \A u \in Workers : IsInjective(queue'[u])
  BY DEF Queued, PoolInv, OnePlace
<1>3. /\ hand'[w] = t
      /\ \A u \in Workers \ {w} : hand'[u] = hand[u]
  BY DEF PoolInv, PoolTypeOK
<1>4. /\ \A u \in Workers : hand[u] # t
      /\ \A u \in Workers \ {v} : t \notin Queued(u)
      /\ t \notin ready
  BY DEF PoolInv, OnePlace
<1>5. OnePlace'
  BY <1>2, <1>3, <1>4 DEF PoolInv, OnePlace
<1>6. Sent' = Sent
  BY DEF Sent
<1>7. NoTask \notin Tasks
  BY WorkStealingAssumption DEF Tasks
<1>8. SentIsPlaced'
  BY <1>2, <1>3, <1>6, <1>7 DEF PoolInv, SentIsPlaced
<1> QED BY <1>5, <1>8

LEMMA PlacesRun ==
  ASSUME PoolInv, NEW w \in Workers, RunTask(w)
  PROVE  /\ OnePlace' /\ SentIsPlaced'
         /\ hand[w] \in Tasks /\ hand[w] \notin ready
<1>1. hand[w] # NoTask
  BY DEF PoolInv, HandsInStep, RunTask
<1>2. hand[w] \in Tasks /\ hand[w] \notin ready
  BY <1>1 DEF PoolInv, PoolTypeOK, OnePlace
<1>3. /\ queue' = queue /\ sent' = sent
      /\ ready' = ready \union {hand[w]}
      /\ hand'[w] = NoTask
      /\ \A u \in Workers \ {w} : hand'[u] = hand[u]
  BY DEF RunTask, clientVars, PoolInv, PoolTypeOK
<1>4. ASSUME NEW u \in Workers PROVE Queued(u)' = Queued(u) /\ Queued(u) \subseteq Tasks
  <2>1. queue[u] \in Seq(Tasks)
    BY DEF PoolInv, PoolTypeOK
  <2> QED BY <2>1, <1>3, RangeOfSeq DEF Queued
<1>5. NoTask \notin Tasks /\ ready \subseteq Tasks
  BY WorkStealingAssumption DEF Tasks, PoolInv, PoolTypeOK
<1>6. OnePlace'
  BY <1>1, <1>2, <1>3, <1>4, <1>5 DEF PoolInv, OnePlace
<1>7. Sent' = Sent
  BY <1>3 DEF Sent
<1>8. SentIsPlaced'
  BY <1>2, <1>3, <1>4, <1>5, <1>7 DEF PoolInv, SentIsPlaced
<1> QED BY <1>2, <1>6, <1>8

LEMMA PlacesSame ==
  ASSUME PoolInv, UNCHANGED <<queue, hand, ready, sent>>
  PROVE  OnePlace' /\ SentIsPlaced'
BY DEF PoolInv, OnePlace, SentIsPlaced, Queued, Sent

LEMMA PlacesClient ==
  ASSUME PoolInv, NEW c \in Clients, Client(c)
  PROVE  OnePlace' /\ SentIsPlaced'
<1>1. CASE Push(c)
  BY <1>1, PlacesPush
<1>2. CASE ChooseQueue(c) \/ CountSubmitted(c) \/ NotifyAll(c) \/ Await(c)
  BY <1>2, PlacesSame DEF ChooseQueue, CountSubmitted, NotifyAll, Await, workerVars
<1> QED BY <1>1, <1>2 DEF Client

LEMMA PlacesWorker ==
  ASSUME PoolInv, NEW w \in Workers, Worker(w)
  PROVE  OnePlace' /\ SentIsPlaced'
<1>1. CASE PopOwn(w)
  <2>1. queue[w] \in Seq(Tasks) /\ queue[w] # <<>> /\ IsInjective(queue[w])
    BY <1>1 DEF PopOwn, PoolInv, PoolTypeOK, OnePlace
  <2>2. /\ queue'[w] = Tail(queue[w])
        /\ \A u \in Workers \ {w} : queue'[u] = queue[u]
        /\ hand' = [hand EXCEPT ![w] = Head(queue[w])]
        /\ hand[w] = NoTask /\ ready' = ready /\ sent' = sent
    BY <1>1 DEF PopOwn, PoolInv, PoolTypeOK, HandsInStep, clientVars
  <2> QED BY <2>1, <2>2, PopFront, PlacesTake DEF Queued
<1>2. CASE Steal(w)
  <2>0. Victim(w) \in Workers
    BY VictimIsWorker DEF PoolInv
  <2> DEFINE v == Victim(w)
  <2>1. queue[v] \in Seq(Tasks) /\ queue[v] # <<>> /\ IsInjective(queue[v])
    BY <1>2, <2>0 DEF Steal, PoolInv, PoolTypeOK, OnePlace
  <2>2. /\ queue'[v] = FrontOf(queue[v])
        /\ \A u \in Workers \ {v} : queue'[u] = queue[u]
        /\ hand' = [hand EXCEPT ![w] = LastOf(queue[v])]
        /\ hand[w] = NoTask /\ ready' = ready /\ sent' = sent
    BY <1>2, <2>0 DEF Steal, PoolInv, PoolTypeOK, HandsInStep, clientVars
  <2> HIDE DEF v
  <2>3. /\ LastOf(queue[v]) \in Tasks /\ LastOf(queue[v]) \in Range(queue[v])
        /\ IsInjective(queue'[v]) /\ Range(queue'[v]) = Range(queue[v]) \ {LastOf(queue[v])}
    BY <2>1, <2>2, PopBack
  <2>4. v \in Workers
    BY <2>0 DEF v
  <2> QED BY <2>2, <2>3, <2>4, PlacesTake DEF Queued
<1>3. CASE RunTask(w)
  BY <1>3, PlacesRun
<1>4. CASE OwnEmpty(w) \/ VictimEmpty(w) \/ CountCompleted(w)
  BY <1>4, PlacesSame DEF OwnEmpty, VictimEmpty, CountCompleted, clientVars
<1>5. CASE CheckStop(w) \/ CheckPredicate(w) \/ Block(w) \/ TimeOut(w)
  BY <1>5, PlacesSame DEF CheckStop, CheckPredicate, Block, TimeOut, clientVars
<1> QED BY <1>1, <1>2, <1>3, <1>4, <1>5 DEF Worker

LEMMA PlacesDtor ==
  ASSUME PoolInv, StopPool \/ Destroy
  PROVE  OnePlace' /\ SentIsPlaced'
BY PlacesSame DEF StopPool, Destroy, NotifyStop, Join, workerVars, clientVars
-----------------------------------------------------------------------------
(* The counters.                                                            *)

LEMMA PoolFinite ==
  /\ IsFiniteSet(Workers) /\ IsFiniteSet(Tasks)
  /\ \A S \in SUBSET Workers : IsFiniteSet(S) /\ Cardinality(S) \in Nat
  /\ \A S \in SUBSET Clients : IsFiniteSet(S) /\ Cardinality(S) \in Nat
  /\ \A S \in SUBSET Tasks : IsFiniteSet(S) /\ Cardinality(S) \in Nat
<1>1. IsFiniteSet(Workers)
  <2>1. NumWorkers - 1 \in Int /\ 0 \in Int
    BY WorkStealingAssumption
  <2> QED BY <2>1, FS_Interval DEF Workers
<1>2. IsFiniteSet(Tasks)
  <2>1. TasksEach - 1 \in Int /\ 0 \in Int
    BY WorkStealingAssumption
  <2>2. IsFiniteSet(0 .. TasksEach - 1)
    BY <2>1, FS_Interval
  <2> QED BY <2>2, WorkStealingAssumption, FS_Product DEF Tasks
<1>3. IsFiniteSet(Clients)
  BY WorkStealingAssumption
<1> QED BY <1>1, <1>2, <1>3, FS_Subset, FS_CardinalityType

LEMMA OneMore ==
  ASSUME NEW S, IsFiniteSet(S), NEW x, x \notin S
  PROVE  Cardinality(S \union {x}) = Cardinality(S) + 1
BY FS_AddElement

LEMMA OneLess ==
  ASSUME NEW S, IsFiniteSet(S), NEW x, x \in S
  PROVE  Cardinality(S) = Cardinality(S \ {x}) + 1
<1>1. Cardinality(S) \in Nat
  BY FS_CardinalityType
<1>2. Cardinality(S \ {x}) = Cardinality(S) - 1
  BY FS_RemoveElement
<1> QED BY <1>1, <1>2

LEMMA CountersClient ==
  ASSUME PoolInv, NEW c \in Clients, Client(c)
  PROVE  CountersInStep'
<1> USE DEF PoolInv, PoolTypeOK
<1>0. /\ completed + Cardinality(Completing) = Cardinality(ready)
      /\ submitted + Cardinality(Counting) = Cardinality(Sent)
  BY DEF CountersInStep
<1>1. completed' = completed /\ ready' = ready
  BY DEF Client, ChooseQueue, Push, CountSubmitted, NotifyAll, Await, workerVars
<1>2. Completing' = Completing
  BY DEF Client, ChooseQueue, Push, CountSubmitted, NotifyAll, Await, WakeAll, workerVars,
         Completing
<1>3. CASE Push(c)
  <2>1. Counting' = Counting \union {c} /\ c \notin Counting
    BY <1>3 DEF Push, Counting
  <2>2. Cardinality(Counting') = Cardinality(Counting) + 1
    BY <2>1, PoolFinite, OneMore DEF Counting
  <2>3. PICK t \in Tasks : t \notin Sent /\ Sent' = Sent \union {t}
    <3>0. sent[c] \in 0 .. TasksEach /\ sent[c] < TasksEach
      BY <1>3 DEF Push, ClientsInStep
    <3>1. PICK t \in Tasks : t = <<c, sent[c]>>
      <4>1. sent[c] \in 0 .. TasksEach - 1
        BY <3>0, WorkStealingAssumption
      <4> QED BY <4>1 DEF Tasks
    <3>2. t \notin Sent
      BY <3>1 DEF Sent
    <3>3. ASSUME NEW u \in Tasks PROVE u \in Sent' <=> u \in Sent \/ u = t
      <4>1. u = <<u[1], u[2]>> /\ u[1] \in Clients /\ u[2] \in Nat
        BY DEF Tasks
      <4>2. sent[c] \in Nat /\ sent'[u[1]] = IF u[1] = c THEN sent[c] + 1 ELSE sent[u[1]]
        BY <1>3, <4>1 DEF Push
      <4>3. u[1] = c => (u[2] < sent[c] + 1 <=> u[2] < sent[c] \/ u[2] = sent[c])
        BY <4>1, <4>2
      <4>4. u = t <=> u[1] = c /\ u[2] = sent[c]
        BY <3>1, <4>1
      <4> QED BY <4>2, <4>3, <4>4 DEF Sent
    <3> QED BY <3>2, <3>3 DEF Sent
  <2>4. Cardinality(Sent') = Cardinality(Sent) + 1
    BY <2>3, PoolFinite, OneMore DEF Sent
  <2>5. submitted' = submitted /\ Cardinality(Counting) \in Nat /\ Cardinality(Sent) \in Nat
    BY <1>3, PoolFinite DEF Push, Counting, Sent
  <2> QED BY <1>0, <1>1, <1>2, <2>2, <2>4, <2>5 DEF CountersInStep
<1>4. CASE CountSubmitted(c)
  <2>1. Counting' = Counting \ {c} /\ c \in Counting
    BY <1>4 DEF CountSubmitted, Counting
  <2>2. Cardinality(Counting) = Cardinality(Counting') + 1
    BY <2>1, PoolFinite, OneLess DEF Counting
  <2>3. /\ submitted' = submitted + 1 /\ Sent' = Sent
        /\ Cardinality(Counting') \in Nat
    BY <1>4, PoolFinite DEF CountSubmitted, Counting, Sent
  <2> QED BY <1>0, <1>1, <1>2, <2>2, <2>3 DEF CountersInStep
<1>5. CASE ChooseQueue(c) \/ NotifyAll(c) \/ Await(c)
  <2>1. Counting' = Counting
    BY <1>5 DEF ChooseQueue, NotifyAll, Await, Counting
  <2>2. submitted' = submitted /\ Sent' = Sent
    BY <1>5 DEF ChooseQueue, NotifyAll, Await, Sent
  <2> QED BY <1>0, <1>1, <1>2, <2>1, <2>2 DEF CountersInStep
<1> QED BY <1>3, <1>4, <1>5 DEF Client

LEMMA CountersWorker ==
  ASSUME PoolInv, NEW w \in Workers, Worker(w)
  PROVE  CountersInStep'
<1> USE DEF PoolInv, PoolTypeOK
<1>0. /\ completed + Cardinality(Completing) = Cardinality(ready)
      /\ submitted + Cardinality(Counting) = Cardinality(Sent)
  BY DEF CountersInStep
<1>1. submitted' = submitted /\ Counting' = Counting /\ Sent' = Sent
  BY DEF Worker, PopOwn, OwnEmpty, Steal, VictimEmpty, RunTask, CountCompleted, CheckStop,
         CheckPredicate, Block, TimeOut, clientVars, Counting, Sent
<1>2. CASE RunTask(w)
  <2>1. Completing' = Completing \union {w} /\ w \notin Completing
    BY <1>2 DEF RunTask, Completing
  <2>2. Cardinality(Completing') = Cardinality(Completing) + 1
    BY <2>1, PoolFinite, OneMore DEF Completing
  <2>3. ready' = ready \union {hand[w]} /\ hand[w] \notin ready
    BY <1>2, PlacesRun DEF RunTask
  <2>4. Cardinality(ready') = Cardinality(ready) + 1
    BY <2>3, PoolFinite, OneMore
  <2>5. completed' = completed /\ Cardinality(Completing) \in Nat /\ Cardinality(ready) \in Nat
    BY <1>2, PoolFinite DEF RunTask, Completing
  <2> QED BY <1>0, <1>1, <2>2, <2>4, <2>5 DEF CountersInStep
<1>3. CASE CountCompleted(w)
  <2>1. Completing' = Completing \ {w} /\ w \in Completing
    BY <1>3 DEF CountCompleted, Completing
  <2>2. Cardinality(Completing) = Cardinality(Completing') + 1
    BY <2>1, PoolFinite, OneLess DEF Completing
  <2>3. /\ completed' = completed + 1 /\ ready' = ready
        /\ Cardinality(Completing') \in Nat
    BY <1>3, PoolFinite DEF CountCompleted, Completing
  <2> QED BY <1>0, <1>1, <2>2, <2>3 DEF CountersInStep
<1>4. CASE OwnEmpty(w) \/ VictimEmpty(w) \/ PopOwn(w) \/ Steal(w)
  <2>1. /\ completed' = completed /\ ready' = ready
        /\ at[w] # "completed" /\ at'[w] # "completed"
        /\ \A u \in Workers \ {w} : at'[u] = at[u]
    BY <1>4 DEF OwnEmpty, VictimEmpty, PopOwn, Steal
  <2>2. Completing' = Completing
    BY <2>1 DEF Completing
  <2> QED BY <1>0, <1>1, <2>1, <2>2 DEF CountersInStep
<1>5. CASE CheckStop(w) \/ CheckPredicate(w) \/ Block(w) \/ TimeOut(w)
  <2>1. /\ completed' = completed /\ ready' = ready
        /\ at[w] # "completed" /\ at'[w] # "completed"
        /\ \A u \in Workers \ {w} : at'[u] = at[u]
    BY <1>5 DEF CheckStop, CheckPredicate, Block, TimeOut
  <2>2. Completing' = Completing
    BY <2>1 DEF Completing
  <2> QED BY <1>0, <1>1, <2>1, <2>2 DEF CountersInStep
<1> QED BY <1>2, <1>3, <1>4, <1>5 DEF Worker

LEMMA CountersDtor ==
  ASSUME PoolInv, StopPool \/ Destroy
  PROVE  CountersInStep'
<1>1. UNCHANGED <<completed, submitted, ready>> /\ UNCHANGED <<phase, sent>>
  BY DEF StopPool, Destroy, NotifyStop, Join, workerVars, clientVars
<1>2. Completing' = Completing
  BY DEF StopPool, Destroy, NotifyStop, Join, workerVars, WakeAll, Completing, PoolInv, PoolTypeOK
<1>3. Counting' = Counting /\ Sent' = Sent
  BY <1>1 DEF Counting, Sent
<1> QED BY <1>1, <1>2, <1>3 DEF PoolInv, CountersInStep

LEMMA LeftClient ==
  ASSUME PoolInv, NEW c \in Clients, Client(c)
  PROVE  LeftInStep'
<1> USE DEF PoolInv, PoolTypeOK, LeftInStep
<1>1. ready' = ready /\ dtor' = dtor
  BY DEF Client, ChooseQueue, Push, CountSubmitted, NotifyAll, Await, workerVars, dtorVars
<1>2. dtor = "none" \/ phase[c] \in {"left", "dropped"}
  OBVIOUS
<1>3. phase[c] \notin {"left", "dropped"}
  BY DEF Client, ChooseQueue, Push, CountSubmitted, NotifyAll, Await
<1>4. CASE Await(c)
  BY <1>1, <1>2, <1>3, <1>4 DEF Await
<1>5. CASE ChooseQueue(c) \/ Push(c) \/ CountSubmitted(c) \/ NotifyAll(c)
  <2>1. phase'[c] # "left" /\ \A d \in Clients \ {c} : phase'[d] = phase[d]
    BY <1>5 DEF ChooseQueue, Push, CountSubmitted, NotifyAll
  <2> QED BY <1>1, <1>2, <1>3, <2>1
<1> QED BY <1>4, <1>5 DEF Client

LEMMA LeftWorker ==
  ASSUME PoolInv, NEW w \in Workers, Worker(w)
  PROVE  LeftInStep'
<1>1. ready \subseteq ready' /\ dtor' = dtor /\ phase' = phase
  BY DEF Worker, PopOwn, OwnEmpty, Steal, VictimEmpty, RunTask, CountCompleted, CheckStop,
         CheckPredicate, Block, TimeOut, clientVars, dtorVars
<1>2. at[w] # "gone"
  BY DEF Worker, PopOwn, OwnEmpty, Steal, VictimEmpty, RunTask, CountCompleted, CheckStop,
         CheckPredicate, Block, TimeOut
<1> QED BY <1>1, <1>2 DEF PoolInv, LeftInStep

LEMMA LeftDtor ==
  ASSUME PoolInv, StopPool \/ Destroy
  PROVE  LeftInStep'
<1> USE DEF PoolInv, LeftInStep, workerVars, clientVars
<1>1. CASE StopPool
  BY <1>1 DEF StopPool
<1>2. CASE NotifyStop
  BY <1>2 DEF NotifyStop
<1>3. CASE Join
  BY <1>3 DEF Join
<1> QED BY <1>1, <1>2, <1>3 DEF Destroy
-----------------------------------------------------------------------------
(* The inductive invariant.                                                 *)

LEMMA PoolInvInit == Init => PoolInv
<1> SUFFICES ASSUME Init PROVE PoolInv
  OBVIOUS
<1>1. PoolTypeOK
  BY TypeInit
<1>2. ClientsInStep /\ HandsInStep
  BY WorkStealingAssumption DEF Init, ClientsInStep, HandsInStep
<1>3. ASSUME NEW w \in Workers
      PROVE  queue[w] = <<>> /\ IsInjective(queue[w]) /\ Queued(w) = {} /\ hand[w] = NoTask
  <2>1. queue[w] = <<>> /\ hand[w] = NoTask
    BY DEF Init
  <2>2. DOMAIN <<>> = {}
    BY EmptySeq, LenProperties
  <2> QED BY <2>1, <2>2 DEF IsInjective, Queued, Range
<1>4. ready = {} /\ \A t \in Tasks : t \notin Sent
  BY DEF Init, Tasks, Sent
<1>5. OnePlace
  BY <1>3, <1>4 DEF OnePlace
<1>6. SentIsPlaced
  <2>1. NoTask \notin Tasks
    BY WorkStealingAssumption DEF Tasks
  <2> QED BY <1>3, <1>4, <2>1 DEF SentIsPlaced
<1>7. CountersInStep
  <2>1. Completing = {} /\ Counting = {} /\ Sent = {}
    BY <1>4 DEF Init, Completing, Counting, Sent
  <2>2. Cardinality(Completing) = 0 /\ Cardinality(Counting) = 0
        /\ Cardinality(Sent) = 0 /\ Cardinality(ready) = 0
    BY <1>4, <2>1, FS_EmptySet, Zenon
  <2> QED BY <2>2 DEF Init, CountersInStep
<1>8. LeftInStep
  BY DEF Init, LeftInStep
<1> QED BY <1>1, <1>2, <1>5, <1>6, <1>7, <1>8 DEF PoolInv

LEMMA PoolInvStep == PoolInv /\ [Next]_vars => PoolInv'
<1> SUFFICES ASSUME PoolInv, [Next]_vars PROVE PoolInv'
  OBVIOUS
<1>1. ASSUME NEW c \in Clients, Client(c) PROVE PoolInv'
  BY <1>1, TypeClient, InStepClient, PlacesClient, CountersClient, LeftClient DEF PoolInv
<1>2. ASSUME NEW w \in Workers, Worker(w) PROVE PoolInv'
  BY <1>2, TypeWorker, InStepWorker, PlacesWorker, CountersWorker, LeftWorker DEF PoolInv
<1>3. CASE StopPool \/ Destroy
  BY <1>3, TypeDtor, InStepDtor, PlacesDtor, CountersDtor, LeftDtor DEF PoolInv
<1>4. CASE UNCHANGED vars
  BY <1>4 DEF vars, workerVars, clientVars, dtorVars, PoolInv, PoolTypeOK, ClientsInStep,
              HandsInStep, OnePlace, Queued, SentIsPlaced, Sent, CountersInStep, Completing,
              Counting, LeftInStep
<1> QED BY <1>1, <1>2, <1>3, <1>4 DEF Next

\* Types are respected: every queue holds tasks, every client chooses a queue that
\* exists, for any number of workers.
THEOREM PoolTypesCorrect == Spec => []PoolTypeOK
<1>1. PoolInv => PoolTypeOK
  BY DEF PoolInv
<1> QED BY <1>1, PoolInvInit, PoolInvStep, PTL DEF Spec

\* A queue without repetitions is no longer than there are tasks.
LEMMA QueueFits ==
  ASSUME PoolInv, NEW w \in Workers
  PROVE  Len(queue[w]) <= Cardinality(Tasks)
<1>1. queue[w] \in Seq(Tasks) /\ IsInjective(queue[w])
  BY DEF PoolInv, PoolTypeOK, OnePlace
<1>2. /\ Len(queue[w]) \in Nat
      /\ queue[w] \in [1 .. Len(queue[w]) -> Tasks]
  BY <1>1, LenProperties
<1>3. queue[w] \in Injection(1 .. Len(queue[w]), Tasks)
  BY <1>1, <1>2 DEF Injection
<1>4. Cardinality(1 .. Len(queue[w])) <= Cardinality(Tasks)
  BY <1>3, PoolFinite, FS_Injection
<1>5. Cardinality(1 .. Len(queue[w])) = Len(queue[w])
  <2>1. PICK n \in Nat : n = Len(queue[w])
    BY <1>2
  <2>2. Cardinality(1 .. n) = IF 1 > n THEN 0 ELSE n - 1 + 1
    BY FS_Interval
  <2> QED BY <2>1, <2>2
<1> QED BY <1>4, <1>5

LEMMA PlacedOnce == PoolInv => EachTaskOnce
<1> SUFFICES ASSUME PoolInv, NEW t \in Tasks
             PROVE  Cardinality(QueuedAt(t)) + Cardinality(HeldBy(t))
                      + (IF t \in ready THEN 1 ELSE 0)
                    = IF t[2] < sent[t[1]] THEN 1 ELSE 0
  BY DEF EachTaskOnce
<1> DEFINE Q == QueuedAt(t)
           H == HeldBy(t)
<1>0. /\ t \in Sent <=> t[2] < sent[t[1]]
      /\ t # NoTask
      /\ \A w \in Workers : /\ queue[w] \in Seq(Tasks)
                            /\ DOMAIN queue[w] = 1 .. Len(queue[w])
                            /\ Len(queue[w]) \in Nat
  BY WorkStealingAssumption, LenProperties DEF Sent, Tasks, PoolInv, PoolTypeOK
<1>1. ASSUME NEW w \in Workers
      PROVE  t \in Queued(w) <=> \E i \in 1 .. Cardinality(Tasks) : <<w, i>> \in Q
  <2>1. t \in Queued(w) <=> \E i \in 1 .. Len(queue[w]) : queue[w][i] = t
    BY <1>0 DEF Queued, Range
  <2>2. \A i \in 1 .. Len(queue[w]) : i \in 1 .. Cardinality(Tasks)
    BY <1>0, QueueFits, PoolFinite
  <2>3. \A i \in 1 .. Cardinality(Tasks) :
          <<w, i>> \in Q <=> i <= Len(queue[w]) /\ queue[w][i] = t
    BY DEF QueuedAt
  <2>4. \A i \in 1 .. Cardinality(Tasks) : i \in 1 .. Len(queue[w]) <=> i <= Len(queue[w])
    BY <1>0
  <2> QED BY <2>1, <2>2, <2>3, <2>4
<1>2. ASSUME NEW p \in Q, NEW q \in Q PROVE p = q
  <2>1. /\ p \in Workers \X (1 .. Cardinality(Tasks)) /\ q \in Workers \X (1 .. Cardinality(Tasks))
        /\ p[2] \in 1 .. Len(queue[p[1]]) /\ queue[p[1]][p[2]] = t
        /\ q[2] \in 1 .. Len(queue[q[1]]) /\ queue[q[1]][q[2]] = t
    BY <1>0 DEF QueuedAt
  <2>2. t \in Queued(p[1]) /\ t \in Queued(q[1])
    BY <1>0, <2>1 DEF Queued, Range
  <2>3. p[1] = q[1]
    BY <2>1, <2>2 DEF PoolInv, OnePlace
  <2>4. p[2] = q[2]
    BY <1>0, <2>1, <2>3 DEF PoolInv, OnePlace, IsInjective
  <2> QED BY <2>1, <2>3, <2>4
<1>3. Q = {} \/ \E p : Q = {p}
  BY <1>2
<1>4. H = {} \/ \E w : H = {w}
  <2>1. \A v, w \in H : v = w
    BY <1>0 DEF HeldBy, PoolInv, OnePlace
  <2> QED BY <2>1
<1>5. /\ Q # {} <=> \E w \in Workers : t \in Queued(w)
      /\ H # {} <=> \E w \in Workers : t = hand[w]
  <2>1. Q # {} => \E w \in Workers : \E i \in 1 .. Cardinality(Tasks) : <<w, i>> \in Q
    BY DEF QueuedAt
  <2> QED BY <2>1, <1>1 DEF HeldBy
<1>6. /\ ~ (Q # {} /\ H # {}) /\ ~ (Q # {} /\ t \in ready) /\ ~ (H # {} /\ t \in ready)
      /\ t \in Sent <=> Q # {} \/ H # {} \/ t \in ready
  BY <1>5 DEF PoolInv, OnePlace, SentIsPlaced
<1> HIDE DEF Q, H
<1>7. Cardinality(Q) = (IF Q = {} THEN 0 ELSE 1) /\ Cardinality(H) = (IF H = {} THEN 0 ELSE 1)
  BY <1>3, <1>4, FS_EmptySet, FS_Singleton
<1> QED BY <1>0, <1>6, <1>7 DEF Q, H

\* Every submitted task is in one queue, in one hand or done, and in no two of them: no
\* interleaving of pops, steals and pushes loses a task or runs it twice.
THEOREM EveryTaskOnce == Spec => []EachTaskOnce
BY PlacedOnce, PoolInvInit, PoolInvStep, PTL DEF Spec

LEMMA Settled == PoolInv => SettledAfterJoin
<1> SUFFICES ASSUME PoolInv, dtor = "done"
             PROVE  /\ \A c \in Clients, i \in 0 .. TasksEach - 1 :
                         phase[c] = "left" => <<c, i>> \in ready
                    /\ submitted = Cardinality(Tasks)
                    /\ completed = Cardinality(ready)
  BY DEF SettledAfterJoin
<1>1. /\ \A c \in Clients : phase[c] \in {"left", "dropped"} /\ sent[c] = TasksEach
      /\ \A w \in Workers : at[w] = "gone"
  BY DEF PoolInv, LeftInStep, ClientsInStep
<1>2. Completing = {} /\ Counting = {} /\ Sent = Tasks
  <2>1. \A t \in Tasks : t[1] \in Clients /\ t[2] < TasksEach
    BY WorkStealingAssumption DEF Tasks
  <2> QED BY <2>1, <1>1 DEF Completing, Counting, Sent
<1>3. Cardinality(Completing) = 0 /\ Cardinality(Counting) = 0
  BY <1>2, FS_EmptySet
<1>4. submitted = Cardinality(Sent) /\ completed = Cardinality(ready)
  BY <1>3 DEF PoolInv, PoolTypeOK, CountersInStep
<1> QED BY <1>2, <1>4 DEF PoolInv, LeftInStep

\* After the destructor's join whatever a client waited for has run, and the two
\* statistics are exact.
THEOREM SettledWhenJoined == Spec => []SettledAfterJoin
BY Settled, PoolInvInit, PoolInvStep, PTL DEF Spec

\* No worker ever runs a task that has run before, and what has run stays done.
THEOREM NeverRunTwice ==
  Spec => [][/\ \A w \in Workers : RunTask(w) => hand[w] \in Tasks /\ hand[w] \notin ready
             /\ ready \subseteq ready']_vars
<1>1. PoolInv /\ Next => ready \subseteq ready'
  BY DEF Next, Client, ChooseQueue, Push, CountSubmitted, NotifyAll, Await,
         Worker, PopOwn, OwnEmpty, Steal, VictimEmpty, RunTask, CountCompleted, CheckStop,
         CheckPredicate, Block, TimeOut, StopPool, Destroy, NotifyStop, Join,
         workerVars, clientVars, dtorVars
<1>2. PoolInv => \A w \in Workers : RunTask(w) => hand[w] \in Tasks /\ hand[w] \notin ready
  BY PlacesRun
<1> QED BY <1>1, <1>2, PoolInvInit, PoolInvStep, PTL DEF Spec
=============================================================================
