--------------------------- MODULE ProgramsProofs ---------------------------
(***************************************************************************)
(* What is proved of the programs around the codec: the search of          *)
(* QuantSearch for any number of steps and any errors; the ROS 2 bridge of *)
(* PoseBridge, over the C ABI of CApi, for any size of a batch, any depth  *)
(* of the topic, and any number of poses and faults; the tool of           *)
(* CommandLine, for any texts, any limits of its own and any codecs.       *)
(***************************************************************************)
EXTENDS PoseBridge, CommandLine, FiniteSetTheorems, SequenceTheorems, WellFoundedInduction,
        TLAPS

-----------------------------------------------------------------------------
(* The bridge.                                                              *)

InHand == IF batch = <<>> THEN <<>> ELSE batch[1].poses

Pending(happened) == IF happened THEN 1 ELSE 0

BridgeTypeOK ==
  /\ unfit \in SUBSET (1 .. MaxPoses)
  /\ received \in Nat
  /\ buffer \in Seq(Nat)
  /\ sender \in {"idle", "flush", "call", "down"}
  /\ topic \in Seq([poses : Seq(Nat)])
  /\ batch = <<>> \/ \E b \in [poses : Seq(Nat)] : batch = <<b>>
  /\ republished \in Seq(Nat)
  /\ lost \in SUBSET Nat
  /\ faults \in Nat

Callers == {"compressor", "decompressor"} \union Others
Unextracted == {t \in Callers : call[t].data /\ call[t].result = ""}

\* What a caller will be told, or has been: nothing but what its own call did.
ToldOf(did) == IF did = "ok" THEN "bytes" ELSE IF did = "throws" THEN "CsaError" ELSE "no bytes"

ApiTypeOK ==
  /\ lastError \in [Callers -> {"", "error"}]
  /\ call \in [Callers -> [did : Api!Outcomes \union {"nothing"}, data : BOOLEAN,
                           result : {"", "bytes", "CsaError", "no bytes"}]]
  /\ heap \in Nat

CallInStep(t) ==
  /\ call[t].did = "nothing" => call[t] = Api!NoCall
  /\ call[t].data = (call[t].did = "ok")
  /\ call[t].did # "nothing" /\ call[t].result = "" =>
       (lastError[t] = "error" <=> call[t].did = "throws")
  /\ call[t].result # "" => call[t].result = ToldOf(call[t].did)

ApiInStep ==
  /\ ApiTypeOK
  /\ \A t \in Callers : CallInStep(t)
  /\ heap = Cardinality(Unextracted)

\* Each node is in a call exactly while it has a batch to put through it.
CallsInStep ==
  /\ sender = "call" <=> call["compressor"].did # "nothing"
  /\ batch # <<>> <=> call["decompressor"].did # "nothing"
  /\ call["compressor"].did # "empty" /\ call["decompressor"].did # "empty"
  /\ batch # <<>> /\ InHand = <<>> => call["decompressor"].did = "throws"

SizesInStep ==
  /\ Len(buffer) <= BatchSize
  /\ sender = "idle" => Len(buffer) < BatchSize
  /\ sender = "down" => buffer = <<>>
  /\ \A i \in DOMAIN topic : Len(topic[i].poses) <= BatchSize
  /\ Len(InHand) <= BatchSize

Batches == [poses : Seq(Nat)]
PosesIn(q) == UNION {Elements(q[i].poses) : i \in DOMAIN q}
Placed(r, h, q, b) == Elements(r) \union Elements(h) \union PosesIn(q) \union Elements(b)

Increasing(s) == \A i, j \in DOMAIN s : i < j => s[i] < s[j]
Below(s, t) == \A i \in DOMAIN s, j \in DOMAIN t : s[i] < t[j]

\* Poses on their way, the furthest first, are in the order they came.
Ordered(r, h, q, b) ==
  /\ Increasing(r) /\ Increasing(h) /\ Increasing(b)
  /\ Below(r, h) /\ Below(r, b) /\ Below(h, b)
  /\ \A i \in DOMAIN q :
       /\ Increasing(q[i].poses)
       /\ Below(r, q[i].poses) /\ Below(h, q[i].poses) /\ Below(q[i].poses, b)
       /\ \A j \in DOMAIN q : i < j => Below(q[i].poses, q[j].poses)

InOrder == Ordered(republished, InHand, topic, buffer)

\* What is lost is nowhere else, and what is not lost is somewhere.
Underway == Placed(republished, InHand, topic, buffer)

AllSomewhere ==
  /\ Underway \intersect lost = {}
  /\ Underway \union lost = 1 .. received

\* A fault that was counted pays for the batch it is about to lose, and an unfit pose
\* that was lost for the batch it was lost with.
Owed == Pending(sender = "call" /\ call["compressor"].did # "ok")
        + Pending(InHand # <<>> /\ call["decompressor"].did # "ok")

LossesPaid ==
  Cardinality(lost) + BatchSize * Owed <= BatchSize * (faults + Cardinality(unfit \intersect lost))

BridgeInv ==
  /\ BridgeTypeOK /\ ApiInStep /\ CallsInStep /\ SizesInStep /\ InOrder
  /\ AllSomewhere /\ LossesPaid
-----------------------------------------------------------------------------
(* Calls of the ABI, by whichever thread.                                   *)

LEMMA CallersFinite ==
  /\ IsFiniteSet(Callers)
  /\ \A S \in SUBSET Callers : IsFiniteSet(S) /\ Cardinality(S) \in Nat
<1>1. IsFiniteSet({"compressor"})
  BY FS_Singleton
<1>2. IsFiniteSet({"compressor"} \union {"decompressor"})
  BY <1>1, FS_AddElement
<1>3. IsFiniteSet(Others)
  BY BridgeAssumption
<1>4. Callers = ({"compressor"} \union {"decompressor"}) \union Others
  BY DEF Callers
<1>5. IsFiniteSet(Callers)
  BY <1>2, <1>3, <1>4, FS_Union
<1> QED BY <1>5, FS_Subset, FS_CardinalityType

LEMMA ApiCall ==
  ASSUME ApiInStep, NEW t \in Callers, NEW outcome \in Api!Outcomes, Api!Call(t, outcome)
  PROVE  /\ ApiInStep'
         /\ call[t].did = "nothing" /\ call'[t].did = outcome
         /\ \A u \in Callers \ {t} : call'[u] = call[u]
<1>1. ApiTypeOK /\ heap = Cardinality(Unextracted) /\ \A u \in Callers : CallInStep(u)
  BY DEF ApiInStep
<1>2. /\ call[t] = Api!NoCall
      /\ call' = [call EXCEPT ![t] = [did |-> outcome, data |-> outcome = "ok", result |-> ""]]
      /\ outcome = "throws" => lastError' = [lastError EXCEPT ![t] = "error"] /\ heap' = heap
      /\ outcome # "throws" => /\ lastError' = [lastError EXCEPT ![t] = ""]
                               /\ heap' = heap + IF outcome = "ok" THEN 1 ELSE 0
  BY DEF Api!Call, Api!Fail, Api!MakeBuffer
<1>3. /\ call'[t].did = outcome /\ call'[t].data = (outcome = "ok") /\ call'[t].result = ""
      /\ \A u \in Callers \ {t} : call'[u] = call[u] /\ lastError'[u] = lastError[u]
  BY <1>1, <1>2 DEF ApiTypeOK
<1>4. /\ outcome = "throws" => lastError'[t] = "error"
      /\ outcome # "throws" => lastError'[t] = ""
  BY <1>1, <1>2 DEF ApiTypeOK
<1>5. /\ heap' \in Nat
      /\ outcome = "ok" => heap' = heap + 1
      /\ outcome # "ok" => heap' = heap
  <2>1. heap \in Nat
    BY <1>1 DEF ApiTypeOK
  <2>2. outcome = "ok" => heap' = heap + 1
    BY <1>2
  <2>3. outcome # "ok" => heap' = heap + 0 \/ heap' = heap
    BY <1>2
  <2> QED BY <2>1, <2>2, <2>3
<1>6. ApiTypeOK'
  <2>1. [did |-> outcome, data |-> outcome = "ok", result |-> ""]
          \in [did : Api!Outcomes \union {"nothing"}, data : BOOLEAN,
              result : {"", "bytes", "CsaError", "no bytes"}]
    OBVIOUS
  <2>2. call' \in [Callers -> [did : Api!Outcomes \union {"nothing"}, data : BOOLEAN,
                              result : {"", "bytes", "CsaError", "no bytes"}]]
    BY <1>1, <1>2, <2>1 DEF ApiTypeOK
  <2>3. lastError' \in [Callers -> {"", "error"}]
    BY <1>1, <1>2 DEF ApiTypeOK
  <2> QED BY <2>2, <2>3, <1>5 DEF ApiTypeOK
<1>7. call[t].data = FALSE /\ call[t].did = "nothing"
  <2>1. Api!NoCall.data = FALSE /\ Api!NoCall.did = "nothing"
    BY DEF Api!NoCall
  <2> QED BY <1>2, <2>1
<1>8. heap' = Cardinality(Unextracted')
  <2>0. /\ Unextracted \in SUBSET Callers /\ t \notin Unextracted
        /\ IsFiniteSet(Unextracted) /\ Cardinality(Unextracted) \in Nat
    BY CallersFinite, <1>7 DEF Unextracted
  <2>1. CASE outcome = "ok"
    <3>1. Unextracted' = Unextracted \union {t}
      BY <1>3, <2>1 DEF Unextracted
    <3>2. Cardinality(Unextracted') = Cardinality(Unextracted) + 1
      BY <3>1, <2>0, FS_AddElement
    <3> QED BY <3>2, <2>1, <1>1, <1>5
  <2>2. CASE outcome # "ok"
    <3>1. Unextracted' = Unextracted
      BY <1>3, <2>0, <2>2 DEF Unextracted
    <3> QED BY <3>1, <2>2, <1>1, <1>5
  <2> QED BY <2>1, <2>2
<1>9. ASSUME NEW u \in Callers PROVE CallInStep(u)'
  <2>1. outcome # "nothing"
    BY DEF Api!Outcomes
  <2>2. CASE u = t
    BY <1>3, <1>4, <2>1, <2>2 DEF CallInStep
  <2>3. CASE u # t
    <3>1. call'[u] = call[u] /\ lastError'[u] = lastError[u]
      BY <1>3, <2>3
    <3> QED BY <3>1, <1>1 DEF CallInStep
  <2> QED BY <2>2, <2>3
<1> QED BY <1>3, <1>6, <1>7, <1>8, <1>9 DEF ApiInStep

LEMMA MinusZero == \A n \in Nat : n - 0 = n
OBVIOUS

LEMMA ApiExtract ==
  ASSUME ApiInStep, NEW t \in Callers, Api!Extract(t)
  PROVE  /\ ApiInStep'
         /\ call[t].did # "nothing"
         /\ \A u \in Callers : call'[u].did = call[u].did
<1> DEFINE told == IF call[t].data THEN "bytes"
                   ELSE IF lastError[t] # "" THEN "CsaError" ELSE "no bytes"
<1>1. ApiTypeOK /\ heap = Cardinality(Unextracted) /\ \A u \in Callers : CallInStep(u)
  BY DEF ApiInStep
<1>2. /\ call[t].did # "nothing" /\ call[t].result = ""
      /\ call' = [call EXCEPT ![t].result = told]
      /\ heap' = heap - IF call[t].data THEN 1 ELSE 0
      /\ lastError' = lastError
  BY DEF Api!Extract
<1>3. told = ToldOf(call[t].did)
  <2>1. /\ call[t].data = (call[t].did = "ok")
        /\ lastError[t] = "error" <=> call[t].did = "throws"
        /\ lastError[t] \in {"", "error"}
    BY <1>1, <1>2 DEF CallInStep, ApiTypeOK
  <2> QED BY <2>1 DEF ToldOf
<1> HIDE DEF told
<1>4. PICK word \in {"bytes", "CsaError", "no bytes"} : word = told
  BY DEF told
<1>5. /\ call'[t].did = call[t].did /\ call'[t].data = call[t].data /\ call'[t].result = word
      /\ \A u \in Callers \ {t} : call'[u] = call[u]
  BY <1>1, <1>2, <1>4 DEF ApiTypeOK
<1>6. call' \in [Callers -> [did : Api!Outcomes \union {"nothing"}, data : BOOLEAN,
                             result : {"", "bytes", "CsaError", "no bytes"}]]
  BY <1>1, <1>2, <1>4 DEF ApiTypeOK
<1>7. heap' = Cardinality(Unextracted') /\ heap' \in Nat
  <2>0. /\ Unextracted \in SUBSET Callers
        /\ IsFiniteSet(Unextracted) /\ Cardinality(Unextracted) \in Nat
    BY CallersFinite DEF Unextracted
  <2>1. CASE call[t].data
    <3>1. Unextracted' = Unextracted \ {t} /\ t \in Unextracted
      BY <1>2, <1>5, <2>1 DEF Unextracted
    <3>2. Cardinality(Unextracted') = Cardinality(Unextracted) - 1
      BY <3>1, <2>0, FS_RemoveElement
    <3>3. Cardinality(Unextracted') \in Nat
      BY <3>1, <2>0, CallersFinite
    <3>4. heap' = heap - 1
      BY <1>2, <2>1
    <3> QED BY <3>2, <3>3, <3>4, <1>1
  <2>2. CASE ~ call[t].data
    <3>1. Unextracted' = Unextracted
      BY <1>5, <2>2 DEF Unextracted
    <3>2. heap' = heap - 0
      BY <1>2, <2>2
    <3>3. heap \in Nat /\ heap = Cardinality(Unextracted)
      BY <1>1 DEF ApiTypeOK
    <3>4. heap' = heap
      BY <3>2, <3>3, MinusZero
    <3> QED BY <3>1, <3>3, <3>4
  <2> QED BY <2>1, <2>2
<1>8. ASSUME NEW u \in Callers PROVE CallInStep(u)'
  <2>1. CASE u = t
    <3>1. CallInStep(t)
      BY <1>1
    <3>2. call'[t].result # "" /\ call'[t].result = ToldOf(call'[t].did)
      BY <1>3, <1>4, <1>5
    <3>3. call'[t].data = (call'[t].did = "ok") /\ call'[t].did # "nothing"
      BY <1>2, <1>5, <3>1 DEF CallInStep
    <3> QED BY <3>2, <3>3, <2>1 DEF CallInStep
  <2>2. CASE u # t
    <3>1. call'[u] = call[u] /\ lastError'[u] = lastError[u]
      BY <1>2, <1>5, <2>2
    <3> QED BY <3>1, <1>1 DEF CallInStep
  <2> QED BY <2>1, <2>2
<1>9. \A u \in Callers : call'[u].did = call[u].did
  BY <1>5
<1>10. ApiTypeOK'
  BY <1>1, <1>2, <1>6, <1>7 DEF ApiTypeOK
<1> QED BY <1>2, <1>7, <1>8, <1>9, <1>10 DEF ApiInStep

LEMMA ApiReturn ==
  ASSUME ApiInStep, NEW t \in Callers, Api!Return(t)
  PROVE  /\ ApiInStep'
         /\ call[t].did # "nothing" /\ call[t].result = ToldOf(call[t].did)
         /\ call'[t].did = "nothing"
         /\ \A u \in Callers \ {t} : call'[u] = call[u]
<1>1. ApiTypeOK /\ heap = Cardinality(Unextracted) /\ \A u \in Callers : CallInStep(u)
  BY DEF ApiInStep
<1>2. /\ call[t].result # ""
      /\ call' = [call EXCEPT ![t] = Api!NoCall]
      /\ heap' = heap /\ lastError' = lastError
  BY DEF Api!Return
<1>3. /\ Api!NoCall.did = "nothing" /\ Api!NoCall.data = FALSE /\ Api!NoCall.result = ""
      /\ Api!NoCall \in [did : Api!Outcomes \union {"nothing"}, data : BOOLEAN,
                         result : {"", "bytes", "CsaError", "no bytes"}]
  BY DEF Api!NoCall
<1>4. /\ call'[t] = Api!NoCall
      /\ \A u \in Callers \ {t} : call'[u] = call[u]
  BY <1>1, <1>2 DEF ApiTypeOK
<1>5. ApiTypeOK'
  BY <1>1, <1>2, <1>3 DEF ApiTypeOK
<1>6. Unextracted' = Unextracted
  BY <1>2, <1>3, <1>4 DEF Unextracted
<1>7. ASSUME NEW u \in Callers PROVE CallInStep(u)'
  <2>1. CASE u = t
    <3>1. call'[u] = Api!NoCall
      BY <1>4, <2>1
    <3> QED BY <3>1, <1>3 DEF CallInStep
  <2>2. CASE u # t
    <3>1. call'[u] = call[u] /\ lastError'[u] = lastError[u]
      BY <1>2, <1>4, <2>2
    <3> QED BY <3>1, <1>1 DEF CallInStep
  <2> QED BY <2>1, <2>2
<1>8. call[t].did # "nothing" /\ call[t].result = ToldOf(call[t].did)
  BY <1>1, <1>2, <1>3 DEF CallInStep
<1> QED BY <1>1, <1>2, <1>3, <1>4, <1>5, <1>6, <1>7, <1>8 DEF ApiInStep

LEMMA OwnErrorSeen == ApiInStep => CallerSeesOwnError
<1> SUFFICES ASSUME ApiInStep PROVE CallerSeesOwnError
  OBVIOUS
<1>1. \A t \in Callers : call[t].result # "" =>
        (call[t].result = "CsaError" <=> call[t].did = "throws")
  BY DEF ApiInStep, CallInStep, ToldOf
<1>2. heap = 0 <=> Unextracted = {}
  BY CallersFinite, FS_EmptySet DEF ApiInStep, Unextracted
<1>3. Unextracted = {} <=> \A t \in Callers : call[t].data => call[t].result # ""
  BY DEF Unextracted
<1> QED BY <1>1, <1>2, <1>3 DEF CallerSeesOwnError, Api!CallerSeesOwnError, Callers
-----------------------------------------------------------------------------
(* Batches of poses and their order.                                        *)

LEMMA ElementsOf ==
  ASSUME NEW s \in Seq(Nat)
  PROVE  /\ \A x : x \in Elements(s) <=> \E i \in 1 .. Len(s) : x = s[i]
         /\ Elements(s) \subseteq Nat
         /\ IsFiniteSet(Elements(s)) /\ Cardinality(Elements(s)) \in Nat
         /\ Cardinality(Elements(s)) <= Len(s)
<1>1. /\ \A x : x \in Elements(s) <=> \E i \in 1 .. Len(s) : x = s[i]
      /\ Elements(s) \subseteq Nat
  BY DEF Elements
<1>2. s \in Surjection(1 .. Len(s), Elements(s))
  BY <1>1 DEF Surjection
<1>3. IsFiniteSet(1 .. Len(s)) /\ Cardinality(1 .. Len(s)) = Len(s)
  <2>1. Len(s) \in Nat
    OBVIOUS
  <2>2. /\ IsFiniteSet(1 .. Len(s))
        /\ Cardinality(1 .. Len(s)) = IF 1 > Len(s) THEN 0 ELSE Len(s) - 1 + 1
    BY <2>1, FS_Interval
  <2> QED BY <2>1, <2>2
<1>4. IsFiniteSet(Elements(s)) /\ Cardinality(Elements(s)) <= Cardinality(1 .. Len(s))
  BY <1>2, <1>3, FS_Surjection
<1>5. Cardinality(Elements(s)) \in Nat
  BY <1>4, FS_CardinalityType
<1> QED BY <1>1, <1>3, <1>4, <1>5

LEMMA ElementsNone == Elements(<<>>) = {}
BY DEF Elements

LEMMA ElementsAppend ==
  ASSUME NEW s \in Seq(Nat), NEW e \in Nat
  PROVE  Elements(Append(s, e)) = Elements(s) \union {e}
<1>1. Append(s, e) \in Seq(Nat) /\ Len(Append(s, e)) = Len(s) + 1 /\ Len(s) \in Nat
  OBVIOUS
<1>2. \A i \in 1 .. Len(s) : Append(s, e)[i] = s[i]
  OBVIOUS
<1>3. Append(s, e)[Len(s) + 1] = e
  OBVIOUS
<1>4. \A x : x \in Elements(Append(s, e)) <=> x \in Elements(s) \/ x = e
  <2>1. ASSUME NEW x \in Elements(Append(s, e)) PROVE x \in Elements(s) \/ x = e
    <3>1. PICK i \in 1 .. Len(s) + 1 : x = Append(s, e)[i]
      BY <1>1, ElementsOf
    <3>2. i \in 1 .. Len(s) \/ i = Len(s) + 1
      BY <1>1
    <3> QED BY <3>1, <3>2, <1>2, <1>3, ElementsOf
  <2>2. ASSUME NEW x \in Elements(s) PROVE x \in Elements(Append(s, e))
    <3>1. PICK i \in 1 .. Len(s) : x = s[i]
      BY ElementsOf
    <3>2. i \in 1 .. Len(Append(s, e)) /\ x = Append(s, e)[i]
      BY <1>1, <1>2, <3>1
    <3> QED BY <1>1, <3>2, ElementsOf
  <2>3. e \in Elements(Append(s, e))
    <3>1. Len(s) + 1 \in 1 .. Len(Append(s, e))
      BY <1>1
    <3> QED BY <1>1, <1>3, <3>1, ElementsOf
  <2> QED BY <2>1, <2>2, <2>3
<1> QED BY <1>4

LEMMA ElementsConcat ==
  ASSUME NEW s \in Seq(Nat), NEW t \in Seq(Nat)
  PROVE  /\ s \o t \in Seq(Nat)
         /\ Elements(s \o t) = Elements(s) \union Elements(t)
<1>1. /\ s \o t \in Seq(Nat) /\ Len(s \o t) = Len(s) + Len(t) /\ Len(s) \in Nat /\ Len(t) \in Nat
      /\ \A i \in 1 .. Len(s) + Len(t) : (s \o t)[i] = IF i <= Len(s) THEN s[i] ELSE t[i - Len(s)]
  BY ConcatProperties
<1>2. ASSUME NEW x \in Elements(s \o t) PROVE x \in Elements(s) \/ x \in Elements(t)
  <2>0. PICK i \in 1 .. Len(s \o t) : x = (s \o t)[i]
    BY <1>1, ElementsOf
  <2>1. i \in 1 .. Len(s) + Len(t) /\ x = (s \o t)[i]
    BY <1>1, <2>0
  <2>2. CASE i <= Len(s)
    <3>1. i \in 1 .. Len(s) /\ x = s[i]
      BY <1>1, <2>1, <2>2
    <3> QED BY <3>1, ElementsOf
  <2>3. CASE ~ (i <= Len(s))
    <3>1. i - Len(s) \in 1 .. Len(t) /\ x = t[i - Len(s)]
      BY <1>1, <2>1, <2>3
    <3> QED BY <3>1, ElementsOf
  <2> QED BY <2>2, <2>3
<1>3. ASSUME NEW x \in Elements(s) PROVE x \in Elements(s \o t)
  <2>1. PICK i \in 1 .. Len(s) : x = s[i]
    BY ElementsOf
  <2>2. i \in 1 .. Len(s \o t) /\ x = (s \o t)[i]
    BY <1>1, <2>1
  <2> QED BY <1>1, <2>2, ElementsOf
<1>4. ASSUME NEW x \in Elements(t) PROVE x \in Elements(s \o t)
  <2>1. PICK i \in 1 .. Len(t) : x = t[i]
    BY ElementsOf
  <2>2. Len(s) + i \in 1 .. Len(s \o t) /\ (Len(s) + i) - Len(s) = i /\ ~ (Len(s) + i <= Len(s))
    BY <1>1
  <2>3. x = (s \o t)[Len(s) + i]
    BY <1>1, <2>1, <2>2
  <2> QED BY <1>1, <2>2, <2>3, ElementsOf
<1> QED BY <1>1, <1>2, <1>3, <1>4

\* The first batch of the topic, and the others.
LEMMA TopicTail ==
  ASSUME NEW q \in Seq(Batches), q # <<>>
  PROVE  /\ q[1] \in Batches /\ Tail(q) \in Seq(Batches)
         /\ 1 \in DOMAIN q
         /\ Len(Tail(q)) = Len(q) - 1
         /\ \A i \in DOMAIN Tail(q) : i + 1 \in DOMAIN q /\ i \in Nat /\ Tail(q)[i] = q[i + 1]
         /\ PosesIn(q) = Elements(q[1].poses) \union PosesIn(Tail(q))
<1>1. /\ Len(q) \in Nat \ {0} /\ q[1] \in Batches /\ Tail(q) \in Seq(Batches)
      /\ Len(Tail(q)) = Len(q) - 1 /\ DOMAIN q = 1 .. Len(q) /\ DOMAIN Tail(q) = 1 .. Len(Tail(q))
  OBVIOUS
<1>2. \A i \in 1 .. Len(Tail(q)) : Tail(q)[i] = q[i + 1]
  BY HeadTailProperties
<1>3. \A i \in DOMAIN Tail(q) : i + 1 \in DOMAIN q /\ i \in Nat /\ Tail(q)[i] = q[i + 1]
  BY <1>1, <1>2
<1>4. 1 \in DOMAIN q
  BY <1>1
<1>5. ASSUME NEW x \in PosesIn(q) PROVE x \in Elements(q[1].poses) \/ x \in PosesIn(Tail(q))
  <2>1. PICK i \in DOMAIN q : x \in Elements(q[i].poses)
    BY DEF PosesIn
  <2>2. CASE i # 1
    <3>1. PICK k \in DOMAIN Tail(q) : k + 1 = i
      <4>1. i - 1 \in DOMAIN Tail(q) /\ (i - 1) + 1 = i
        BY <1>1, <2>2
      <4> QED BY <4>1
    <3> QED BY <2>1, <3>1, <1>3 DEF PosesIn
  <2> QED BY <2>1, <2>2
<1>6. Elements(q[1].poses) \subseteq PosesIn(q)
  BY <1>4 DEF PosesIn
<1>7. PosesIn(Tail(q)) \subseteq PosesIn(q)
  BY <1>3 DEF PosesIn
<1> QED BY <1>1, <1>3, <1>4, <1>5, <1>6, <1>7

LEMMA TopicAppend ==
  ASSUME NEW q \in Seq(Batches), NEW s \in Seq(Nat)
  PROVE  LET r == Append(q, [poses |-> s])
         IN  /\ r \in Seq(Batches)
             /\ \A i \in DOMAIN r : \/ i \in DOMAIN q /\ r[i] = q[i]
                                    \/ i = Len(q) + 1 /\ r[i].poses = s
             /\ \A i, j \in DOMAIN r : i < j => i \in DOMAIN q
             /\ PosesIn(r) = PosesIn(q) \union Elements(s)
<1> DEFINE r == Append(q, [poses |-> s])
<1>1. /\ [poses |-> s] \in Batches
      /\ r \in Seq(Batches) /\ Len(r) = Len(q) + 1 /\ Len(q) \in Nat
      /\ DOMAIN r = 1 .. Len(q) + 1 /\ DOMAIN q = 1 .. Len(q)
      /\ \A i \in 1 .. Len(q) : r[i] = q[i]
      /\ r[Len(q) + 1] = [poses |-> s]
  BY DEF Batches
<1> HIDE DEF r
<1>2. \A i \in DOMAIN r : \/ i \in DOMAIN q /\ r[i] = q[i]
                          \/ i = Len(q) + 1 /\ r[i].poses = s
  BY <1>1
<1>3. \A i, j \in DOMAIN r : i < j => i \in DOMAIN q
  BY <1>1
<1>4. PosesIn(r) \subseteq PosesIn(q) \union Elements(s)
  BY <1>2 DEF PosesIn
<1>5. PosesIn(q) \subseteq PosesIn(r)
  <2>1. \A i \in DOMAIN q : i \in DOMAIN r /\ r[i] = q[i]
    BY <1>1
  <2> QED BY <2>1 DEF PosesIn
<1>6. Elements(s) \subseteq PosesIn(r)
  <2>1. Len(q) + 1 \in DOMAIN r /\ r[Len(q) + 1].poses = s
    BY <1>1
  <2> QED BY <2>1 DEF PosesIn
<1>7. PosesIn(r) = PosesIn(q) \union Elements(s)
  BY <1>4, <1>5, <1>6
<1> QED BY <1>1, <1>2, <1>3, <1>7 DEF r

\* What keeps the order: a pose is received, a batch is sent, dropped, taken, given up
\* and published.
LEMMA OrderPose ==
  ASSUME NEW r \in Seq(Nat), NEW h \in Seq(Nat), NEW q \in Seq(Batches), NEW b \in Seq(Nat),
         NEW e \in Nat, Ordered(r, h, q, b), \A x \in Placed(r, h, q, b) : x < e
  PROVE  Ordered(r, h, q, Append(b, e))
<1> DEFINE c == Append(b, e)
<1>1. /\ DOMAIN b = 1 .. Len(b) /\ DOMAIN c = 1 .. Len(b) + 1 /\ Len(b) \in Nat
      /\ \A i \in 1 .. Len(b) : c[i] = b[i]
      /\ c[Len(b) + 1] = e
  OBVIOUS
<1> HIDE DEF c
<1>0. /\ \A j \in DOMAIN c : (j \in DOMAIN b /\ c[j] = b[j]) \/ c[j] = e
      /\ \A i, j \in DOMAIN c : i < j => i \in DOMAIN b /\ c[i] = b[i]
  BY <1>1
<1>2. \A s : (\A i \in DOMAIN s : s[i] < e) /\ Below(s, b) => Below(s, c)
  BY <1>0 DEF Below
<1>3. /\ \A i \in DOMAIN r : r[i] < e
      /\ \A i \in DOMAIN h : h[i] < e
      /\ \A i \in DOMAIN b : b[i] < e
      /\ \A k \in DOMAIN q : \A i \in DOMAIN q[k].poses : q[k].poses[i] < e
  <2>1. \A k \in DOMAIN q : Elements(q[k].poses) \subseteq Placed(r, h, q, b)
    BY DEF Placed, PosesIn
  <2>2. /\ Elements(r) \subseteq Placed(r, h, q, b) /\ Elements(h) \subseteq Placed(r, h, q, b)
        /\ Elements(b) \subseteq Placed(r, h, q, b)
    BY DEF Placed
  <2> QED BY <2>1, <2>2 DEF Elements
<1>4. Increasing(c)
  <2> SUFFICES ASSUME NEW i \in DOMAIN c, NEW j \in DOMAIN c, i < j PROVE c[i] < c[j]
    BY DEF Increasing
  <2>1. i \in DOMAIN b /\ c[i] = b[i]
    BY <1>0
  <2>2. CASE c[j] = e
    BY <2>1, <2>2, <1>3
  <2>3. CASE j \in DOMAIN b /\ c[j] = b[j]
    <3>1. Increasing(b)
      BY DEF Ordered
    <3> QED BY <2>1, <2>3, <3>1 DEF Increasing
  <2> QED BY <1>0, <2>2, <2>3
<1>5. Ordered(r, h, q, c)
  BY <1>2, <1>3, <1>4 DEF Ordered
<1> QED BY <1>5 DEF c

LEMMA OrderNothing ==
  ASSUME NEW r, NEW h, NEW q, NEW b, Ordered(r, h, q, b)
  PROVE  Ordered(r, <<>>, q, b) /\ Ordered(r, h, q, <<>>)
<1>1. \A s : Below(s, <<>>) /\ Below(<<>>, s)
  BY DEF Below
<1>2. Increasing(<<>>)
  BY DEF Increasing
<1> QED BY <1>1, <1>2 DEF Ordered

LEMMA OrderDrop ==
  ASSUME NEW r, NEW h, NEW q \in Seq(Batches), NEW b, q # <<>>, Ordered(r, h, q, b)
  PROVE  Ordered(r, h, Tail(q), b)
<1> DEFINE t == Tail(q)
<1>1. \A i \in DOMAIN t : i + 1 \in DOMAIN q /\ i \in Nat /\ t[i] = q[i + 1]
  BY TopicTail
<1> HIDE DEF t
<1>2. \A i, j \in DOMAIN t : i < j => i + 1 < j + 1
  BY <1>1
<1>3. \A i, j \in DOMAIN t : i < j => Below(t[i].poses, t[j].poses)
  BY <1>1, <1>2 DEF Ordered
<1>4. \A i \in DOMAIN t : /\ Increasing(t[i].poses) /\ Below(r, t[i].poses)
                          /\ Below(h, t[i].poses) /\ Below(t[i].poses, b)
  BY <1>1 DEF Ordered
<1>5. Ordered(r, h, t, b)
  BY <1>3, <1>4 DEF Ordered
<1> QED BY <1>5 DEF t

LEMMA OrderSend ==
  ASSUME NEW r, NEW h, NEW q \in Seq(Batches), NEW b \in Seq(Nat), Ordered(r, h, q, b)
  PROVE  Ordered(r, h, Append(q, [poses |-> b]), <<>>)
<1> DEFINE t == Append(q, [poses |-> b])
<1>1. /\ \A i \in DOMAIN t : \/ i \in DOMAIN q /\ t[i] = q[i]
                             \/ i = Len(q) + 1 /\ t[i].poses = b
      /\ \A i, j \in DOMAIN t : i < j => i \in DOMAIN q
      /\ \A i \in DOMAIN q : i # Len(q) + 1
  <2>1. \A i \in DOMAIN q : i # Len(q) + 1
    OBVIOUS
  <2> QED BY TopicAppend, <2>1
<1> HIDE DEF t
<1>2. \A i \in DOMAIN t : /\ Increasing(t[i].poses) /\ Below(r, t[i].poses) /\ Below(h, t[i].poses)
  BY <1>1 DEF Ordered
<1>3. \A i, j \in DOMAIN t : i < j => Below(t[i].poses, t[j].poses)
  BY <1>1 DEF Ordered
<1>4. \A s : Below(s, <<>>)
  BY DEF Below
<1>5. Increasing(<<>>)
  BY DEF Increasing
<1>6. Ordered(r, h, t, <<>>)
  BY <1>2, <1>3, <1>4, <1>5 DEF Ordered
<1> QED BY <1>6 DEF t

LEMMA OrderTake ==
  ASSUME NEW r, NEW q \in Seq(Batches), NEW b, q # <<>>, Ordered(r, <<>>, q, b)
  PROVE  Ordered(r, q[1].poses, Tail(q), b)
<1>1. Ordered(r, <<>>, Tail(q), b)
  BY OrderDrop
<1>2. 1 \in DOMAIN q
  BY TopicTail
<1>3. /\ Increasing(q[1].poses) /\ Below(r, q[1].poses) /\ Below(q[1].poses, b)
  BY <1>2 DEF Ordered
<1>4. \A i \in DOMAIN Tail(q) : Below(q[1].poses, Tail(q)[i].poses)
  <2>1. \A i \in DOMAIN Tail(q) : i + 1 \in DOMAIN q /\ 1 < i + 1 /\ Tail(q)[i] = q[i + 1]
    <3>1. \A i \in DOMAIN Tail(q) : i \in Nat \ {0}
      BY TopicTail
    <3> QED BY <3>1, TopicTail
  <2> QED BY <2>1, <1>2 DEF Ordered
<1> QED BY <1>1, <1>3, <1>4 DEF Ordered

LEMMA OrderPublish ==
  ASSUME NEW r \in Seq(Nat), NEW h \in Seq(Nat), NEW q \in Seq(Batches), NEW b,
         Ordered(r, h, q, b)
  PROVE  Ordered(r \o h, <<>>, q, b)
<1> DEFINE s == r \o h
<1>1. /\ Len(r) \in Nat /\ Len(h) \in Nat
      /\ DOMAIN r = 1 .. Len(r) /\ DOMAIN h = 1 .. Len(h) /\ DOMAIN s = 1 .. Len(r) + Len(h)
      /\ \A i \in 1 .. Len(r) + Len(h) : s[i] = IF i <= Len(r) THEN r[i] ELSE h[i - Len(r)]
  BY ConcatProperties
<1> HIDE DEF s
<1>2. \A i \in DOMAIN s : \/ i \in DOMAIN r /\ s[i] = r[i]
                          \/ i - Len(r) \in DOMAIN h /\ s[i] = h[i - Len(r)] /\ ~ (i <= Len(r))
  <2> TAKE i \in DOMAIN s
  <2>1. CASE i <= Len(r)
    BY <1>1, <2>1
  <2>2. CASE ~ (i <= Len(r))
    BY <1>1, <2>2
  <2> QED BY <2>1, <2>2
<1>3. \A t : Below(r, t) /\ Below(h, t) => Below(s, t)
  BY <1>2 DEF Below
<1>4. Increasing(s)
  <2> SUFFICES ASSUME NEW i \in DOMAIN s, NEW j \in DOMAIN s, i < j PROVE s[i] < s[j]
    BY DEF Increasing
  <2>1. Increasing(r) /\ Increasing(h) /\ Below(r, h)
    BY DEF Ordered
  <2>2. CASE j \in DOMAIN r /\ s[j] = r[j]
    <3>1. i \in DOMAIN r /\ s[i] = r[i]
      BY <1>1, <2>2
    <3> QED BY <2>1, <2>2, <3>1 DEF Increasing
  <2>3. CASE j - Len(r) \in DOMAIN h /\ s[j] = h[j - Len(r)] /\ i \in DOMAIN r /\ s[i] = r[i]
    BY <2>1, <2>3 DEF Below
  <2>4. CASE /\ j - Len(r) \in DOMAIN h /\ s[j] = h[j - Len(r)]
             /\ i - Len(r) \in DOMAIN h /\ s[i] = h[i - Len(r)]
    <3>1. i - Len(r) < j - Len(r)
      BY <1>1
    <3> QED BY <2>1, <2>4, <3>1 DEF Increasing
  <2> QED BY <1>2, <2>2, <2>3, <2>4
<1>5. \A t : Below(<<>>, t) /\ Increasing(<<>>) /\ Below(t, <<>>)
  BY DEF Below, Increasing
<1>6. Ordered(s, <<>>, q, b)
  BY <1>3, <1>4, <1>5 DEF Ordered
<1> QED BY <1>6 DEF s
-----------------------------------------------------------------------------
(* What a loss costs.                                                       *)

LEMMA Distribute ==
  ASSUME NEW x \in Nat, NEW y \in Nat
  PROVE  /\ BatchSize * x \in Nat
         /\ BatchSize * (x + y) = BatchSize * x + BatchSize * y
         /\ x <= y => BatchSize * x <= BatchSize * y
<1>1. BatchSize \in Nat
  BY BridgeAssumption DEF BridgeAssumption
<1> QED BY <1>1

\* As many batches are lost at once, at most, as faults or unfit poses were counted,
\* and batches ceased to be owed for.
LEMMA Paid ==
  ASSUME NEW c \in Nat, NEW o \in Nat, NEW f \in Nat, BatchSize \in Nat,
         NEW c1 \in Nat, NEW o1 \in Nat, NEW f1 \in Nat, NEW d \in Nat,
         c + BatchSize * o <= BatchSize * f,
         c1 <= c + BatchSize * d,
         o1 + d + f <= o + f1
  PROVE  c1 + BatchSize * o1 <= BatchSize * f1
<1>1. /\ BatchSize * (o1 + d + f) <= BatchSize * (o + f1)
      /\ BatchSize * (o1 + d) \in Nat /\ BatchSize * o1 \in Nat /\ BatchSize * d \in Nat
      /\ BatchSize * f \in Nat /\ BatchSize * o \in Nat /\ BatchSize * f1 \in Nat
  BY Distribute
<1>2. BatchSize * (o1 + d + f) = BatchSize * (o1 + d) + BatchSize * f
  BY Distribute
<1>3. BatchSize * (o1 + d) = BatchSize * o1 + BatchSize * d
  BY Distribute
<1>4. BatchSize * (o + f1) = BatchSize * o + BatchSize * f1
  BY Distribute
<1> QED BY <1>1, <1>2, <1>3, <1>4

LEMMA FiniteLoss ==
  ASSUME NEW n \in Nat, NEW L \in SUBSET (1 .. n)
  PROVE  IsFiniteSet(L) /\ Cardinality(L) \in Nat
<1>1. IsFiniteSet(1 .. n)
  BY FS_Interval
<1> QED BY <1>1, FS_Subset, FS_CardinalityType

LEMMA LoseBatch ==
  ASSUME NEW L, IsFiniteSet(L), NEW s \in Seq(Nat), Len(s) <= BatchSize
  PROVE  /\ IsFiniteSet(L \union Elements(s))
         /\ Cardinality(L) \in Nat /\ Cardinality(L \union Elements(s)) \in Nat
         /\ Cardinality(L \union Elements(s)) <= Cardinality(L) + BatchSize
<1>1. /\ IsFiniteSet(Elements(s)) /\ Cardinality(Elements(s)) \in Nat
      /\ Cardinality(Elements(s)) <= Len(s) /\ Len(s) \in Nat
  BY ElementsOf
<1>2. /\ IsFiniteSet(L \union Elements(s))
      /\ Cardinality(L \union Elements(s))
           = Cardinality(L) + Cardinality(Elements(s)) - Cardinality(L \intersect Elements(s))
  BY <1>1, FS_Union
<1>3. /\ Cardinality(L) \in Nat /\ Cardinality(L \union Elements(s)) \in Nat
  BY <1>2, FS_CardinalityType
<1>4. IsFiniteSet(L \intersect Elements(s))
  BY FS_Intersection
<1>5. Cardinality(L \intersect Elements(s)) \in Nat
  BY <1>4, FS_CardinalityType
<1>6. BatchSize \in Nat
  BY BridgeAssumption DEF BridgeAssumption
<1> QED
  <2> DEFINE a == Cardinality(L) b == Cardinality(Elements(s))
             c == Cardinality(L \intersect Elements(s)) d == Cardinality(L \union Elements(s))
  <2>1. a \in Nat /\ b \in Nat /\ c \in Nat /\ d \in Nat /\ d = a + b - c /\ b <= Len(s)
    BY <1>1, <1>2, <1>3, <1>5
  <2> HIDE DEF a, b, c, d
  <2>2. d <= a + BatchSize
    BY <2>1, <1>1, <1>6
  <2> QED BY <1>2, <1>3, <2>2 DEF a, d

\* The unfit poses that were lost: one more at least when one was lost with its batch.
LEMMA UnfitLost ==
  ASSUME NEW n \in Nat, NEW U, NEW L, NEW M, L \in SUBSET (1 .. n), M \in SUBSET (1 .. n),
         L \subseteq M
  PROVE  /\ Cardinality(U \intersect L) \in Nat /\ Cardinality(U \intersect M) \in Nat
         /\ Cardinality(U \intersect L) <= Cardinality(U \intersect M)
         /\ (\E x \in U \intersect M : x \notin L) =>
              Cardinality(U \intersect L) + 1 <= Cardinality(U \intersect M)
<1>1. /\ IsFiniteSet(U \intersect L) /\ Cardinality(U \intersect L) \in Nat
      /\ IsFiniteSet(U \intersect M) /\ Cardinality(U \intersect M) \in Nat
  <2>1. U \intersect L \in SUBSET (1 .. n) /\ U \intersect M \in SUBSET (1 .. n)
    OBVIOUS
  <2> QED BY <2>1, FiniteLoss
<1>2. U \intersect L \in SUBSET (U \intersect M)
  OBVIOUS
<1>3. /\ Cardinality(U \intersect L) <= Cardinality(U \intersect M)
      /\ Cardinality(U \intersect L) = Cardinality(U \intersect M) =>
           U \intersect L = U \intersect M
  BY <1>1, <1>2, FS_Subset
<1>4. ASSUME \E x \in U \intersect M : x \notin L
      PROVE  Cardinality(U \intersect L) # Cardinality(U \intersect M)
  BY <1>3, <1>4
<1> QED BY <1>1, <1>3, <1>4
-----------------------------------------------------------------------------
(* The steps of the bridge.                                                 *)

LEMMA InvFacts ==
  ASSUME BridgeInv
  PROVE  /\ InHand \in Seq(Nat)
         /\ batch = <<>> => InHand = <<>>
         /\ batch # <<>> => batch[1] \in Batches /\ InHand = batch[1].poses
         /\ topic \in Seq(Batches) /\ buffer \in Seq(Nat) /\ republished \in Seq(Nat)
         /\ received \in Nat /\ faults \in Nat
         /\ lost \in SUBSET (1 .. received)
         /\ IsFiniteSet(lost) /\ Cardinality(lost) \in Nat
         /\ Cardinality(unfit \intersect lost) \in Nat
         /\ Owed \in Nat
         /\ "compressor" \in Callers /\ "decompressor" \in Callers
<1>1. BridgeTypeOK /\ AllSomewhere
  BY DEF BridgeInv
<1>2. /\ batch = <<>> => InHand = <<>>
      /\ batch # <<>> => batch[1] \in Batches /\ InHand = batch[1].poses
  BY <1>1 DEF BridgeTypeOK, InHand, Batches
<1>3. InHand \in Seq(Nat)
  <2>1. CASE batch = <<>>
    BY <1>2, <2>1
  <2>2. CASE batch # <<>>
    BY <1>2, <2>2 DEF Batches
  <2> QED BY <2>1, <2>2
<1>4. topic \in Seq(Batches) /\ received \in Nat
  BY <1>1 DEF BridgeTypeOK, Batches
<1>5. lost \in SUBSET (1 .. received)
  BY <1>1 DEF AllSomewhere
<1>6. IsFiniteSet(lost) /\ Cardinality(lost) \in Nat
  BY <1>4, <1>5, FiniteLoss
<1>7. Cardinality(unfit \intersect lost) \in Nat
  <2>1. unfit \intersect lost \in SUBSET (1 .. received)
    BY <1>5
  <2> QED BY <1>4, <2>1, FiniteLoss
<1>8. Owed \in Nat
  BY DEF Owed, Pending
<1> QED BY <1>1, <1>2, <1>3, <1>4, <1>5, <1>6, <1>7, <1>8 DEF BridgeTypeOK, Callers

\* What was paid for stays so while nothing is lost and nothing more is owed.
LEMMA StillPaid ==
  ASSUME LossesPaid, UNCHANGED <<unfit, lost, faults>>, Owed' = Owed
  PROVE  LossesPaid'
BY DEF LossesPaid

LEMMA PoseKeeps == BridgeInv /\ OnPose => BridgeInv'
<1> SUFFICES ASSUME BridgeInv, OnPose PROVE BridgeInv'
  OBVIOUS
<1>1. /\ sender = "idle" /\ received' = received + 1
      /\ buffer' = Append(buffer, received + 1)
      /\ sender' = IF Len(buffer) + 1 >= BatchSize THEN "flush" ELSE "idle"
      /\ UNCHANGED <<unfit, topic, batch, republished, lost, faults, lastError, call, heap>>
  BY DEF OnPose, api
<1>2. /\ ApiInStep /\ CallsInStep /\ SizesInStep /\ InOrder /\ AllSomewhere /\ LossesPaid
      /\ BridgeTypeOK
  BY DEF BridgeInv
<1>3. buffer \in Seq(Nat) /\ received \in Nat /\ received + 1 \in Nat /\ BatchSize \in Nat
  BY <1>2, BridgeAssumption DEF BridgeTypeOK, BridgeAssumption
<1>4. InHand' = InHand
  BY <1>1 DEF InHand
<1>5. sender' \in {"idle", "flush"}
  BY <1>1
<1>6. Elements(buffer') = Elements(buffer) \union {received + 1}
  BY <1>1, <1>3, ElementsAppend
<1>7. BridgeTypeOK'
  <2>1. buffer' \in Seq(Nat)
    BY <1>1, <1>3
  <2> QED BY <1>1, <1>2, <1>3, <1>5, <2>1 DEF BridgeTypeOK
<1>8. ApiInStep'
  BY <1>1, <1>2 DEF ApiInStep, ApiTypeOK, CallInStep, Unextracted
<1>9. CallsInStep'
  BY <1>1, <1>2, <1>4, <1>5 DEF CallsInStep
<1>10. SizesInStep'
  <2>1. Len(buffer) \in Nat /\ Len(buffer') = Len(buffer) + 1
    BY <1>1, <1>3
  <2>2. Len(buffer) < BatchSize
    BY <1>1, <1>2 DEF SizesInStep
  <2>3. Len(buffer') <= BatchSize /\ (sender' = "idle" => Len(buffer') < BatchSize)
    BY <1>1, <1>3, <2>1, <2>2
  <2> QED BY <1>1, <1>2, <1>4, <1>5, <2>3 DEF SizesInStep
<1>11. InOrder'
  <2>1. \A x \in Underway : x < received + 1
    BY <1>2, <1>3 DEF AllSomewhere
  <2>2. Ordered(republished, InHand, topic, Append(buffer, received + 1))
    BY <1>2, <1>3, <2>1, InvFacts, OrderPose DEF InOrder, Underway
  <2> QED BY <1>1, <1>4, <2>2 DEF InOrder
<1>12. AllSomewhere'
  <2>1. Underway' = Underway \union {received + 1}
    BY <1>1, <1>4, <1>6 DEF Underway, Placed
  <2>2. 1 .. received' = (1 .. received) \union {received + 1} /\ received + 1 \notin 1 .. received
    BY <1>1, <1>3
  <2> QED BY <1>1, <1>2, <2>1, <2>2 DEF AllSomewhere
<1>13. LossesPaid'
  <2>1. Owed' = Owed
    BY <1>1, <1>4, <1>5 DEF Owed
  <2> QED BY <1>1, <1>2, <2>1, StillPaid
<1> QED BY <1>7, <1>8, <1>9, <1>10, <1>11, <1>12, <1>13 DEF BridgeInv

\* The steps that only change what the node does next.
LEMMA TurnKeeps == BridgeInv /\ (OnTimerFlush \/ SenderRestarts) => BridgeInv'
<1> SUFFICES ASSUME BridgeInv, OnTimerFlush \/ SenderRestarts PROVE BridgeInv'
  OBVIOUS
<1>1. /\ sender # "call" /\ sender' \in {"idle", "flush"}
      /\ sender' = "idle" => sender = "down"
      /\ UNCHANGED <<unfit, received, buffer, topic, batch, republished, lost, faults>>
      /\ UNCHANGED <<lastError, call, heap>>
  BY DEF OnTimerFlush, SenderRestarts, api
<1>2. /\ ApiInStep /\ CallsInStep /\ SizesInStep /\ InOrder /\ AllSomewhere /\ LossesPaid
      /\ BridgeTypeOK
  BY DEF BridgeInv
<1>3. InHand' = InHand
  BY <1>1 DEF InHand
<1>4. BridgeTypeOK'
  BY <1>1, <1>2 DEF BridgeTypeOK
<1>5. ApiInStep'
  BY <1>1, <1>2 DEF ApiInStep, ApiTypeOK, CallInStep, Unextracted
<1>6. CallsInStep'
  BY <1>1, <1>2, <1>3 DEF CallsInStep
<1>7. SizesInStep'
  <2>1. sender' = "idle" => Len(buffer') < BatchSize
    <3>1. Len(<<>>) < BatchSize
      BY BridgeAssumption DEF BridgeAssumption
    <3> QED BY <1>1, <1>2, <3>1 DEF SizesInStep
  <2> QED BY <1>1, <1>2, <1>3, <2>1 DEF SizesInStep
<1>8. InOrder' /\ AllSomewhere'
  BY <1>1, <1>2, <1>3 DEF InOrder, AllSomewhere, Underway
<1>9. LossesPaid'
  <2>1. Owed' = Owed
    BY <1>1, <1>3 DEF Owed
  <2> QED BY <1>1, <1>2, <2>1, StillPaid
<1> QED BY <1>4, <1>5, <1>6, <1>7, <1>8, <1>9 DEF BridgeInv

\* A node that ends loses what it had buffered, and nothing else.
LEMMA EndKeeps ==
  ASSUME BridgeInv, SenderEnds
  PROVE  /\ BridgeTypeOK' /\ SizesInStep' /\ InOrder' /\ AllSomewhere'
         /\ Cardinality(lost') \in Nat /\ Cardinality(lost') <= Cardinality(lost) + BatchSize
         /\ lost' \in SUBSET (1 .. received) /\ lost \subseteq lost'
         /\ InHand' = InHand /\ sender' = "down"
         /\ Elements(buffer) \intersect lost = {}
<1>1. /\ sender' = "down" /\ buffer' = <<>>
      /\ lost' = lost \union Elements(buffer)
      /\ UNCHANGED <<unfit, received, topic, batch, republished, faults>>
  BY DEF SenderEnds
<1>2. SizesInStep /\ InOrder /\ AllSomewhere /\ BridgeTypeOK
  BY DEF BridgeInv
<1>3. buffer \in Seq(Nat)
  BY <1>2 DEF BridgeTypeOK
<1>4. InHand' = InHand
  BY <1>1 DEF InHand
<1>5. BridgeTypeOK'
  <2>1. Elements(buffer) \subseteq Nat
    BY <1>3, ElementsOf
  <2>2. <<>> \in Seq(Nat)
    OBVIOUS
  <2> QED BY <1>1, <1>2, <2>1, <2>2 DEF BridgeTypeOK
<1>6. SizesInStep'
  <2>1. Len(<<>>) < BatchSize /\ Len(<<>>) <= BatchSize
    BY BridgeAssumption DEF BridgeAssumption
  <2> QED BY <1>1, <1>2, <1>4, <2>1 DEF SizesInStep
<1>7. InOrder'
  BY <1>1, <1>2, <1>4, OrderNothing DEF InOrder
<1>8. /\ AllSomewhere' /\ lost' \in SUBSET (1 .. received) /\ lost \subseteq lost'
      /\ Elements(buffer) \intersect lost = {}
  <2>1. Underway' = Elements(republished) \union Elements(InHand) \union PosesIn(topic)
    BY <1>1, <1>4, ElementsNone DEF Underway, Placed
  <2>2. Underway = Underway' \union Elements(buffer)
    BY <2>1 DEF Underway, Placed
  <2>3. Elements(buffer) \intersect Underway' = {}
    <3>1. \A x \in Elements(republished), y \in Elements(buffer) : x < y
      BY <1>2 DEF InOrder, Ordered, Below, Elements
    <3>2. \A x \in Elements(InHand), y \in Elements(buffer) : x < y
      BY <1>2 DEF InOrder, Ordered, Below, Elements
    <3>3. \A x \in PosesIn(topic), y \in Elements(buffer) : x < y
      BY <1>2 DEF InOrder, Ordered, Below, Elements, PosesIn
    <3>4. \A y \in Elements(buffer) : ~ (y < y)
      BY <1>3, ElementsOf
    <3> QED BY <2>1, <3>1, <3>2, <3>3, <3>4
  <2> QED BY <1>1, <1>2, <2>2, <2>3 DEF AllSomewhere
<1>9. Cardinality(lost') \in Nat /\ Cardinality(lost') <= Cardinality(lost) + BatchSize
  <2>1. Len(buffer) <= BatchSize
    BY <1>2 DEF SizesInStep
  <2> QED BY <1>1, <1>3, <2>1, InvFacts, LoseBatch
<1> QED BY <1>1, <1>4, <1>5, <1>6, <1>7, <1>8, <1>9

\* One fault more pays for one batch more that is owed for.
LEMMA FaultCounts ==
  ASSUME faults \in Nat, NEW happens \in BOOLEAN, Fault(happens)
  PROVE  /\ faults' \in Nat
         /\ happens => faults' = faults + 1
         /\ ~ happens => faults' = faults
<1>1. CASE happens
  <2>1. faults' = faults + 1
    BY <1>1 DEF Fault
  <2> QED BY <1>1, <2>1
<1>2. CASE ~ happens
  <2>1. faults' = faults + 0
    BY <1>2 DEF Fault
  <2>2. faults' = faults
    BY <2>1
  <2> QED BY <1>2, <2>2
<1> QED BY <1>1, <1>2

LEMMA FlushKeeps ==
  ASSUME BridgeInv, NEW outcome \in Api!Outcomes, Flush(outcome)
  PROVE  BridgeInv'
<1>1. /\ ApiInStep /\ CallsInStep /\ SizesInStep /\ InOrder /\ AllSomewhere /\ LossesPaid
      /\ BridgeTypeOK
  BY DEF BridgeInv
<1>2. sender = "flush" /\ call["compressor"].did = "nothing"
  BY <1>1 DEF Flush, CallsInStep, BridgeTypeOK, ApiInStep
<1>3. CASE Elements(buffer) \intersect unfit # {}
  <2>1. SenderEnds /\ UNCHANGED <<lastError, call, heap>>
    BY <1>3 DEF Flush, api
  <2>2. UNCHANGED <<unfit, received, topic, batch, republished, faults>>
    BY <2>1 DEF SenderEnds
  <2>3. /\ BridgeTypeOK' /\ SizesInStep' /\ InOrder' /\ AllSomewhere'
        /\ Cardinality(lost') \in Nat /\ Cardinality(lost') <= Cardinality(lost) + BatchSize
        /\ lost' \in SUBSET (1 .. received) /\ lost \subseteq lost'
        /\ InHand' = InHand /\ sender' = "down"
        /\ Elements(buffer) \intersect lost = {}
    BY <2>1, EndKeeps
  <2>4. ApiInStep'
    BY <1>1, <2>1 DEF ApiInStep, ApiTypeOK, CallInStep, Unextracted
  <2>5. CallsInStep'
    BY <1>1, <1>2, <2>1, <2>2, <2>3 DEF CallsInStep
  <2>6. Owed' = Owed
    BY <1>2, <2>1, <2>3 DEF Owed
  <2>7. lost' = lost \union Elements(buffer)
    BY <2>1 DEF SenderEnds
  <2>8. \E x \in unfit \intersect lost' : x \notin lost
    BY <1>3, <2>3, <2>7
  <2>9. /\ Cardinality(unfit \intersect lost) \in Nat /\ Cardinality(unfit \intersect lost') \in Nat
        /\ Cardinality(unfit \intersect lost) + 1 <= Cardinality(unfit \intersect lost')
    <3>1. lost \in SUBSET (1 .. received) /\ received \in Nat
      BY InvFacts
    <3> QED BY <2>3, <2>8, <3>1, UnfitLost
  <2>10. LossesPaid'
    <3>1. /\ faults \in Nat /\ Owed \in Nat /\ BatchSize \in Nat /\ Cardinality(lost) \in Nat
      BY InvFacts, BridgeAssumption DEF BridgeAssumption
    <3> DEFINE u == Cardinality(unfit \intersect lost) v == Cardinality(unfit \intersect lost')
    <3>2. u \in Nat /\ v \in Nat /\ u + 1 <= v
      BY <2>9
    <3>3. Cardinality(lost) + BatchSize * Owed <= BatchSize * (faults + u)
      BY <1>1 DEF LossesPaid
    <3> HIDE DEF u, v
    <3>4. faults + u \in Nat /\ faults + v \in Nat /\ Owed + 1 + (faults + u) <= Owed + (faults + v)
      BY <3>1, <3>2
    <3>5. Cardinality(lost') <= Cardinality(lost) + BatchSize * 1
      BY <2>3, <3>1
    <3>6. Cardinality(lost') + BatchSize * Owed <= BatchSize * (faults + v)
      BY <2>3, <3>1, <3>3, <3>4, <3>5, Paid
    <3>7. v = Cardinality(unfit' \intersect lost')
      BY <2>2 DEF v
    <3> QED BY <3>6, <3>7, <2>2, <2>6 DEF LossesPaid
  <2> QED BY <2>3, <2>4, <2>5, <2>10 DEF BridgeInv
<1>4. CASE ~ (Elements(buffer) \intersect unfit # {})
  <2>1. /\ outcome # "empty" /\ Api!Call("compressor", outcome)
        /\ Fault(outcome # "ok") /\ sender' = "call"
        /\ UNCHANGED <<unfit, received, buffer, topic, batch, republished, lost>>
    BY <1>4 DEF Flush, Api!CompressPose
  <2>2. /\ ApiInStep'
        /\ call'["compressor"].did = outcome
        /\ call'["decompressor"] = call["decompressor"]
    BY <1>1, <2>1, ApiCall DEF Callers
  <2>3. /\ faults \in Nat /\ faults' \in Nat
        /\ outcome # "ok" => faults' = faults + 1
        /\ outcome = "ok" => faults' = faults
    BY <2>1, InvFacts, FaultCounts
  <2>4. InHand' = InHand
    BY <2>1 DEF InHand
  <2>5. BridgeTypeOK'
    BY <1>1, <2>1, <2>3 DEF BridgeTypeOK
  <2>6. CallsInStep'
    <3>1. outcome # "nothing"
      BY DEF Api!Outcomes
    <3> QED BY <1>1, <2>1, <2>2, <2>4, <3>1 DEF CallsInStep
  <2>7. SizesInStep'
    BY <1>1, <1>2, <2>1, <2>4 DEF SizesInStep
  <2>8. InOrder' /\ AllSomewhere'
    BY <1>1, <2>1, <2>4 DEF InOrder, AllSomewhere, Underway
  <2>9. LossesPaid'
    <3> DEFINE hand == Pending(InHand # <<>> /\ call["decompressor"].did # "ok")
               u == Cardinality(unfit \intersect lost)
    <3>1. hand \in Nat /\ Owed = 0 + hand
      BY <1>2 DEF Owed, Pending
    <3>2. Owed' = Pending(outcome # "ok") + hand
      BY <2>1, <2>2, <2>4 DEF Owed
    <3>3. Pending(outcome # "ok") = IF outcome # "ok" THEN 1 ELSE 0
      BY DEF Pending
    <3>4. u \in Nat /\ BatchSize \in Nat /\ Cardinality(lost) \in Nat
      BY InvFacts, BridgeAssumption DEF BridgeAssumption
    <3>5. Cardinality(lost) + BatchSize * Owed <= BatchSize * (faults + u)
      BY <1>1 DEF LossesPaid
    <3>6. u = Cardinality(unfit' \intersect lost')
      BY <2>1
    <3> HIDE DEF hand, u
    <3>0. \A m, n \in Nat : m + n \in Nat
      OBVIOUS
    <3>10. faults + u \in Nat /\ faults' + u \in Nat
      BY <2>3, <3>0, <3>4
    <3>7. Owed' \in Nat /\ Owed \in Nat /\ Owed' + 0 + (faults + u) <= Owed + (faults' + u)
      BY <2>3, <3>1, <3>2, <3>3, <3>4
    <3>8. Cardinality(lost) <= Cardinality(lost) + BatchSize * 0
      BY <3>4
    <3>9. Cardinality(lost) + BatchSize * Owed' <= BatchSize * (faults' + u)
      BY <3>4, <3>5, <3>7, <3>8, <3>10, Paid
    <3> QED BY <3>6, <3>9, <2>1 DEF LossesPaid
  <2> QED BY <2>2, <2>5, <2>6, <2>7, <2>8, <2>9 DEF BridgeInv
<1> QED BY <1>3, <1>4

\* A call goes on, and nothing of the nodes changes with it.
LEMMA CallGoesOn ==
  ASSUME BridgeInv, UNCHANGED nodes, ApiInStep',
         call'["compressor"].did = call["compressor"].did,
         call'["decompressor"].did = call["decompressor"].did
  PROVE  BridgeInv'
<1>1. /\ CallsInStep /\ SizesInStep /\ InOrder /\ AllSomewhere /\ LossesPaid /\ BridgeTypeOK
  BY DEF BridgeInv
<1>2. UNCHANGED <<unfit, received, buffer, sender, topic, batch, republished, lost, faults>>
  BY DEF nodes
<1>3. InHand' = InHand
  BY <1>2 DEF InHand
<1>4. BridgeTypeOK'
  BY <1>1, <1>2 DEF BridgeTypeOK
<1>5. CallsInStep'
  BY <1>1, <1>2, <1>3 DEF CallsInStep
<1>6. SizesInStep'
  BY <1>1, <1>2, <1>3 DEF SizesInStep
<1>7. InOrder' /\ AllSomewhere'
  BY <1>1, <1>2, <1>3 DEF InOrder, AllSomewhere, Underway
<1>8. LossesPaid'
  <2>1. Owed' = Owed
    BY <1>2, <1>3 DEF Owed
  <2> QED BY <1>1, <1>2, <2>1, StillPaid
<1> QED BY <1>4, <1>5, <1>6, <1>7, <1>8 DEF BridgeInv

LEMMA ExtractKeeps == BridgeInv /\ (ExtractBlob \/ ExtractPoses) => BridgeInv'
<1> SUFFICES ASSUME BridgeInv, NEW t \in {"compressor", "decompressor"}, Api!Extract(t),
                    UNCHANGED nodes
             PROVE  BridgeInv'
  BY DEF ExtractBlob, ExtractPoses
<1>1. ApiInStep
  BY DEF BridgeInv
<1>2. t \in Callers /\ "compressor" \in Callers /\ "decompressor" \in Callers
  BY DEF Callers
<1>3. ApiInStep' /\ \A u \in Callers : call'[u].did = call[u].did
  BY <1>1, <1>2, ApiExtract
<1> QED BY <1>2, <1>3, CallGoesOn

LEMMA OtherKeeps == BridgeInv /\ OtherCall => BridgeInv'
<1> SUFFICES ASSUME BridgeInv, OtherCall PROVE BridgeInv'
  OBVIOUS
<1>1. ApiInStep
  BY DEF BridgeInv
<1>2. PICK t \in Others : \/ \E outcome \in Api!Outcomes : Api!Call(t, outcome)
                          \/ Api!Extract(t)
                          \/ Api!Return(t)
  BY DEF OtherCall
<1>3. /\ t \in Callers /\ "compressor" \in Callers \ {t}
      /\ "decompressor" \in Callers \ {t}
  BY BridgeAssumption DEF Callers
<1>4. UNCHANGED nodes
  BY DEF OtherCall
<1>5. ApiInStep' /\ \A u \in Callers \ {t} : call'[u].did = call[u].did
  <2>1. CASE \E outcome \in Api!Outcomes : Api!Call(t, outcome)
    BY <1>1, <1>3, <2>1, ApiCall
  <2>2. CASE Api!Extract(t)
    BY <1>1, <1>3, <2>2, ApiExtract
  <2>3. CASE Api!Return(t)
    BY <1>1, <1>3, <2>3, ApiReturn
  <2> QED BY <1>2, <2>1, <2>2, <2>3
<1> QED BY <1>3, <1>4, <1>5, CallGoesOn

\* In order, so in one place at the most.
LEMMA OrderDisjoint ==
  ASSUME NEW r \in Seq(Nat), NEW h \in Seq(Nat), NEW q \in Seq(Batches), NEW b \in Seq(Nat),
         Ordered(r, h, q, b)
  PROVE  /\ Elements(r) \intersect Elements(h) = {} /\ Elements(r) \intersect PosesIn(q) = {}
         /\ Elements(r) \intersect Elements(b) = {} /\ Elements(h) \intersect PosesIn(q) = {}
         /\ Elements(h) \intersect Elements(b) = {} /\ PosesIn(q) \intersect Elements(b) = {}
         /\ q # <<>> => Elements(q[1].poses) \intersect PosesIn(Tail(q)) = {}
<1>1. \A n \in Nat : ~ (n < n)
  OBVIOUS
<1>2. \A s \in Seq(Nat) : \A t : Below(s, t) => Elements(s) \intersect Elements(t) = {}
  <2> SUFFICES ASSUME NEW s \in Seq(Nat), NEW t, Below(s, t)
               PROVE  Elements(s) \intersect Elements(t) = {}
    OBVIOUS
  <2>1. Elements(s) \subseteq Nat
    BY ElementsOf
  <2>2. \A x \in Elements(s), y \in Elements(t) : x < y
    BY DEF Below, Elements
  <2> QED BY <1>1, <2>1, <2>2
<1>3. \A i \in DOMAIN q : q[i].poses \in Seq(Nat)
  <2>1. \A i \in DOMAIN q : q[i] \in Batches
    OBVIOUS
  <2> QED BY <2>1 DEF Batches
<1>4. /\ Below(r, h) /\ Below(r, b) /\ Below(h, b)
      /\ \A i \in DOMAIN q : /\ Below(r, q[i].poses) /\ Below(h, q[i].poses)
                             /\ Below(q[i].poses, b)
                             /\ \A j \in DOMAIN q : i < j => Below(q[i].poses, q[j].poses)
  BY DEF Ordered
<1>5. /\ Elements(r) \intersect PosesIn(q) = {} /\ Elements(h) \intersect PosesIn(q) = {}
      /\ PosesIn(q) \intersect Elements(b) = {}
  <2>1. \A i \in DOMAIN q : /\ Elements(r) \intersect Elements(q[i].poses) = {}
                            /\ Elements(h) \intersect Elements(q[i].poses) = {}
                            /\ Elements(q[i].poses) \intersect Elements(b) = {}
    BY <1>2, <1>3, <1>4
  <2> QED BY <2>1 DEF PosesIn
<1>6. ASSUME q # <<>> PROVE Elements(q[1].poses) \intersect PosesIn(Tail(q)) = {}
  <2>1. /\ 1 \in DOMAIN q
        /\ \A i \in DOMAIN Tail(q) : i + 1 \in DOMAIN q /\ i \in Nat /\ Tail(q)[i] = q[i + 1]
    BY <1>6, TopicTail
  <2>2. \A i \in DOMAIN Tail(q) : 1 < i + 1
    <3>1. \A i \in DOMAIN Tail(q) : i \in Nat \ {0}
      BY <1>6, TopicTail
    <3> QED BY <3>1
  <2>3. \A i \in DOMAIN Tail(q) : Elements(q[1].poses) \intersect Elements(Tail(q)[i].poses) = {}
    BY <1>2, <1>3, <1>4, <2>1, <2>2
  <2> QED BY <2>3 DEF PosesIn
<1> QED BY <1>2, <1>4, <1>5, <1>6

LEMMA LoseMaybe ==
  ASSUME NEW L, IsFiniteSet(L), NEW s \in Seq(Nat), Len(s) <= BatchSize,
         NEW happens \in BOOLEAN, happens \/ s = <<>>
  PROVE  /\ IsFiniteSet(L \union Elements(s))
         /\ Cardinality(L) \in Nat /\ Cardinality(L \union Elements(s)) \in Nat
         /\ Cardinality(L \union Elements(s)) <= Cardinality(L) + BatchSize * Pending(happens)
<1>1. BatchSize \in Nat
  BY BridgeAssumption DEF BridgeAssumption
<1>2. CASE happens
  <2>1. BatchSize * Pending(happens) = BatchSize
    BY <1>1, <1>2 DEF Pending
  <2> QED BY <2>1, LoseBatch
<1>3. CASE ~ happens
  <2>1. BatchSize * Pending(happens) = 0
    BY <1>1, <1>3 DEF Pending
  <2>2. L \union Elements(s) = L
    BY <1>3, ElementsNone
  <2>3. Cardinality(L) \in Nat
    BY FS_CardinalityType
  <2>4. \A n \in Nat : n <= n + 0
    OBVIOUS
  <2>5. Cardinality(L) <= Cardinality(L) + BatchSize * Pending(happens)
    BY <2>1, <2>3, <2>4
  <2> QED BY <2>2, <2>3, <2>5
<1> QED BY <1>2, <1>3

LEMMA MoreUnfit ==
  ASSUME NEW o \in Nat, NEW o1 \in Nat, NEW d \in Nat, NEW f \in Nat, NEW f1 \in Nat,
         NEW u \in Nat, NEW v \in Nat, u <= v, o1 + d + f <= o + f1
  PROVE  f + u \in Nat /\ f1 + v \in Nat /\ o1 + d + (f + u) <= o + (f1 + v)
OBVIOUS

\* Losses that were owed for, or counted as faults, keep LossesPaid.
LEMMA PaysFor ==
  ASSUME BridgeInv, UNCHANGED unfit, NEW d \in Nat, faults' \in Nat, Owed' \in Nat,
         lost \subseteq lost', lost' \in SUBSET (1 .. received),
         Cardinality(lost') <= Cardinality(lost) + BatchSize * d,
         Owed' + d + faults <= Owed + faults'
  PROVE  LossesPaid'
<1> DEFINE u == Cardinality(unfit \intersect lost) v == Cardinality(unfit \intersect lost')
<1>1. /\ faults \in Nat /\ Owed \in Nat /\ BatchSize \in Nat /\ Cardinality(lost) \in Nat
      /\ received \in Nat /\ lost \in SUBSET (1 .. received)
  BY InvFacts, BridgeAssumption DEF BridgeAssumption
<1>2. u \in Nat /\ v \in Nat /\ u <= v
  BY <1>1, UnfitLost
<1>3. Cardinality(lost') \in Nat
  BY <1>1, FiniteLoss
<1>4. Cardinality(lost) + BatchSize * Owed <= BatchSize * (faults + u)
  BY DEF BridgeInv, LossesPaid
<1>5. v = Cardinality(unfit' \intersect lost')
  OBVIOUS
<1> HIDE DEF u, v
<1>7. /\ faults + u \in Nat /\ faults' + v \in Nat
      /\ Owed' + d + (faults + u) <= Owed + (faults' + v)
  BY <1>1, <1>2, MoreUnfit
<1>8. Cardinality(lost') + BatchSize * Owed' <= BatchSize * (faults' + v)
  BY <1>1, <1>3, <1>4, <1>7, Paid
<1> QED BY <1>5, <1>8 DEF LossesPaid

LEMMA BatchKeeps ==
  ASSUME BridgeInv, NEW outcome \in Api!Outcomes, OnBatch(outcome)
  PROVE  BridgeInv'
<1>1. /\ ApiInStep /\ CallsInStep /\ SizesInStep /\ InOrder /\ AllSomewhere /\ LossesPaid
      /\ BridgeTypeOK
  BY DEF BridgeInv
<1> DEFINE first == topic[1]
<1>2. /\ batch = <<>> /\ topic # <<>> /\ batch' = <<first>> /\ topic' = Tail(topic)
      /\ UNCHANGED <<unfit, received, buffer, sender, republished, lost>>
      /\ outcome # "empty" /\ Api!Call("decompressor", outcome)
      /\ \/ first.poses = <<>> /\ outcome = "throws" /\ faults' = faults
         \/ first.poses # <<>> /\ Fault(outcome # "ok")
  BY DEF OnBatch, Api!DecompressPose
<1>3. /\ ApiInStep'
      /\ call["decompressor"].did = "nothing"
      /\ call'["decompressor"].did = outcome
      /\ call'["compressor"] = call["compressor"]
  BY <1>1, <1>2, ApiCall DEF Callers
<1>4. /\ topic \in Seq(Batches) /\ InHand = <<>> /\ faults \in Nat /\ Owed \in Nat
      /\ lost \in SUBSET (1 .. received) /\ Cardinality(lost) \in Nat
      /\ republished \in Seq(Nat) /\ buffer \in Seq(Nat)
  BY <1>2, InvFacts
<1>5. /\ first \in Batches /\ Tail(topic) \in Seq(Batches) /\ 1 \in DOMAIN topic
      /\ \A i \in DOMAIN Tail(topic) : i + 1 \in DOMAIN topic /\ Tail(topic)[i] = topic[i + 1]
      /\ PosesIn(topic) = Elements(first.poses) \union PosesIn(Tail(topic))
  BY <1>2, <1>4, TopicTail
<1>6. InHand' = first.poses
  BY <1>2 DEF InHand
<1>7. Len(first.poses) <= BatchSize
  BY <1>1, <1>5 DEF SizesInStep
<1>8. Ordered(republished, first.poses, Tail(topic), buffer)
  BY <1>1, <1>2, <1>4, OrderTake DEF InOrder
<1>9. PICK b \in Batches : b = first
  BY <1>5
<1> HIDE DEF first
<1>10. /\ faults' \in Nat
       /\ b.poses # <<>> /\ outcome # "ok" => faults' = faults + 1
       /\ b.poses = <<>> \/ outcome = "ok" => faults' = faults
  <2>1. CASE b.poses = <<>>
    BY <1>2, <1>4, <1>9, <2>1
  <2>2. CASE b.poses # <<>>
    BY <1>2, <1>4, <1>9, <2>2, FaultCounts
  <2> QED BY <2>1, <2>2
<1>11. BridgeTypeOK'
  <2>1. batch' = <<b>> /\ b \in [poses : Seq(Nat)]
    BY <1>2, <1>9 DEF Batches
  <2>2. topic' \in Seq([poses : Seq(Nat)])
    BY <1>2, <1>5 DEF Batches
  <2> QED BY <1>1, <1>2, <1>10, <2>1, <2>2 DEF BridgeTypeOK
<1>12. CallsInStep'
  <2>1. batch' # <<>>
    BY <1>2
  <2>2. outcome # "nothing"
    BY DEF Api!Outcomes
  <2>3. InHand' = <<>> => outcome = "throws"
    BY <1>2, <1>6
  <2> QED BY <1>1, <1>2, <1>3, <2>1, <2>2, <2>3 DEF CallsInStep
<1>13. SizesInStep'
  BY <1>1, <1>2, <1>5, <1>6, <1>7 DEF SizesInStep
<1>14. InOrder'
  BY <1>2, <1>6, <1>8 DEF InOrder
<1>15. AllSomewhere'
  <2>1. Underway' = Underway
    BY <1>2, <1>4, <1>5, <1>6, ElementsNone DEF Underway, Placed
  <2> QED BY <1>1, <1>2, <2>1 DEF AllSomewhere
<1>16. LossesPaid'
  <2> DEFINE mine == Pending(sender = "call" /\ call["compressor"].did # "ok")
  <2>1. PICK more \in {0, 1} : more = Pending(b.poses # <<>> /\ outcome # "ok")
    BY DEF Pending
  <2>2. mine \in Nat /\ Owed = mine + 0
    BY <1>4 DEF Owed, Pending
  <2>3. Owed' = mine + more
    BY <1>2, <1>3, <1>6, <1>9, <2>1 DEF Owed
  <2>4. faults' = faults + more
    <3>1. faults = faults + 0
      BY <1>4
    <3> QED BY <1>10, <2>1, <3>1 DEF Pending
  <2> HIDE DEF mine
  <2>5. Owed' \in Nat /\ Owed' + 0 + faults <= Owed + faults'
    <3>1. \A m, k, f \in Nat : m + k \in Nat /\ (m + k) + 0 + f <= (m + 0) + (f + k)
      OBVIOUS
    <3>2. faults \in Nat
      BY <1>4
    <3> QED BY <2>2, <2>3, <2>4, <3>1, <3>2
  <2>6. Cardinality(lost') <= Cardinality(lost) + BatchSize * 0
    <3>1. BatchSize \in Nat
      BY BridgeAssumption DEF BridgeAssumption
    <3>2. BatchSize * 0 = 0
      BY <3>1
    <3> QED BY <1>2, <1>4, <3>2
  <2> QED BY <1>2, <1>4, <1>10, <2>5, <2>6, PaysFor
<1> QED BY <1>3, <1>11, <1>12, <1>13, <1>14, <1>15, <1>16 DEF BridgeInv

LEMMA RepublishKeeps == BridgeInv /\ Republish => BridgeInv'
<1> SUFFICES ASSUME BridgeInv, Republish PROVE BridgeInv'
  OBVIOUS
<1>1. /\ ApiInStep /\ CallsInStep /\ SizesInStep /\ InOrder /\ AllSomewhere /\ LossesPaid
      /\ BridgeTypeOK
  BY DEF BridgeInv
<1>2. /\ topic \in Seq(Batches) /\ InHand \in Seq(Nat) /\ faults \in Nat /\ received \in Nat
      /\ lost \in SUBSET (1 .. received) /\ IsFiniteSet(lost) /\ Cardinality(lost) \in Nat
      /\ republished \in Seq(Nat) /\ buffer \in Seq(Nat)
  BY InvFacts
<1> DEFINE decoded == call["decompressor"].did = "ok"
<1>3. /\ batch # <<>> /\ Api!Return("decompressor")
      /\ batch' = <<>>
      /\ UNCHANGED <<unfit, received, buffer, sender, topic, faults>>
  BY DEF Republish
<1>4. /\ ApiInStep'
      /\ call["decompressor"].result = "bytes" <=> decoded
      /\ call'["decompressor"].did = "nothing"
      /\ call'["compressor"] = call["compressor"]
  <2>1. "decompressor" \in Callers /\ "compressor" \in Callers \ {"decompressor"}
    BY DEF Callers
  <2>2. /\ ApiInStep' /\ call'["decompressor"].did = "nothing"
        /\ call["decompressor"].result = ToldOf(call["decompressor"].did)
        /\ call'["compressor"] = call["compressor"]
    BY <1>1, <1>3, <2>1, ApiReturn
  <2> QED BY <2>2 DEF ToldOf
<1>5. /\ InHand = batch[1].poses /\ InHand' = <<>>
  BY <1>3, InvFacts DEF InHand
<1>6. /\ decoded => republished' = republished \o InHand /\ lost' = lost
      /\ ~ decoded => republished' = republished /\ lost' = lost \union Elements(InHand)
  BY <1>4, <1>5 DEF Republish
<1>7. Elements(InHand) \subseteq Underway
  BY DEF Underway, Placed
<1>8. BridgeTypeOK'
  <2>1. republished' \in Seq(Nat)
    BY <1>2, <1>6, ElementsConcat
  <2>2. lost' \in SUBSET Nat
    BY <1>1, <1>2, <1>6, ElementsOf DEF BridgeTypeOK
  <2> QED BY <1>1, <1>3, <2>1, <2>2 DEF BridgeTypeOK
<1>9. CallsInStep'
  BY <1>1, <1>3, <1>4 DEF CallsInStep
<1>10. SizesInStep'
  <2>1. Len(<<>>) <= BatchSize
    BY BridgeAssumption DEF BridgeAssumption
  <2> QED BY <1>1, <1>3, <1>5, <2>1 DEF SizesInStep
<1>11. InOrder'
  <2>1. CASE decoded
    <3>1. Ordered(republished \o InHand, <<>>, topic, buffer)
      BY <1>1, <1>2, OrderPublish DEF InOrder
    <3> QED BY <2>1, <3>1, <1>3, <1>5, <1>6 DEF InOrder
  <2>2. CASE ~ decoded
    <3>1. Ordered(republished, <<>>, topic, buffer)
      BY <1>1, OrderNothing DEF InOrder
    <3> QED BY <2>2, <3>1, <1>3, <1>5, <1>6 DEF InOrder
  <2> QED BY <2>1, <2>2
<1>12. AllSomewhere'
  <2>1. Underway' = Elements(republished') \union PosesIn(topic) \union Elements(buffer)
    BY <1>3, <1>5, ElementsNone DEF Underway, Placed
  <2>2. Underway = Elements(republished) \union Elements(InHand) \union PosesIn(topic)
                    \union Elements(buffer)
    BY DEF Underway, Placed
  <2>3. CASE decoded
    <3>1. Elements(republished') = Elements(republished) \union Elements(InHand)
      BY <1>2, <1>6, <2>3, ElementsConcat
    <3>2. Underway' = Underway
      BY <2>1, <2>2, <3>1
    <3> QED BY <1>1, <1>3, <1>6, <2>3, <3>2 DEF AllSomewhere
  <2>4. CASE ~ decoded
    <3>1. /\ Elements(InHand) \intersect Elements(republished) = {}
          /\ Elements(InHand) \intersect PosesIn(topic) = {}
          /\ Elements(InHand) \intersect Elements(buffer) = {}
      BY <1>1, <1>2, OrderDisjoint DEF InOrder
    <3>2. Underway' \intersect lost' = {} /\ Underway' \union lost' = Underway \union lost
      BY <1>1, <1>6, <2>1, <2>2, <2>4, <3>1 DEF AllSomewhere
    <3> QED BY <1>1, <1>3, <3>2 DEF AllSomewhere
  <2> QED BY <2>3, <2>4
<1>13. LossesPaid'
  <2> DEFINE mine == Pending(sender = "call" /\ call["compressor"].did # "ok")
             gone == InHand # <<>> /\ ~ decoded
  <2>1. Owed = mine + Pending(gone)
    BY DEF Owed
  <2>2. Owed' = mine + 0
    BY <1>3, <1>4, <1>5 DEF Owed, Pending
  <2>3. mine \in Nat /\ Pending(gone) \in Nat
    BY DEF Pending
  <2>4. Owed' \in Nat /\ Owed' + Pending(gone) + faults' <= Owed + faults'
    <3>1. \A m, k, f \in Nat : m + 0 \in Nat /\ (m + 0) + k + f <= (m + k) + f
      OBVIOUS
    <3>2. faults' \in Nat
      BY <1>2, <1>3
    <3> QED BY <2>1, <2>2, <2>3, <3>1, <3>2
  <2>5. /\ Cardinality(lost') <= Cardinality(lost) + BatchSize * Pending(gone)
        /\ lost \subseteq lost' /\ lost' \in SUBSET (1 .. received)
    <3>1. lost \subseteq lost' /\ lost' \in SUBSET (1 .. received)
      BY <1>1, <1>2, <1>6, <1>7 DEF AllSomewhere
    <3>2. CASE decoded
      <4>1. lost \union Elements(<<>>) = lost' /\ <<>> \in Seq(Nat) /\ Len(<<>>) <= BatchSize
        BY <1>6, <3>2, ElementsNone, BridgeAssumption DEF BridgeAssumption
      <4>2. gone \in BOOLEAN
        OBVIOUS
      <4> HIDE DEF gone
      <4> QED BY <1>2, <3>1, <4>1, <4>2, LoseMaybe
    <3>3. CASE ~ decoded
      <4>1. gone \in BOOLEAN /\ (gone \/ InHand = <<>>) /\ Len(InHand) <= BatchSize
        BY <1>1, <3>3 DEF SizesInStep
      <4>2. lost \union Elements(InHand) = lost'
        BY <1>6, <3>3
      <4> HIDE DEF gone
      <4> QED BY <1>2, <3>1, <4>1, <4>2, LoseMaybe
    <3> QED BY <3>2, <3>3
  <2>6. faults' = faults /\ unfit' = unfit
    BY <1>3
  <2> HIDE DEF gone, mine
  <2> QED BY <1>2, <2>3, <2>4, <2>5, <2>6, PaysFor
<1> QED BY <1>4, <1>8, <1>9, <1>10, <1>11, <1>12, <1>13 DEF BridgeInv

\* A call that failed ends the node, and its fault was counted when it was made.
LEMMA FlushedFails ==
  ASSUME BridgeInv, Flushed, call["compressor"].result = "CsaError"
  PROVE  BridgeInv'
<1>1. /\ ApiInStep /\ CallsInStep /\ SizesInStep /\ InOrder /\ AllSomewhere /\ LossesPaid
      /\ BridgeTypeOK
  BY DEF BridgeInv
<1>2. sender = "call" /\ Api!Return("compressor") /\ SenderEnds
  BY DEF Flushed
<1>3. UNCHANGED <<unfit, received, topic, batch, republished, faults>>
  BY <1>2 DEF SenderEnds
<1>4. /\ ApiInStep' /\ call["compressor"].did # "ok"
      /\ call'["compressor"].did = "nothing"
      /\ call'["decompressor"] = call["decompressor"]
  <2>1. "compressor" \in Callers /\ "decompressor" \in Callers \ {"compressor"}
    BY DEF Callers
  <2>2. /\ ApiInStep' /\ call'["compressor"].did = "nothing"
        /\ call["compressor"].result = ToldOf(call["compressor"].did)
        /\ call'["decompressor"] = call["decompressor"]
    BY <1>1, <1>2, <2>1, ApiReturn
  <2> QED BY <2>2 DEF ToldOf
<1>5. /\ BridgeTypeOK' /\ SizesInStep' /\ InOrder' /\ AllSomewhere'
      /\ Cardinality(lost') <= Cardinality(lost) + BatchSize
      /\ lost' \in SUBSET (1 .. received) /\ lost \subseteq lost'
      /\ InHand' = InHand /\ sender' = "down"
  BY <1>2, EndKeeps
<1>6. CallsInStep'
  BY <1>1, <1>3, <1>4, <1>5 DEF CallsInStep
<1>7. LossesPaid'
  <2> DEFINE hand == Pending(InHand # <<>> /\ call["decompressor"].did # "ok")
  <2>1. hand \in Nat /\ Owed = 1 + hand /\ Owed' = 0 + hand
    BY <1>2, <1>4, <1>5 DEF Owed, Pending
  <2> HIDE DEF hand
  <2>2. faults \in Nat /\ faults' = faults
    BY <1>3, InvFacts
  <2>3. Owed' \in Nat /\ Owed' + 1 + faults <= Owed + faults'
    BY <2>1, <2>2
  <2>4. BatchSize \in Nat /\ BatchSize * 1 = BatchSize
    BY BridgeAssumption DEF BridgeAssumption
  <2>5. Cardinality(lost') <= Cardinality(lost) + BatchSize * 1
    BY <1>5, <2>4
  <2> QED BY <1>3, <1>5, <2>2, <2>3, <2>5, PaysFor
<1> QED BY <1>4, <1>5, <1>6, <1>7 DEF BridgeInv

\* A batch goes to the topic, perhaps an empty one, and perhaps for the oldest there.
LEMMA FlushedSends ==
  ASSUME BridgeInv, Flushed, call["compressor"].result # "CsaError"
  PROVE  BridgeInv'
<1>1. /\ ApiInStep /\ CallsInStep /\ SizesInStep /\ InOrder /\ AllSomewhere /\ LossesPaid
      /\ BridgeTypeOK
  BY DEF BridgeInv
<1>2. /\ topic \in Seq(Batches) /\ InHand \in Seq(Nat) /\ faults \in Nat /\ received \in Nat
      /\ lost \in SUBSET (1 .. received) /\ IsFiniteSet(lost) /\ Cardinality(lost) \in Nat
      /\ republished \in Seq(Nat) /\ buffer \in Seq(Nat)
  BY InvFacts
<1> DEFINE made == call["compressor"].did = "ok"
           full == Len(topic) = QueueDepth
           data == IF made THEN buffer ELSE <<>>
           gone == IF made THEN <<>> ELSE buffer
           dropped == IF full THEN topic[1].poses ELSE <<>>
           rest == IF full THEN Tail(topic) ELSE topic
<1>3. sender = "call" /\ Api!Return("compressor")
  BY DEF Flushed
<1>4. /\ ApiInStep'
      /\ call["compressor"].result = "bytes" <=> made
      /\ call'["compressor"].did = "nothing"
      /\ call'["decompressor"] = call["decompressor"]
  <2>1. "compressor" \in Callers /\ "decompressor" \in Callers \ {"compressor"}
    BY DEF Callers
  <2>2. /\ ApiInStep' /\ call'["compressor"].did = "nothing"
        /\ call["compressor"].result = ToldOf(call["compressor"].did)
        /\ call'["decompressor"] = call["decompressor"]
    BY <1>1, <1>3, <2>1, ApiReturn
  <2> QED BY <2>2 DEF ToldOf
<1>5. /\ sender' = "idle" /\ buffer' = <<>>
      /\ topic' = Append(rest, [poses |-> data])
      /\ lost' = (lost \union (Elements(buffer) \ Elements(data)))
                   \union (IF full THEN Elements(topic[1].poses) ELSE {})
      /\ Fault(full)
      /\ UNCHANGED <<unfit, received, batch, republished>>
  BY <1>4 DEF Flushed
<1>6. /\ data \in Seq(Nat) /\ gone \in Seq(Nat)
      /\ Elements(buffer) = Elements(data) \union Elements(gone)
      /\ Elements(buffer) \ Elements(data) = Elements(gone)
      /\ Len(data) <= BatchSize /\ Len(gone) <= BatchSize
      /\ gone = <<>> \/ ~ made
  <2>1. /\ Len(<<>>) <= BatchSize /\ Len(buffer) <= BatchSize /\ <<>> \in Seq(Nat)
    BY <1>1, BridgeAssumption DEF SizesInStep, BridgeAssumption
  <2>2. CASE made
    BY <1>2, <2>1, <2>2, ElementsNone
  <2>3. CASE ~ made
    BY <1>2, <2>1, <2>3, ElementsNone
  <2> QED BY <2>2, <2>3
<1>7. /\ rest \in Seq(Batches) /\ dropped \in Seq(Nat) /\ Len(dropped) <= BatchSize
      /\ PosesIn(topic) = PosesIn(rest) \union Elements(dropped)
      /\ Elements(dropped) \intersect PosesIn(rest) = {}
      /\ Elements(dropped) = IF full THEN Elements(topic[1].poses) ELSE {}
      /\ Ordered(republished, InHand, rest, buffer)
      /\ \A i \in DOMAIN rest : Len(rest[i].poses) <= BatchSize
      /\ dropped = <<>> \/ full
  <2>1. CASE full
    <3>1. topic # <<>>
      <4>1. QueueDepth # 0 /\ Len(<<>>) = 0
        BY BridgeAssumption DEF BridgeAssumption
      <4> QED BY <2>1, <4>1
    <3>2. rest = Tail(topic) /\ dropped = topic[1].poses
      BY <2>1
    <3> HIDE DEF rest, dropped
    <3>3. /\ topic[1] \in Batches /\ Tail(topic) \in Seq(Batches) /\ 1 \in DOMAIN topic
          /\ \A i \in DOMAIN Tail(topic) : i + 1 \in DOMAIN topic /\ Tail(topic)[i] = topic[i + 1]
          /\ PosesIn(topic) = Elements(topic[1].poses) \union PosesIn(Tail(topic))
      BY <1>2, <3>1, TopicTail
    <3>4. Ordered(republished, InHand, Tail(topic), buffer)
      BY <1>1, <1>2, <3>1, OrderDrop DEF InOrder
    <3>5. Elements(topic[1].poses) \intersect PosesIn(Tail(topic)) = {}
      BY <1>1, <1>2, <3>1, OrderDisjoint DEF InOrder
    <3>6. /\ Len(topic[1].poses) <= BatchSize
          /\ \A i \in DOMAIN Tail(topic) : Len(Tail(topic)[i].poses) <= BatchSize
      BY <1>1, <3>3 DEF SizesInStep
    <3>7. topic[1].poses \in Seq(Nat)
      BY <3>3 DEF Batches
    <3> QED BY <2>1, <3>2, <3>3, <3>4, <3>5, <3>6, <3>7
  <2>2. CASE ~ full
    <3>1. rest = topic /\ dropped = <<>>
      BY <2>2
    <3> HIDE DEF rest, dropped
    <3>2. Len(<<>>) <= BatchSize /\ <<>> \in Seq(Nat)
      BY BridgeAssumption DEF BridgeAssumption
    <3>3. Ordered(republished, InHand, topic, buffer)
      BY <1>1 DEF InOrder
    <3>4. \A i \in DOMAIN topic : Len(topic[i].poses) <= BatchSize
      BY <1>1 DEF SizesInStep
    <3> QED BY <2>2, <3>1, <3>2, <3>3, <3>4, <1>2, ElementsNone
  <2> QED BY <2>1, <2>2
<1>8. lost' = (lost \union Elements(gone)) \union Elements(dropped)
  BY <1>5, <1>6, <1>7
<1>9. InHand' = InHand
  BY <1>5 DEF InHand
<1>10. PICK sent \in Seq(Nat) : sent = data
  BY <1>6
<1>11. Ordered(republished, InHand, Append(rest, [poses |-> sent]), <<>>)
  <2>1. CASE made
    BY <1>2, <1>7, <1>10, <2>1, OrderSend
  <2>2. CASE ~ made
    <3>1. Ordered(republished, InHand, rest, <<>>) /\ sent = <<>>
      BY <1>7, <1>10, <2>2, OrderNothing
    <3> QED BY <1>7, <3>1, OrderSend
  <2> QED BY <2>1, <2>2
<1> HIDE DEF full, data, gone, dropped, rest
<1>12. /\ topic' \in Seq(Batches)
       /\ \A i \in DOMAIN topic' : \/ i \in DOMAIN rest /\ topic'[i] = rest[i]
                                   \/ topic'[i].poses = data
       /\ PosesIn(topic') = PosesIn(rest) \union Elements(data)
  BY <1>5, <1>6, <1>7, TopicAppend
<1>13. /\ faults' \in Nat /\ full \in BOOLEAN /\ faults' = faults + Pending(full)
  <2>1. full \in BOOLEAN
    BY DEF full
  <2>2. faults + 0 = faults
    BY <1>2
  <2> QED BY <1>2, <1>5, <2>1, <2>2, FaultCounts DEF Pending
<1>14. BridgeTypeOK'
  <2>1. lost' \in SUBSET Nat
    BY <1>1, <1>6, <1>7, <1>8, ElementsOf DEF BridgeTypeOK
  <2>2. topic' \in Seq([poses : Seq(Nat)]) /\ <<>> \in Seq(Nat)
    BY <1>12 DEF Batches
  <2> QED BY <1>1, <1>5, <1>13, <2>1, <2>2 DEF BridgeTypeOK
<1>15. CallsInStep'
  BY <1>1, <1>4, <1>5, <1>9 DEF CallsInStep
<1>16. SizesInStep'
  <2>1. Len(<<>>) <= BatchSize /\ Len(<<>>) < BatchSize
    BY BridgeAssumption DEF BridgeAssumption
  <2>2. \A i \in DOMAIN topic' : Len(topic'[i].poses) <= BatchSize
    BY <1>6, <1>7, <1>12
  <2> QED BY <1>1, <1>5, <1>9, <2>1, <2>2 DEF SizesInStep
<1>17. InOrder'
  BY <1>5, <1>9, <1>10, <1>11 DEF InOrder
<1>18. /\ AllSomewhere' /\ lost \subseteq lost' /\ lost' \in SUBSET (1 .. received)
  <2>1. Underway' = Elements(republished) \union Elements(InHand) \union PosesIn(rest)
                     \union Elements(data)
    BY <1>5, <1>9, <1>12, ElementsNone DEF Underway, Placed
  <2>2. Underway = Elements(republished) \union Elements(InHand) \union PosesIn(rest)
                    \union Elements(dropped) \union Elements(data) \union Elements(gone)
    BY <1>6, <1>7 DEF Underway, Placed
  <2>3. /\ Elements(republished) \intersect PosesIn(topic) = {}
        /\ Elements(republished) \intersect Elements(buffer) = {}
        /\ Elements(InHand) \intersect PosesIn(topic) = {}
        /\ Elements(InHand) \intersect Elements(buffer) = {}
        /\ PosesIn(topic) \intersect Elements(buffer) = {}
    BY <1>1, <1>2, OrderDisjoint DEF InOrder
  <2>4. Elements(gone) \intersect Elements(data) = {}
    BY <1>6
  <2>5. /\ Elements(gone) \intersect Underway' = {}
        /\ Elements(dropped) \intersect Underway' = {}
    BY <1>6, <1>7, <2>1, <2>3, <2>4
  <2>6. Underway' \intersect lost' = {} /\ Underway' \union lost' = Underway \union lost
    BY <1>1, <1>8, <2>1, <2>2, <2>5 DEF AllSomewhere
  <2> QED BY <1>1, <1>2, <1>5, <1>8, <2>6 DEF AllSomewhere
<1>19. LossesPaid'
  <2> DEFINE hand == Pending(InHand # <<>> /\ call["decompressor"].did # "ok")
             d == Pending(~ made) + Pending(full)
  <2>1. /\ hand \in Nat /\ Owed = Pending(~ made) + hand /\ Owed' = 0 + hand
        /\ Pending(~ made) \in Nat /\ Pending(full) \in Nat /\ d \in Nat
    BY <1>3, <1>4, <1>5, <1>9 DEF Owed, Pending
  <2>2. Owed' \in Nat /\ Owed' + d + faults <= Owed + faults'
    <3>1. \A h, m, k, f \in Nat : 0 + h \in Nat /\ (0 + h) + (m + k) + f <= (m + h) + (f + k)
      OBVIOUS
    <3> HIDE DEF hand
    <3> QED BY <1>2, <1>13, <2>1, <3>1
  <2>3. Cardinality(lost') <= Cardinality(lost) + BatchSize * d
    <3> DEFINE L == lost \union Elements(gone)
    <3>1. (~ made) \in BOOLEAN
      OBVIOUS
    <3>2. /\ IsFiniteSet(L) /\ Cardinality(L) \in Nat
          /\ Cardinality(L) <= Cardinality(lost) + BatchSize * Pending(~ made)
      BY <1>2, <1>6, <3>1, LoseMaybe
    <3> HIDE DEF L
    <3>3. /\ Cardinality(L \union Elements(dropped)) \in Nat
          /\ Cardinality(L \union Elements(dropped)) <= Cardinality(L) + BatchSize * Pending(full)
      BY <1>7, <1>13, <3>2, LoseMaybe
    <3>4. lost' = L \union Elements(dropped)
      BY <1>8 DEF L
    <3>5. /\ BatchSize * Pending(~ made) \in Nat /\ BatchSize * Pending(full) \in Nat
          /\ BatchSize * d = BatchSize * Pending(~ made) + BatchSize * Pending(full)
      BY <2>1, Distribute
    <3>6. \A a, b, c, x, y \in Nat : b <= a + x /\ c <= b + y => c <= a + (x + y)
      OBVIOUS
    <3> QED BY <1>2, <3>2, <3>3, <3>4, <3>5, <3>6
  <2>4. unfit' = unfit
    BY <1>5
  <2> HIDE DEF d
  <2> QED BY <1>13, <1>18, <2>1, <2>2, <2>3, <2>4, PaysFor
<1> QED BY <1>4, <1>14, <1>15, <1>16, <1>17, <1>18, <1>19 DEF BridgeInv

LEMMA BridgeStarts == BridgeInit => BridgeInv
<1> SUFFICES ASSUME BridgeInit PROVE BridgeInv
  OBVIOUS
<1>1. /\ unfit \in SUBSET (1 .. MaxPoses) /\ received = 0 /\ buffer = <<>> /\ sender = "idle"
      /\ topic = <<>> /\ batch = <<>> /\ republished = <<>> /\ lost = {} /\ faults = 0
  BY DEF BridgeInit
<1>0. /\ lastError = [t \in Callers |-> ""] /\ call = [t \in Callers |-> Api!NoCall] /\ heap = 0
  BY DEF BridgeInit, Api!Init, Callers
<1>2. /\ Api!NoCall.did = "nothing" /\ Api!NoCall.data = FALSE /\ Api!NoCall.result = ""
      /\ Api!NoCall \in [did : Api!Outcomes \union {"nothing"}, data : BOOLEAN,
                         result : {"", "bytes", "CsaError", "no bytes"}]
  BY DEF Api!NoCall
<1>3. BridgeTypeOK
  <2>1. <<>> \in Seq(Nat) /\ <<>> \in Seq([poses : Seq(Nat)]) /\ 0 \in Nat /\ {} \in SUBSET Nat
    OBVIOUS
  <2> QED BY <1>1, <2>1 DEF BridgeTypeOK
<1>4. ApiInStep
  <2>1. Unextracted = {}
    BY <1>0, <1>2 DEF Unextracted
  <2>2. heap = Cardinality(Unextracted)
    BY <1>0, <2>1, FS_EmptySet
  <2>3. ApiTypeOK
    BY <1>0, <1>2 DEF ApiTypeOK
  <2>4. \A t \in Callers : CallInStep(t)
    BY <1>0, <1>2 DEF CallInStep
  <2> QED BY <2>2, <2>3, <2>4 DEF ApiInStep
<1>5. InHand = <<>>
  BY <1>1 DEF InHand
<1>6. CallsInStep
  <2>1. call["compressor"] = Api!NoCall /\ call["decompressor"] = Api!NoCall
    BY <1>0 DEF Callers
  <2> QED BY <1>1, <1>2, <2>1 DEF CallsInStep
<1>7. SizesInStep
  <2>1. Len(<<>>) <= BatchSize /\ Len(<<>>) < BatchSize
    BY BridgeAssumption DEF BridgeAssumption
  <2>2. \A i \in DOMAIN <<>> : FALSE
    OBVIOUS
  <2>3. buffer = <<>> /\ topic = <<>>
    BY <1>1
  <2> QED BY <1>5, <2>1, <2>2, <2>3 DEF SizesInStep
<1>8. InOrder
  <2>1. Ordered(<<>>, <<>>, <<>>, <<>>)
    BY DEF Ordered, Increasing, Below
  <2>2. republished = <<>> /\ topic = <<>> /\ buffer = <<>>
    BY <1>1
  <2> QED BY <1>5, <2>1, <2>2 DEF InOrder
<1>9. AllSomewhere
  <2>1. Underway = {}
    <3>1. PosesIn(<<>>) = {}
      BY DEF PosesIn
    <3>2. republished = <<>> /\ topic = <<>> /\ buffer = <<>>
      BY <1>1
    <3> QED BY <1>5, <3>1, <3>2, ElementsNone DEF Underway, Placed
  <2>2. 1 .. received = {}
    <3>1. received = 0
      BY <1>1
    <3> QED BY <3>1
  <2>3. lost = {}
    BY <1>1
  <2> QED BY <2>1, <2>2, <2>3 DEF AllSomewhere
<1>10. LossesPaid
  <2>1. Owed = 0
    <3>1. sender = "idle"
      BY <1>1
    <3> QED BY <3>1, <1>5 DEF Owed, Pending
  <2>2. Cardinality(lost) = 0 /\ Cardinality(unfit \intersect lost) = 0
    <3>1. lost = {} /\ unfit \intersect lost = {}
      BY <1>1
    <3> QED BY <3>1, FS_EmptySet
  <2>3. BatchSize \in Nat
    BY BridgeAssumption DEF BridgeAssumption
  <2>4. faults = 0
    BY <1>1
  <2> QED BY <2>1, <2>2, <2>3, <2>4 DEF LossesPaid
<1> QED BY <1>3, <1>4, <1>6, <1>7, <1>8, <1>9, <1>10 DEF BridgeInv

LEMMA BridgeStep == BridgeInv /\ [BridgeNext]_bridgeVars => BridgeInv'
<1> SUFFICES ASSUME BridgeInv, [BridgeNext]_bridgeVars PROVE BridgeInv'
  OBVIOUS
<1>1. CASE OnPose
  BY <1>1, PoseKeeps
<1>2. CASE OnTimerFlush \/ SenderRestarts
  BY <1>2, TurnKeeps
<1>3. CASE \E outcome \in Api!Outcomes : Flush(outcome)
  BY <1>3, FlushKeeps
<1>4. CASE Flushed
  BY <1>4, FlushedFails, FlushedSends
<1>5. CASE ExtractBlob \/ ExtractPoses
  BY <1>5, ExtractKeeps
<1>6. CASE \E outcome \in Api!Outcomes : OnBatch(outcome)
  BY <1>6, BatchKeeps
<1>7. CASE Republish
  BY <1>7, RepublishKeeps
<1>8. CASE OtherCall
  BY <1>8, OtherKeeps
<1>9. CASE UNCHANGED bridgeVars
  <2>1. UNCHANGED nodes /\ UNCHANGED <<lastError, call, heap>> /\ ApiInStep
    BY <1>9 DEF bridgeVars, api, BridgeInv
  <2>2. ApiInStep'
    BY <2>1 DEF ApiInStep, ApiTypeOK, CallInStep, Unextracted
  <2> QED BY <2>1, <2>2, CallGoesOn
<1> QED BY <1>1, <1>2, <1>3, <1>4, <1>5, <1>6, <1>7, <1>8, <1>9 DEF BridgeNext, Sender, Receiver

\* The places of PosesAccounted, and what they hold.
LEMMA PlacesHold == BridgeInv => PosesAccounted
<1> SUFFICES ASSUME BridgeInv PROVE PosesAccounted
  OBVIOUS
<1>1. /\ SizesInStep /\ InOrder /\ AllSomewhere /\ LossesPaid
  BY DEF BridgeInv
<1>2. /\ topic \in Seq(Batches) /\ InHand \in Seq(Nat) /\ faults \in Nat /\ received \in Nat
      /\ lost \in SUBSET (1 .. received) /\ Cardinality(lost) \in Nat
      /\ republished \in Seq(Nat) /\ buffer \in Seq(Nat) /\ Owed \in Nat /\ BatchSize \in Nat
  BY InvFacts, BridgeAssumption DEF BridgeAssumption
<1> DEFINE places == <<Elements(buffer), InTopic, InBatch, Elements(republished), lost>>
           b == Elements(buffer)  q == InTopic  h == InBatch  r == Elements(republished)
<1>3. q = PosesIn(topic) /\ h = Elements(InHand)
  BY ElementsNone DEF InTopic, PosesIn, InBatch, InHand
<1>4. /\ b \intersect q = {} /\ b \intersect h = {} /\ b \intersect r = {}
      /\ q \intersect h = {} /\ q \intersect r = {} /\ h \intersect r = {}
  BY <1>1, <1>2, <1>3, OrderDisjoint DEF InOrder
<1>5. /\ b \union q \union h \union r \union lost = 1 .. received
      /\ b \intersect lost = {} /\ q \intersect lost = {}
      /\ h \intersect lost = {} /\ r \intersect lost = {}
  BY <1>1, <1>3 DEF AllSomewhere, Underway, Placed
<1>6. DOMAIN places = 1 .. 5
  OBVIOUS
<1>7. places[1] = b /\ places[2] = q /\ places[3] = h /\ places[4] = r /\ places[5] = lost
  OBVIOUS
<1> HIDE DEF places, b, q, h, r
<1>8. UNION Elements(places) = 1 .. received
  <2>1. Elements(places) = {b, q, h, r, lost}
    <3>1. \A i : i \in DOMAIN places <=> i = 1 \/ i = 2 \/ i = 3 \/ i = 4 \/ i = 5
      BY <1>6
    <3> QED BY <1>7, <3>1 DEF Elements
  <2> QED BY <1>5, <2>1
<1>9. \A i, j \in DOMAIN places : i # j => places[i] \intersect places[j] = {}
  <2>1. \A i \in DOMAIN places : i = 1 \/ i = 2 \/ i = 3 \/ i = 4 \/ i = 5
    BY <1>6
  <2> QED BY <1>4, <1>5, <1>7, <2>1
<1>10. \A i, j \in DOMAIN republished : i < j => republished[i] < republished[j]
  BY <1>1 DEF InOrder, Ordered, Increasing
<1>11. Len(buffer) <= BatchSize
  BY <1>1 DEF SizesInStep
<1>12. Cardinality(lost) <= BatchSize * (faults + Cardinality(unfit \intersect 1 .. received))
  <2> DEFINE u == Cardinality(unfit \intersect lost)
             v == Cardinality(unfit \intersect 1 .. received)
  <2>1. u \in Nat /\ v \in Nat /\ u <= v
    <3>1. 1 .. received \in SUBSET (1 .. received) /\ lost \subseteq 1 .. received
      BY <1>2
    <3> QED BY <1>2, <3>1, UnfitLost
  <2>2. Cardinality(lost) + BatchSize * Owed <= BatchSize * (faults + u)
    BY <1>1 DEF LossesPaid
  <2> HIDE DEF u, v
  <2>3. faults + u \in Nat /\ faults + v \in Nat /\ faults + u <= faults + v
    BY <1>2, <2>1
  <2>4. /\ BatchSize * Owed \in Nat /\ BatchSize * (faults + u) \in Nat
        /\ BatchSize * (faults + v) \in Nat
        /\ BatchSize * (faults + u) <= BatchSize * (faults + v)
    BY <1>2, <2>3, Distribute
  <2>5. \A c, o, x, y \in Nat : c + o <= x /\ x <= y => c <= y
    OBVIOUS
  <2>6. Cardinality(lost) <= BatchSize * (faults + v)
    BY <1>2, <2>2, <2>4, <2>5
  <2> QED BY <2>6 DEF v
<1> QED BY <1>8, <1>9, <1>10, <1>11, <1>12 DEF PosesAccounted, places

\* Everything the proofs of the bridge keep: where each pose is, in which order, and what
\* was lost for which fault.
THEOREM BridgeInvariant == BridgeSpec => []BridgeInv
<1>1. BridgeInit => BridgeInv
  BY BridgeStarts
<1>2. BridgeInv /\ [BridgeNext]_bridgeVars => BridgeInv'
  BY BridgeStep
<1> QED BY <1>1, <1>2, PTL DEF BridgeSpec

\* Every pose the bridge received is in one place, is published again once at the most and
\* in order, and a fault costs one batch: for any size of a batch, any depth of the topic
\* and any number of poses and faults.
THEOREM EveryPoseAccounted == BridgeSpec => []PosesAccounted
<1>1. BridgeInv => PosesAccounted
  BY PlacesHold
<1> QED BY <1>1, BridgeInvariant, PTL

\* Whoever calls the library is told of its own error and of no other's, and every buffer
\* handed out belongs to a call not yet extracted, in every interleaving of the callers.
THEOREM OwnErrors == BridgeSpec => []CallerSeesOwnError
<1>1. BridgeInv => CallerSeesOwnError
  BY OwnErrorSeen DEF BridgeInv
<1> QED BY <1>1, BridgeInvariant, PTL
-----------------------------------------------------------------------------
(* The search for the coarsest step.                                        *)

USE StepsAssumption DEF StepsAssumption
TypeInv ==
  /\ err \in ErrorFunctions /\ budget \in Int
  /\ lo \in Int /\ hi \in Int /\ best \in 0 .. MaxStep
  /\ stage \in {"first", "loop", "done"}

\* While the search goes on: the best step so far is the one below the interval or the
\* first, and what is above the interval is out of the question.
Interval ==
  /\ 1 <= lo /\ lo <= hi /\ hi <= MaxStep
  /\ best = lo - 1 \/ (best = 1 /\ lo = 1)
  /\ Monotone => \A s \in hi + 1 .. MaxStep : err[s] > budget

IInv ==
  /\ TypeInv
  /\ stage = "first" => lo = 1 /\ hi = MaxStep /\ best = 1
  /\ stage = "loop" => Interval /\ err[1] <= budget /\ err[best] <= budget
  /\ LargestWithinBudget

\* The middle of an interval lies in it.
LEMMA MiddleWithin ==
  ASSUME NEW a \in Int, NEW b \in Int, a <= b
  PROVE  /\ a + (b - a) \div 2 \in Int
         /\ a <= a + (b - a) \div 2 /\ a + (b - a) \div 2 <= b
OBVIOUS

\* A search starts with the whole interval.
LEMMA InitInv == SearchInit => IInv
BY DEF SearchInit, ErrorFunctions, IInv, TypeInv, Interval, LargestWithinBudget

\* Nothing of the search before is left in the next one.
LEMMA BeginInv ==
  ASSUME NEW e \in ErrorFunctions, NEW b \in Int, Begin(e, b)
  PROVE  IInv'
BY DEF Begin, ErrorFunctions, IInv, TypeInv, Interval, LargestWithinBudget

\* Comparing the finest step first leaves the whole interval open.
LEMMA FirstInv == IInv /\ First => IInv'
<1> SUFFICES ASSUME IInv, First PROVE IInv'
  OBVIOUS
<1>1. TypeInv'
  BY DEF IInv, First, TypeInv
<1>2. CASE err[1] > budget
  BY <1>1, <1>2 DEF IInv, First, TypeInv, ErrorFunctions, Interval, LargestWithinBudget
<1>3. CASE ~(err[1] > budget)
  <2>1. lo = 1 /\ hi = MaxStep /\ best = 1 /\ stage' = "loop"
    BY <1>3 DEF IInv, First
  <2>2. err[1] <= budget
    BY <1>3 DEF IInv, TypeInv, ErrorFunctions
  <2>3. UNCHANGED <<err, budget, lo, hi, best>>
    BY <1>3 DEF First
  <2>4. Interval'
    BY <2>1, <2>3 DEF Interval, Monotone
  <2> QED
    BY <1>1, <2>1, <2>2, <2>3, <2>4 DEF IInv, LargestWithinBudget
<1> QED
  BY <1>2, <1>3

\* A probe of the middle closes the interval from one side, or ends the search at it.
LEMMA ProbeInv == IInv /\ Probe => IInv'
<1> SUFFICES ASSUME IInv, Probe PROVE IInv'
  OBVIOUS
<1> DEFINE mid == lo + (hi - lo) \div 2
<1>1. /\ lo \in Int /\ hi \in Int /\ best \in Int /\ budget \in Int
      /\ err \in [1 .. MaxStep -> Int] /\ stage = "loop" /\ MaxStep \in Nat
  BY DEF IInv, TypeInv, Probe, ErrorFunctions
<1>2. Interval /\ err[1] <= budget /\ err[best] <= budget
  BY DEF IInv, Probe
<1>3. mid \in Int /\ lo <= mid /\ mid <= hi
  BY <1>1, <1>2, MiddleWithin DEF Interval
<1>4. /\ best' = IF err[mid] <= budget THEN mid ELSE best
      /\ lo' = IF err[mid] <= budget /\ mid # hi THEN mid + 1 ELSE lo
      /\ hi' = IF ~(err[mid] <= budget) /\ mid # lo THEN mid - 1 ELSE hi
      /\ stage' = IF mid = (IF err[mid] <= budget THEN hi ELSE lo) THEN "done" ELSE "loop"
      /\ UNCHANGED <<err, budget>>
  BY DEF Probe
<1> HIDE DEF mid
<1>5. mid \in 1 .. MaxStep /\ err[mid] \in Int
  BY <1>1, <1>2, <1>3 DEF Interval
<1>6. TypeInv'
  BY <1>1, <1>3, <1>4, <1>5 DEF IInv, TypeInv
<1>7. Monotone' <=> Monotone
  BY <1>4 DEF Monotone
<1>8. CASE err[mid] <= budget
  <2>1. best' = mid /\ hi' = hi /\ lo' = (IF mid # hi THEN mid + 1 ELSE lo)
    BY <1>4, <1>8
  <2>2. CASE mid = hi
    <3>1. stage' = "done" /\ best' = hi
      BY <1>4, <1>8, <2>1, <2>2
    <3> QED
      BY <1>1, <1>2, <1>4, <1>5, <1>6, <1>7, <1>8, <2>1, <2>2, <3>1
      DEF IInv, Interval, LargestWithinBudget
  <2>3. CASE mid # hi
    <3>1. stage' = "loop" /\ lo' = mid + 1
      BY <1>4, <1>8, <2>1, <2>3
    <3>2. Interval'
      BY <1>1, <1>2, <1>3, <1>4, <1>5, <1>7, <2>1, <2>3, <3>1 DEF Interval
    <3> QED
      BY <1>1, <1>2, <1>4, <1>6, <1>8, <2>1, <3>1, <3>2
      DEF IInv, Interval, LargestWithinBudget
  <2> QED
    BY <2>2, <2>3
<1>9. CASE ~(err[mid] <= budget)
  <2>1. best' = best /\ lo' = lo /\ hi' = (IF mid # lo THEN mid - 1 ELSE hi)
    BY <1>4, <1>9
  <2>2. err[mid] > budget
    BY <1>1, <1>5, <1>9
  <2>3. Monotone => \A s \in mid .. MaxStep : err[s] > budget
    <3> SUFFICES ASSUME Monotone, NEW s \in mid .. MaxStep PROVE err[s] > budget
      OBVIOUS
    <3>1. s \in 1 .. MaxStep /\ mid <= s /\ err[s] \in Int
      BY <1>1, <1>5
    <3>2. err[mid] <= err[s]
      BY <1>5, <3>1 DEF Monotone
    <3> QED
      BY <1>1, <1>5, <2>2, <3>1, <3>2
  <2>4. CASE mid = lo
    <3>1. stage' = "done"
      BY <1>4, <1>9, <2>4
    <3>2. best = lo - 1 /\ best \in 1 .. MaxStep
      BY <1>1, <1>2, <1>9, <2>4 DEF Interval, IInv, TypeInv, LargestWithinBudget
    <3> QED
      BY <1>1, <1>2, <1>4, <1>5, <1>6, <1>7, <2>1, <2>3, <2>4, <3>1, <3>2
      DEF IInv, LargestWithinBudget
  <2>5. CASE mid # lo
    <3>1. stage' = "loop" /\ hi' = mid - 1
      BY <1>4, <1>9, <2>1, <2>5
    <3>2. hi' + 1 = mid
      BY <1>3, <3>1
    <3>3. Interval'
      BY <1>1, <1>2, <1>3, <1>4, <1>5, <1>7, <2>1, <2>3, <2>5, <3>1, <3>2 DEF Interval
    <3> QED
      BY <1>1, <1>2, <1>4, <1>6, <2>1, <3>1, <3>3
      DEF IInv, Interval, LargestWithinBudget
  <2> QED
    BY <2>4, <2>5
<1> QED
  BY <1>8, <1>9

\* What cmd_optimize writes with the step it was given is within the user's budget, and
\* is the coarsest such step when errors grow with it: for every interval, every
\* budget and every outcome of the measurements.
THEOREM SearchCorrect == SearchSpec => []LargestWithinBudget
<1>1. IInv /\ [SearchNext]_search => IInv'
  <2> SUFFICES ASSUME IInv, [SearchNext]_search PROVE IInv'
    OBVIOUS
  <2>1. CASE First
    BY <2>1, FirstInv
  <2>2. CASE Probe
    BY <2>2, ProbeInv
  <2>3. CASE UNCHANGED search
    BY <2>3 DEF IInv, TypeInv, Interval, Monotone, LargestWithinBudget, search
  <2>4. ASSUME NEW e \in ErrorFunctions, NEW b \in Int, Begin(e, b)
        PROVE  IInv'
    BY <2>4, BeginInv
  <2> QED
    BY <2>1, <2>2, <2>3, <2>4 DEF SearchNext
<1>2. IInv => LargestWithinBudget
  BY DEF IInv
<1> QED
  BY InitInv, <1>1, <1>2, PTL DEF SearchSpec
-----------------------------------------------------------------------------
(* Numbers: powers, and quotients that are rounded.                          *)

\* A set of numbers has a least one.
LEMMA Least ==
  ASSUME NEW S, S \subseteq Nat, S # {}
  PROVE  \E m \in S : \A k \in S : m <= k
<1>1. PICK m \in S : \A k \in S : <<k, m>> \notin OpToRel(<, Nat)
  BY NatLessThanWellFounded, WFMin, Zenon
<1>2. ASSUME NEW k \in S PROVE m <= k
  <2>1. k \in Nat /\ m \in Nat
    OBVIOUS
  <2>2. ~ (k < m)
    BY <1>1, <2>1 DEF OpToRel
  <2> QED BY <2>1, <2>2
<1> QED BY <1>2

\* A set of numbers that has 0, and with each number the next, has all.
LEMMA Climb ==
  ASSUME NEW n \in Nat, NEW S, 0 \in S, \A l \in 1 .. n : l - 1 \in S => l \in S
  PROVE  \A l \in 0 .. n : l \in S
<1> DEFINE Out == {l \in 0 .. n : l \notin S}
<1> SUFFICES ASSUME Out # {} PROVE FALSE
  OBVIOUS
<1>1. PICK m \in Out : \A l \in Out : m <= l
  <2>1. Out \subseteq Nat
    OBVIOUS
  <2> HIDE DEF Out
  <2> QED BY <2>1, Least
<1>2. m \in 1 .. n /\ m - 1 \in 0 .. n /\ ~ (m <= m - 1)
  OBVIOUS
<1>3. m - 1 \in S
  BY <1>1, <1>2
<1> QED BY <1>1, <1>2, <1>3

\* What starts at c and goes from each value to the next by G.
Evolves(f, n, c, G) == f[0] = c /\ \A l \in 1 .. n : f[l] = G[<<l, f[l - 1]>>]

\* A function on 0 .. n may be given by its first value and the step from one value to
\* the next.
LEMMA Evolution ==
  ASSUME NEW n \in Nat, NEW S, NEW c \in S, NEW G \in [(1 .. n) \X S -> S]
  PROVE  \E f \in [0 .. n -> S] : Evolves(f, n, c, G)
<1> DEFINE Upto(m, f) == f \in [0 .. m -> S] /\ f[0] = c
                         /\ \A l \in 1 .. m : f[l] = G[<<l, f[l - 1]>>]
           T == {m \in 0 .. n : \E f : Upto(m, f)}
<1>1. 0 \in T
  <2>1. Upto(0, [l \in 0 .. 0 |-> c])
    OBVIOUS
  <2> HIDE DEF Upto
  <2> QED BY <2>1
<1>2. ASSUME NEW m \in 1 .. n, m - 1 \in T PROVE m \in T
  <2>1. PICK f : Upto(m - 1, f)
    BY <1>2
  <2>2. m - 1 \in 0 .. m - 1 /\ m \in Nat /\ m # 0
    OBVIOUS
  <2> DEFINE g == [l \in 0 .. m |-> IF l = m THEN G[<<m, f[m - 1]>>] ELSE f[l]]
  <2>3. f[m - 1] \in S
    BY <2>1, <2>2
  <2>4. G[<<m, f[m - 1]>>] \in S
    BY <2>3
  <2>5. \A l \in 0 .. m : l # m => l \in 0 .. m - 1
    BY <2>2
  <2>6. g \in [0 .. m -> S]
    BY <2>1, <2>4, <2>5
  <2>7. g[0] = c
    BY <2>1, <2>2
  <2>8. ASSUME NEW l \in 1 .. m PROVE g[l] = G[<<l, g[l - 1]>>]
    <3>1. l - 1 \in 0 .. m /\ l - 1 # m /\ l \in 0 .. m
      BY <2>2
    <3>2. g[l - 1] = f[l - 1]
      BY <3>1
    <3>3. CASE l = m
      BY <3>1, <3>2, <3>3
    <3>4. CASE l # m
      <4>1. l \in 1 .. m - 1
        BY <2>2, <3>4
      <4> QED BY <2>1, <3>1, <3>2, <3>4, <4>1
    <3> QED BY <3>3, <3>4
  <2>9. Upto(m, g)
    <3> HIDE DEF g
    <3> QED BY <2>6, <2>7, <2>8
  <2> HIDE DEF Upto, g
  <2> QED BY <2>9
<1>3. n \in T
  <2> HIDE DEF T
  <2>1. \A l \in 0 .. n : l \in T
    BY <1>1, <1>2, Climb
  <2> QED BY <2>1
<1> QED BY <1>3 DEF Evolves

\* n \div b and n % b.
LEMMA DivMod ==
  ASSUME NEW n \in Int, NEW b \in Nat \ {0}
  PROVE  /\ n \div b \in Int /\ n % b \in 0 .. b - 1
         /\ n = b * (n \div b) + (n % b)
OBVIOUS

\* The powers of a base, as a function that is defined by them.
IsPowers(f, n, c) == f = CHOOSE t : t = [k \in 0 .. n |-> IF k = 0 THEN 1 ELSE c * t[k - 1]]

\* They are what the definition says, one after the other.
LEMMA PowersFrom ==
  ASSUME NEW n \in Nat, NEW c \in Nat \ {0}, NEW power, IsPowers(power, n, c)
  PROVE  /\ power \in [0 .. n -> Nat \ {0}]
         /\ power[0] = 1
         /\ \A k \in 1 .. n : power[k] = c * power[k - 1]
<1> DEFINE Eq(t) == t = [k \in 0 .. n |-> IF k = 0 THEN 1 ELSE c * t[k - 1]]
<1>1. Eq(power)
  <2> DEFINE G == [y \in (1 .. n) \X Nat |-> c * y[2]]
  <2>1. G \in [(1 .. n) \X Nat -> Nat]
    OBVIOUS
  <2>2. \A s \in 1 .. n, v \in Nat : G[<<s, v>>] = c * v
    OBVIOUS
  <2> HIDE DEF G
  <2>3. PICK t \in [0 .. n -> Nat] : Evolves(t, n, 1, G)
    <3>1. 1 \in Nat
      OBVIOUS
    <3> QED BY <2>1, <3>1, Evolution, Zenon
  <2>4. ASSUME NEW s \in 0 .. n PROVE t[s] = IF s = 0 THEN 1 ELSE c * t[s - 1]
    <3>1. CASE s # 0
      <4>1. s \in 1 .. n /\ s - 1 \in 0 .. n
        BY <3>1
      <4>2. t[s - 1] \in Nat
        BY <4>1
      <4> QED BY <2>2, <2>3, <3>1, <4>1, <4>2 DEF Evolves
    <3> QED BY <2>3, <3>1 DEF Evolves
  <2>5. Eq(t)
    BY <2>4
  <2>6. power = CHOOSE u : Eq(u)
    BY DEF IsPowers
  <2> QED BY <2>5, <2>6, Zenon
<1>2. \A k \in 0 .. n : power[k] = IF k = 0 THEN 1 ELSE c * power[k - 1]
  BY <1>1
<1>3. power[0] = 1
  BY <1>2
<1>4. ASSUME NEW k \in 1 .. n PROVE power[k] = c * power[k - 1]
  <2>1. k \in 0 .. n /\ k # 0
    OBVIOUS
  <2> QED BY <1>2, <2>1, Zenon
<1> DEFINE Good == {k \in 0 .. n : power[k] \in Nat \ {0}}
<1>5. 0 \in Good
  BY <1>3
<1>6. ASSUME NEW s \in 1 .. n, s - 1 \in Good PROVE s \in Good
  <2>1. s \in 0 .. n /\ power[s - 1] \in Nat \ {0}
    BY <1>6
  <2>2. c * power[s - 1] \in Nat \ {0}
    BY <2>1
  <2> QED BY <1>4, <2>1, <2>2
<1>7. \A s \in 0 .. n : s \in Good
  <2> HIDE DEF Good
  <2> QED BY <1>5, <1>6, Climb
<1>8. power \in [0 .. n -> Nat \ {0}]
  <2>1. \A s \in 0 .. n : power[s] \in Nat \ {0}
    BY <1>7
  <2>2. power = [k \in 0 .. n |-> IF k = 0 THEN 1 ELSE c * power[k - 1]]
    BY <1>1
  <2>3. power = [k \in 0 .. n |-> power[k]]
    BY <2>2
  <2> QED BY <2>1, <2>3
<1> QED BY <1>3, <1>4, <1>8

\* pow10i, and the steps of a quality.
LEMMA Tens ==
  /\ PowerOfTen \in [0 .. Digits -> Nat \ {0}]
  /\ PowerOfTen[0] = 1
  /\ \A n \in 1 .. Digits : PowerOfTen[n] = 10 * PowerOfTen[n - 1]
<1>1. Digits \in Nat
  BY ToolAssumption
<1>2. IsPowers(PowerOfTen, Digits, 10)
  BY Zenon DEF PowerOfTen, IsPowers
<1>3. 10 \in Nat \ {0}
  OBVIOUS
<1> QED BY <1>1, <1>2, <1>3, PowersFrom, Zenon

LEMMA Twos ==
  /\ PowerOfTwo \in [0 .. MaxQuality -> Nat \ {0}]
  /\ PowerOfTwo[0] = 1
  /\ \A n \in 1 .. MaxQuality : PowerOfTwo[n] = 2 * PowerOfTwo[n - 1]
<1>1. MaxQuality \in Nat
  BY ToolAssumption
<1>2. IsPowers(PowerOfTwo, MaxQuality, 2)
  BY Zenon DEF PowerOfTwo, IsPowers
<1>3. 2 \in Nat \ {0}
  OBVIOUS
<1> QED BY <1>1, <1>2, <1>3, PowersFrom, Zenon

\* Ten to the m and ten to the n make ten to the m + n.
LEMMA TensMultiply ==
  ASSUME NEW m \in Nat, NEW n \in Nat, m + n <= Digits
  PROVE  PowerOfTen[m + n] = PowerOfTen[m] * PowerOfTen[n]
<1>0. Digits \in Nat
  BY ToolAssumption
<1> DEFINE S == {k \in 0 .. n : PowerOfTen[m + k] = PowerOfTen[m] * PowerOfTen[k]}
<1>1. 0 \in S
  BY Tens, <1>0
<1>2. ASSUME NEW k \in 1 .. n, k - 1 \in S PROVE k \in S
  <2>1. PowerOfTen[m + (k - 1)] = PowerOfTen[m] * PowerOfTen[k - 1]
    BY <1>2
  <2>2. m + k \in 1 .. Digits /\ k \in 1 .. Digits /\ m \in 0 .. Digits /\ k - 1 \in 0 .. Digits
        /\ (m + k) - 1 = m + (k - 1)
    BY <1>0
  <2>3. PowerOfTen[m + k] = 10 * PowerOfTen[m + (k - 1)] /\ PowerOfTen[k] = 10 * PowerOfTen[k - 1]
    BY Tens, <2>2
  <2> DEFINE a == PowerOfTen[m]
             b == PowerOfTen[k - 1]
  <2>4. a \in Nat /\ b \in Nat
    BY Tens, <2>2
  <2>5. 10 * (a * b) = a * (10 * b)
    BY <2>4
  <2> QED BY <2>1, <2>3, <2>5
<1>3. \A k \in 0 .. n : k \in S
  <2> HIDE DEF S
  <2> QED BY <1>1, <1>2, Climb
<1> QED BY <1>3
-----------------------------------------------------------------------------
\* A rounded quotient is a half off at most.
LEMMA Halves ==
  ASSUME NEW n \in Int, NEW d \in Nat \ {0}
  PROVE  /\ Rounded(n, d) \in Int
         /\ 2 * Abs(Rounded(n, d) * d - n) <= d
<1> DEFINE w == IF n < 0 THEN -n ELSE n
           m == (2 * w + d) \div (2 * d)
           rem == (2 * w + d) % (2 * d)
           p == m * d
<1>1. w \in Nat /\ d \in Nat \ {0} /\ 2 * w + d \in Nat /\ 2 * d \in Nat \ {0}
  OBVIOUS
<1>2. m \in Int /\ rem \in 0 .. 2 * d - 1 /\ 2 * w + d = (2 * d) * m + rem
  <2> DEFINE a == 2 * w + d
             b == 2 * d
  <2>1. a \in Int /\ b \in Nat \ {0}
    BY <1>1
  <2> HIDE DEF w
  <2>2. a \div b \in Int /\ a % b \in 0 .. b - 1 /\ a = b * (a \div b) + (a % b)
    <3> HIDE DEF a, b
    <3> QED BY <2>1, DivMod
  <2> QED BY <2>2
<1>3. p \in Int /\ (2 * d) * m = 2 * p /\ (-m) * d = -p
  <2> HIDE DEF m
  <2> QED BY <1>2
<1>4. Rounded(n, d) = IF n < 0 THEN -m ELSE m
  <2>1. Rounded(n, d) = (IF n < 0 THEN -1 ELSE 1) * m
    BY DEF Rounded, Abs
  <2> HIDE DEF m
  <2> QED BY <1>2, <2>1
<1>5. Rounded(n, d) \in Int /\ Rounded(n, d) * d = IF n < 0 THEN -p ELSE p
  <2> HIDE DEF m
  <2> QED BY <1>2, <1>3, <1>4
<1>6. w = IF n < 0 THEN -n ELSE n
  OBVIOUS
<1> HIDE DEF w, m, rem, p
<1>7. 2 * w + d = 2 * p + rem
  BY <1>2, <1>3
<1>8. Rounded(n, d) * d \in Int
  BY <1>5
<1>9. rem \in Int /\ 0 <= rem /\ rem < 2 * d
  BY <1>1, <1>2
<1>10. CASE n < 0
  BY <1>1, <1>3, <1>5, <1>6, <1>7, <1>9, <1>10 DEF Abs
<1>11. CASE ~ (n < 0)
  BY <1>1, <1>3, <1>5, <1>6, <1>7, <1>9, <1>11 DEF Abs
<1> QED BY <1>5, <1>10, <1>11

\* Of a whole quotient there is nothing to round.
LEMMA Whole ==
  ASSUME NEW k \in Int, NEW d \in Nat \ {0}
  PROVE  Rounded(k * d, d) = k
<1> DEFINE r == Rounded(k * d, d)
           e == r - k
<1>1. k * d \in Int
  OBVIOUS
<1>2. r \in Int /\ 2 * Abs(r * d - k * d) <= d
  BY <1>1, Halves
<1> HIDE DEF r
<1>3. e \in Int /\ e * d \in Int /\ r * d - k * d = e * d
  BY <1>2
<1>4. e = r - k
  OBVIOUS
<1> HIDE DEF e
<1>5. CASE e >= 1
  <2>1. e * d >= d
    BY <1>3, <1>5
  <2> QED BY <1>2, <1>3, <2>1 DEF Abs
<1>6. CASE e <= -1
  <2>1. PICK f \in Nat : f >= 1 /\ e = -f
    BY <1>3, <1>6
  <2>2. f * d \in Int /\ f * d >= d /\ e * d = -(f * d)
    BY <2>1
  <2> QED BY <1>2, <1>3, <2>2 DEF Abs
<1>7. e \in Int
  BY <1>3
<1>8. CASE e = 0
  <2>1. r = k
    BY <1>2, <1>4, <1>8
  <2> QED BY <2>1 DEF r
<1> QED BY <1>5, <1>6, <1>7, <1>8

\* A quotient of at most c is rounded to at most c.
LEMMA Limited ==
  ASSUME NEW n \in Int, NEW d \in Nat \ {0}, NEW c \in Nat, Abs(n) <= c * d
  PROVE  Abs(Rounded(n, d)) <= c
<1> DEFINE r == Rounded(n, d)
<1>1. r \in Int /\ 2 * Abs(r * d - n) <= d
  BY Halves
<1> HIDE DEF r
<1>2. r * d \in Int /\ c * d \in Int
  BY <1>1
<1>3. CASE r >= c + 1
  <2>1. PICK f \in Nat : r = c + 1 + f
    <3>1. r - (c + 1) \in Nat
      BY <1>1, <1>3
    <3> QED BY <3>1, <1>1
  <2>2. r * d = c * d + d + f * d /\ f * d \in Nat
    BY <2>1
  <2> QED BY <1>1, <1>2, <2>2 DEF Abs
<1>4. CASE r <= -(c + 1)
  <2>1. PICK f \in Nat : r = -(c + 1 + f)
    <3>1. -(c + 1) - r \in Nat
      BY <1>1, <1>4
    <3> QED BY <3>1, <1>1
  <2>2. r * d = -(c * d + d + f * d) /\ f * d \in Nat
    BY <2>1
  <2> QED BY <1>1, <1>2, <2>2 DEF Abs
<1>5. Abs(r) <= c
  BY <1>1, <1>3, <1>4 DEF Abs
<1> QED BY <1>5 DEF r

\* A bound on a number is one on its multiples, and the other way round.
LEMMA Magnitude ==
  ASSUME NEW g \in Int
  PROVE  /\ Abs(g) \in Nat
         /\ g = Abs(g) \/ g = -Abs(g)
         /\ \A k \in Nat : Abs(k) = k /\ Abs(-k) = k
BY DEF Abs

LEMMA Stretch ==
  ASSUME NEW g \in Int, NEW s \in Nat, NEW u \in Nat, 2 * Abs(g) <= u
  PROVE  2 * Abs(g * s) <= u * s
<1> DEFINE k == Abs(g)
<1>1. k \in Nat /\ (g = k \/ g = -k)
  BY Magnitude
<1> HIDE DEF k
<1>2. k * s \in Nat /\ (g * s = k * s \/ g * s = -(k * s))
  BY <1>1
<1>3. Abs(g * s) = k * s
  BY <1>2, Magnitude
<1>4. PICK f \in Nat : u = 2 * k + f
  <2>1. u - 2 * k \in Nat
    BY <1>1 DEF k
  <2> QED BY <2>1, <1>1
<1>5. u * s = 2 * (k * s) + f * s /\ f * s \in Nat
  BY <1>1, <1>4
<1> QED BY <1>2, <1>3, <1>5

LEMMA AbsProduct ==
  ASSUME NEW g \in Int, NEW s \in Int
  PROVE  Abs(g * s) = Abs(g) * Abs(s)
<1> DEFINE k == Abs(g)
           m == Abs(s)
<1>1. k \in Nat /\ (g = k \/ g = -k) /\ m \in Nat /\ (s = m \/ s = -m)
  BY Magnitude
<1> HIDE DEF k, m
<1>2. k * m \in Nat /\ (g * s = k * m \/ g * s = -(k * m))
  BY <1>1
<1>3. Abs(g * s) = k * m
  BY <1>2, Magnitude
<1> QED BY <1>3 DEF k, m

\* What is safe survives the cast to 32 bits.
LEMMA CastSafe ==
  ASSUME NEW x \in Int, Abs(x) <= SafeLimit
  PROVE  ToI32(x) = x
<1>1. I32 \in Nat /\ SafeLimit \in Nat /\ SafeLimit < I32
  BY ToolAssumption
<1>2. x + I32 \in Nat /\ x + I32 < 2 * I32 /\ 2 * I32 \in Nat \ {0}
  BY <1>1 DEF Abs
<1>3. (x + I32) % (2 * I32) = x + I32
  <2> DEFINE a == x + I32
             b == 2 * I32
  <2>1. a \in Nat /\ a < b /\ b \in Nat \ {0}
    BY <1>2
  <2>2. a % b = a
    <3> HIDE DEF a, b
    <3> QED BY <2>1
  <2> QED BY <2>2
<1> QED BY <1>1, <1>3 DEF ToI32

\* From a number to an integer, off by e, and back, with fewer digits, at whatever scale.
LEMMA ThereAndBack ==
  ASSUME NEW v \in Int, NEW s \in Int, NEW e \in Nat, Unit \in Nat \ {0},
         NEW p \in Nat \ {0}, NEW q \in Nat \ {0}, p * q = Unit,
         NEW x \in Int, 2 * Abs(x * Unit - v * s) <= Unit,
         NEW z \in Int, 2 * Abs(z * s - (x + e) * p) <= Abs(s)
  PROVE  Abs(s) * (2 * Abs(z * q - v) - q) <= Unit + 2 * (e * Unit)
<1> DEFINE y == x + e
           h == z * s - y * p
           k == x * Unit - v * s
           g == z * q - v
           m == Abs(g)
           r == Abs(s)
           w == e * Unit
<1>1. /\ h \in Int /\ k \in Int /\ g \in Int /\ w \in Nat
      /\ m \in Nat /\ r \in Nat
  <2>1. y \in Int /\ w \in Int /\ w >= 0
    OBVIOUS
  <2>2. h \in Int /\ k \in Int /\ g \in Int
    BY <2>1
  <2> HIDE DEF h, k, g, w
  <2> QED BY <2>1, <2>2, Magnitude
<1>2. g * s = h * q + k + w
  <2>1. g * s = (z * s) * q - v * s
    OBVIOUS
  <2>2. h * q = (z * s) * q - y * (p * q)
    OBVIOUS
  <2>3. y * (p * q) = x * Unit + w
    OBVIOUS
  <2> HIDE DEF g, h, w, y
  <2> QED BY <1>1, <2>1, <2>2, <2>3
<1>3. 2 * Abs(h) <= r /\ 2 * Abs(k) <= Unit
  OBVIOUS
<1>4. Abs(g * s) = m * r
  <2> HIDE DEF g
  <2> QED BY <1>1, AbsProduct
<1> HIDE DEF g, h, k, m, r, w
<1>5. 2 * Abs(h * q) <= r * q
  BY <1>1, <1>3, Stretch
<1> DEFINE a == h * q
           b == g * s
           c == r * q
           o == m * r
<1>6. a \in Int /\ b \in Int /\ c \in Int /\ o \in Int
  BY <1>1
<1>7. b = a + k + w /\ Abs(b) = o /\ 2 * Abs(a) <= c /\ 2 * Abs(k) <= Unit
  BY <1>2, <1>3, <1>4, <1>5
<1>8. r * (2 * m - q) = 2 * o - c
  BY <1>1
<1> HIDE DEF a, b, c, o
<1>9. 2 * o <= c + Unit + 2 * w
  BY <1>1, <1>6, <1>7 DEF Abs
<1>10. r * (2 * m - q) <= Unit + 2 * w
  BY <1>1, <1>6, <1>8, <1>9
<1> QED BY <1>10 DEF g, m, r, w

\* Ten to the Digits, in two factors.
LEMMA UnitIs ==
  /\ Digits \in Nat /\ Unit \in Nat \ {0}
  /\ \A d \in 0 .. Digits : PowerOfTen[d] \in Nat \ {0}
  /\ \A d \in 0 .. Digits : Digits - d \in 0 .. Digits /\ Unit = PowerOfTen[Digits - d] * PowerOfTen[d]
<1>1. Digits \in Nat
  BY ToolAssumption
<1>2. \A d \in 0 .. Digits : PowerOfTen[d] \in Nat \ {0}
  BY Tens
<1>3. ASSUME NEW d \in 0 .. Digits
      PROVE  Digits - d \in 0 .. Digits /\ Unit = PowerOfTen[Digits - d] * PowerOfTen[d]
  <2>1. Digits - d \in Nat /\ d \in Nat /\ (Digits - d) + d <= Digits /\ (Digits - d) + d = Digits
    BY <1>1
  <2>2. PowerOfTen[(Digits - d) + d] = PowerOfTen[Digits - d] * PowerOfTen[d]
    BY <2>1, TensMultiply
  <2> QED BY <1>1, <2>1, <2>2 DEF Unit
<1>4. Digits \in 0 .. Digits
  BY <1>1
<1> QED BY <1>1, <1>2, <1>3, <1>4 DEF Unit

\* What is printed is the nearest multiple of the last digit, also by a negative scale.
LEMMA UnscaledIs ==
  ASSUME NEW y \in Int, NEW s \in Int, s # 0, NEW d \in 0 .. Digits
  PROVE  \E z \in Int : /\ Unscaled(y, s, d) = z * PowerOfTen[Digits - d]
                        /\ 2 * Abs(z * s - y * PowerOfTen[d]) <= Abs(s)
<1> DEFINE p == PowerOfTen[d]
           n == IF s < 0 THEN -(y * p) ELSE y * p
           r == Abs(s)
           z == Rounded(n, r)
<1>1. p \in Nat
  BY UnitIs
<1>2. r \in Nat \ {0} /\ (IF s < 0 THEN s = -r ELSE s = r)
  BY DEF Abs
<1>3. y * p \in Int
  <2> HIDE DEF p
  <2> QED BY <1>1
<1>4. n \in Int
  BY <1>3
<1>5. z \in Int /\ 2 * Abs(z * r - n) <= r
  <2> HIDE DEF n, r
  <2> QED BY <1>2, <1>4, Halves
<1>6. Unscaled(y, s, d) = z * PowerOfTen[Digits - d]
  BY Zenon DEF Unscaled
<1> DEFINE a == y * p
<1> HIDE DEF z, r
<1>7. 2 * Abs(z * s - a) <= r
  <2>1. CASE s < 0
    <3>1. n = -a /\ s = -r
      BY <1>2, <2>1
    <3> HIDE DEF n, a
    <3>2. z * s = -(z * r) /\ z * r \in Int
      BY <1>2, <1>5, <3>1
    <3>3. a \in Int
      BY <1>3 DEF a
    <3> QED BY <1>2, <1>5, <3>1, <3>2, <3>3 DEF Abs
  <2>2. CASE ~(s < 0)
    <3>1. n = a /\ s = r
      BY <1>2, <2>2
    <3> HIDE DEF n, a
    <3> QED BY <1>5, <3>1
  <2> QED BY <2>1, <2>2
<1> QED BY <1>5, <1>6, <1>7 DEF r

LEMMA UnscaledPositive ==
  ASSUME NEW y \in Int, NEW s \in Nat \ {0}, NEW d \in 0 .. Digits
  PROVE  Unscaled(y, s, d) = Rounded(y * PowerOfTen[d], s) * PowerOfTen[Digits - d]
<1>1. s # 0 /\ ~(s < 0) /\ Abs(s) = s
  BY DEF Abs
<1> QED BY <1>1, Zenon DEF Unscaled
-----------------------------------------------------------------------------
\* The rows at some places are rows of the text, and all of it if all places are taken.
LEMMA RowsAre ==
  ASSUME NEW T, NEW t \in Seq(T), NEW places
  PROVE  /\ RowsAt(t, places) \in Seq(T)
         /\ \A j \in 1 .. Len(RowsAt(t, places)) :
              \E i \in places \intersect (1 .. Len(t)) : RowsAt(t, places)[j] = t[i]
         /\ 1 .. Len(t) \subseteq places => RowsAt(t, places) = t
<1> DEFINE n == Len(t)
           Eq(f) == f = [i \in 0 .. n |->
             IF i = 0 THEN <<>> ELSE IF i \in places THEN Append(f[i - 1], t[i]) ELSE f[i - 1]]
           kept == CHOOSE f : Eq(f)
<1>1. RowsAt(t, places) = kept[n]
  BY Zenon DEF RowsAt
<1>2. n \in Nat
  OBVIOUS
<1>3. Eq(kept)
  <2> DEFINE G == [y \in (1 .. n) \X Seq(T) |-> IF y[1] \in places THEN Append(y[2], t[y[1]]) ELSE y[2]]
  <2>1. G \in [(1 .. n) \X Seq(T) -> Seq(T)]
    <3>1. \A i \in 1 .. n, q \in Seq(T) : Append(q, t[i]) \in Seq(T)
      OBVIOUS
    <3> QED BY <3>1
  <2>2. \A i \in 1 .. n, q \in Seq(T) : G[<<i, q>>] = IF i \in places THEN Append(q, t[i]) ELSE q
    OBVIOUS
  <2> HIDE DEF G
  <2>3. PICK f \in [0 .. n -> Seq(T)] : Evolves(f, n, <<>>, G)
    <3>1. <<>> \in Seq(T)
      OBVIOUS
    <3> QED BY <1>2, <2>1, <3>1, Evolution, Zenon
  <2>4. ASSUME NEW i \in 0 .. n
        PROVE  f[i] = IF i = 0 THEN <<>>
                      ELSE IF i \in places THEN Append(f[i - 1], t[i]) ELSE f[i - 1]
    <3>1. CASE i # 0
      <4>1. i \in 1 .. n /\ i - 1 \in 0 .. n
        BY <1>2, <3>1
      <4>2. f[i - 1] \in Seq(T)
        BY <2>3, <4>1
      <4>3. f[i] = G[<<i, f[i - 1]>>]
        BY <2>3, <4>1 DEF Evolves
      <4> HIDE DEF n
      <4> QED BY <2>2, <3>1, <4>1, <4>2, <4>3, Zenon
    <3> QED BY <2>3, <3>1 DEF Evolves
  <2> HIDE DEF n
  <2>5. Eq(f)
    BY <2>3, <2>4
  <2> QED BY <2>5, Zenon
<1> HIDE DEF n, kept
<1>4. kept[0] = <<>>
  BY <1>2, <1>3
<1>5. ASSUME NEW i \in 1 .. n
      PROVE  kept[i] = IF i \in places THEN Append(kept[i - 1], t[i]) ELSE kept[i - 1]
  <2>1. i \in 0 .. n /\ i # 0
    BY <1>2
  <2> QED BY <1>3, <2>1, Zenon
<1> DEFINE Kept(q, i) ==
             /\ q \in Seq(T)
             /\ \A j \in 1 .. Len(q) : \E k \in places \intersect (1 .. i) : q[j] = t[k]
             /\ 1 .. n \subseteq places => Len(q) = i /\ \A j \in 1 .. i : q[j] = t[j]
           S == {i \in 0 .. n : Kept(kept[i], i)}
<1>6. 0 \in S
  <2>1. Len(<<>>) = 0 /\ <<>> \in Seq(T) /\ 0 \in 0 .. n
    BY <1>2
  <2>2. Kept(<<>>, 0)
    BY <2>1
  <2> HIDE DEF Kept
  <2> QED BY <1>4, <2>1, <2>2
<1>7. ASSUME NEW i \in 1 .. n, i - 1 \in S PROVE i \in S
  <2> DEFINE q == kept[i - 1]
  <2>1. q \in Seq(T) /\ i \in 0 .. n /\ i \in Nat /\ t[i] \in T
    BY <1>2, <1>7 DEF n
  <2>2. /\ \A j \in 1 .. Len(q) : \E k \in places \intersect (1 .. i - 1) : q[j] = t[k]
        /\ 1 .. n \subseteq places => Len(q) = i - 1 /\ \A j \in 1 .. i - 1 : q[j] = t[j]
    BY <1>7
  <2>3. \A k \in 1 .. i - 1 : k \in 1 .. i
    BY <2>1
  <2> HIDE DEF q
  <2>4. CASE i \in places
    <3>1. kept[i] = Append(q, t[i])
      BY <1>5, <2>4 DEF q
    <3>2. /\ Append(q, t[i]) \in Seq(T)
          /\ Len(Append(q, t[i])) = Len(q) + 1
          /\ Append(q, t[i])[Len(q) + 1] = t[i]
          /\ \A j \in 1 .. Len(q) : Append(q, t[i])[j] = q[j]
      BY <2>1
    <3>3. ASSUME NEW j \in 1 .. Len(Append(q, t[i]))
          PROVE  \E k \in places \intersect (1 .. i) : Append(q, t[i])[j] = t[k]
      <4>1. Len(q) \in Nat
        BY <2>1
      <4>2. CASE j = Len(q) + 1
        BY <2>1, <2>4, <3>2, <4>2
      <4>3. CASE j # Len(q) + 1
        <5>1. j \in 1 .. Len(q)
          BY <3>2, <4>1, <4>3
        <5> QED BY <2>2, <2>3, <3>2, <5>1
      <4> QED BY <4>2, <4>3
    <3>4. ASSUME 1 .. n \subseteq places
          PROVE  Len(Append(q, t[i])) = i /\ \A j \in 1 .. i : Append(q, t[i])[j] = t[j]
      <4>1. Len(q) = i - 1 /\ \A j \in 1 .. i - 1 : q[j] = t[j]
        BY <2>2, <3>4
      <4>2. ASSUME NEW j \in 1 .. i PROVE Append(q, t[i])[j] = t[j]
        <5>1. CASE j = i
          BY <2>1, <3>2, <4>1, <5>1
        <5>2. CASE j # i
          <6>1. j \in 1 .. i - 1
            BY <2>1, <5>2
          <6> QED BY <3>2, <4>1, <6>1
        <5> QED BY <5>1, <5>2
      <4>3. Len(Append(q, t[i])) = i
        BY <2>1, <3>2, <4>1
      <4> QED BY <4>2, <4>3
    <3>5. Kept(Append(q, t[i]), i)
      BY <3>2, <3>3, <3>4
    <3> QED BY <2>1, <3>1, <3>5
  <2>5. CASE i \notin places
    <3>1. kept[i] = q
      BY <1>5, <2>5 DEF q
    <3>2. ~ (1 .. n \subseteq places)
      BY <2>5
    <3>3. Kept(q, i)
      BY <2>1, <2>2, <2>3, <3>2
    <3> QED BY <2>1, <3>1, <3>3
  <2> QED BY <2>4, <2>5
<1>8. n \in S
  <2> HIDE DEF S
  <2>1. \A i \in 0 .. n : i \in S
    BY <1>2, <1>6, <1>7, Climb
  <2> QED BY <1>2, <2>1
<1>9. Kept(kept[n], n)
  BY <1>8
<1>10. 1 .. n \subseteq places => kept[n] = t
  <2> SUFFICES ASSUME 1 .. n \subseteq places PROVE kept[n] = t
    OBVIOUS
  <2>1. kept[n] \in Seq(T) /\ Len(kept[n]) = Len(t) /\ \A j \in 1 .. Len(t) : kept[n][j] = t[j]
    BY <1>9 DEF n
  <2> DEFINE q == kept[n]
  <2> HIDE DEF q
  <2>2. q \in Seq(T) /\ t \in Seq(T) /\ Len(q) = Len(t) /\ \A j \in 1 .. Len(t) : q[j] = t[j]
    BY <2>1 DEF q
  <2>3. q = t
    BY <2>2
  <2> QED BY <2>3 DEF q
<1> QED BY <1>1, <1>9, <1>10 DEF n

\* One of them, and no other is larger.
IsLargest(x, S) == x \in S /\ \A y \in S : y <= x

\* What is bounded has a largest one; and so has what a sequence holds.
LEMMA LargestIs ==
  ASSUME NEW S, S \subseteq Nat, S # {}, NEW b \in Nat, \A y \in S : y <= b
  PROVE  IsLargest(Largest(S), S)
<1> DEFINE U == {m \in Nat : \A y \in S : y <= m}
<1>1. U \subseteq Nat /\ U # {}
  OBVIOUS
<1>2. PICK m \in U : \A k \in U : m <= k
  <2> HIDE DEF U
  <2> QED BY <1>1, Least
<1>3. m \in S
  <2> SUFFICES ASSUME m \notin S PROVE FALSE
    OBVIOUS
  <2>1. m \in Nat /\ \A y \in S : y \in Nat /\ y <= m /\ y # m
    BY <1>2
  <2>2. PICK y \in S : TRUE
    OBVIOUS
  <2>3. m - 1 \in Nat
    BY <2>1, <2>2
  <2>4. m - 1 \in U
    BY <2>1, <2>3
  <2> QED BY <1>2, <2>1, <2>4
<1>4. IsLargest(m, S)
  BY <1>2, <1>3 DEF IsLargest
<1>5. Largest(S) = CHOOSE y \in S : \A z \in S : z <= y
  BY Zenon DEF Largest
<1> QED BY <1>4, <1>5, Zenon DEF IsLargest

LEMMA Bounded ==
  ASSUME NEW n \in Nat, NEW f \in [1 .. n -> Nat]
  PROVE  \E b \in Nat : \A i \in 1 .. n : f[i] <= b
<1> DEFINE S == {k \in 0 .. n : \E b \in Nat : \A i \in 1 .. k : f[i] <= b}
<1>1. 0 \in S
  OBVIOUS
<1>2. ASSUME NEW k \in 1 .. n, k - 1 \in S PROVE k \in S
  <2>1. PICK b \in Nat : \A i \in 1 .. k - 1 : f[i] <= b
    BY <1>2
  <2> DEFINE c == IF f[k] <= b THEN b ELSE f[k]
  <2>2. c \in Nat /\ f[k] <= c /\ b <= c /\ f[k] \in Nat
    OBVIOUS
  <2> HIDE DEF c
  <2>3. ASSUME NEW i \in 1 .. k PROVE f[i] <= c
    <3>1. CASE i = k
      BY <2>2, <3>1
    <3>2. CASE i # k
      <4>1. i \in 1 .. k - 1 /\ f[i] \in Nat
        BY <3>2
      <4> QED BY <2>1, <2>2, <4>1
    <3> QED BY <3>1, <3>2
  <2> QED BY <2>2, <2>3
<1>3. \A k \in 0 .. n : k \in S
  <2> HIDE DEF S
  <2> QED BY <1>1, <1>2, Climb
<1>4. n \in S
  <2>1. n \in 0 .. n
    OBVIOUS
  <2> HIDE DEF S
  <2> QED BY <1>3, <2>1
<1> QED BY <1>4
-----------------------------------------------------------------------------
(* What sniff_table and safe_scale find.                                    *)

\* What is known of a text.
LEMMA TextIs ==
  ASSUME NEW t \in Texts
  PROVE  /\ t \in Seq(TextRows) /\ Len(t) \in Nat /\ DOMAIN t = 1 .. Len(t)
         /\ \A i \in DOMAIN t : t[i] \in TextRows /\ t[i].numbers \in Nat /\ t[i].tokens \in Nat
         /\ \A i \in DOMAIN t, a \in Axes :
              t[i][a] \in Numbers /\ AsWritten(t[i][a])
              /\ t[i][a].value \in Int /\ t[i][a].decimals \in -1 .. Digits
<1>1. t \in Seq(TextRows)
  BY ToolAssumption
<1>2. Len(t) \in Nat /\ DOMAIN t = 1 .. Len(t) /\ \A i \in DOMAIN t : t[i] \in TextRows
  BY <1>1
<1>3. ASSUME NEW i \in DOMAIN t, NEW a \in Axes
      PROVE  t[i][a] \in Numbers /\ AsWritten(t[i][a])
  <2>1. AsWritten(t[i].pos) /\ AsWritten(t[i].ori)
    BY ToolAssumption
  <2>2. t[i].pos \in Numbers /\ t[i].ori \in Numbers
    BY <1>2 DEF TextRows
  <2> QED BY <2>1, <2>2 DEF Axes
<1>4. \A i \in DOMAIN t : t[i].numbers \in Nat /\ t[i].tokens \in Nat
  BY <1>2 DEF TextRows
<1>5. \A x \in Numbers : x.value \in Int /\ x.decimals \in -1 .. Digits
  BY DEF Numbers
<1> QED BY <1>1, <1>2, <1>3, <1>4, <1>5

\* Only a table has columns, and the rows that match have as many.
LEMMA ColumnsAre ==
  ASSUME NEW t \in Texts
  PROVE  /\ SniffedColumns(t) \in {0} \union Columns
         /\ Matching(t) \subseteq DOMAIN t
         /\ SniffedColumns(t) # 0 =>
              /\ Matching(t) # {}
              /\ SniffedColumns(t) = ExpectedColumns(t)
              /\ \A i \in Matching(t) : t[i].tokens = SniffedColumns(t)
<1>1. Matching(t) \subseteq DOMAIN t
  BY DEF Matching, Clean
<1>2. \A i \in Matching(t) : t[i].tokens = ExpectedColumns(t)
  BY DEF Matching
<1> DEFINE none == Matching(t) = {}
           few == 100 * Cardinality(Matching(t)) < CleanPercent * Len(t)
           odd == ExpectedColumns(t) \notin Columns
<1>3. SniffedColumns(t) = IF none \/ few \/ odd THEN 0 ELSE ExpectedColumns(t)
  BY DEF SniffedColumns
<1> HIDE DEF few
<1> QED BY <1>1, <1>2, <1>3

\* Where no number has an exponent or too many decimals, sniff_table counts what the
\* longest has.
LEMMA DecimalsAre ==
  ASSUME NEW t \in Texts, SniffedColumns(t) # 0, NEW a \in Axes
  PROVE  /\ SniffedDecimals(t, a) \in 0 .. MaxDecimals
         /\ (\A i \in Matching(t), b \in AxesOf(SniffedColumns(t)) : t[i][b].decimals >= 0)
            /\ (\A i \in Matching(t) : t[i][a].decimals \in 0 .. MaxDecimals)
              => /\ \A i \in Matching(t) : t[i][a].decimals <= SniffedDecimals(t, a)
                 /\ \E i \in Matching(t) : SniffedDecimals(t, a) = t[i][a].decimals
<1> DEFINE known == {CountDecimals(t[i][a]) : i \in Matching(t)}
           exponent == \E i \in Matching(t), b \in AxesOf(ExpectedColumns(t)) : t[i][b].decimals < 0
           seen == known \union (IF exponent THEN {ShortDecimals} ELSE {})
           most == Largest(seen)
<1>0. /\ Digits \in Nat /\ MaxDecimals \in 0 .. Digits /\ ShortDecimals \in 0 .. MaxDecimals
  BY ToolAssumption
<1>1. /\ Matching(t) \subseteq DOMAIN t /\ Matching(t) # {}
      /\ SniffedColumns(t) = ExpectedColumns(t)
  BY ColumnsAre
<1>2. SniffedDecimals(t, a) = IF most <= MaxDecimals THEN most ELSE MaxDecimals
  BY DEF SniffedDecimals
<1>3. \A i \in Matching(t) : t[i][a].decimals \in -1 .. Digits
  BY <1>1, TextIs
<1>4. \A i \in Matching(t) : CountDecimals(t[i][a]) \in 0 .. Digits
  BY <1>0, <1>3 DEF CountDecimals
<1>5. seen \subseteq 0 .. Digits /\ seen # {}
  BY <1>0, <1>1, <1>4
<1>6. IsLargest(most, seen)
  <2>1. seen \subseteq Nat /\ \A y \in seen : y <= Digits
    BY <1>0, <1>5
  <2> HIDE DEF seen
  <2> QED BY <1>0, <1>5, <2>1, LargestIs
<1>7. most \in 0 .. Digits
  BY <1>5, <1>6 DEF IsLargest
<1>8. ASSUME \A i \in Matching(t), b \in AxesOf(SniffedColumns(t)) : t[i][b].decimals >= 0,
             \A i \in Matching(t) : t[i][a].decimals \in 0 .. MaxDecimals
      PROVE  /\ \A i \in Matching(t) : t[i][a].decimals <= SniffedDecimals(t, a)
             /\ \E i \in Matching(t) : SniffedDecimals(t, a) = t[i][a].decimals
  <2>1. ASSUME exponent PROVE FALSE
    <3>1. PICK i \in Matching(t), b \in AxesOf(SniffedColumns(t)) : t[i][b].decimals < 0
      BY <1>1, <2>1
    <3>2. t[i][b].decimals >= 0 /\ b \in Axes
      BY <1>8 DEF AxesOf, Axes
    <3>3. t[i][b].decimals \in Int
      BY <1>0, <1>1, <3>2, TextIs
    <3> QED BY <3>1, <3>2, <3>3
  <2>2. seen = known
    BY <2>1
  <2>3. \A i \in Matching(t) : CountDecimals(t[i][a]) = t[i][a].decimals
    BY <1>0, <1>8 DEF CountDecimals
  <2>4. PICK i \in Matching(t) : most = t[i][a].decimals
    BY <1>6, <2>2, <2>3 DEF IsLargest
  <2>5. \A j \in Matching(t) : t[j][a].decimals <= most
    BY <1>6, <2>2, <2>3 DEF IsLargest
  <2> HIDE DEF most
  <2>6. SniffedDecimals(t, a) = most
    BY <1>0, <1>2, <1>8, <2>4
  <2> QED BY <2>4, <2>5, <2>6
<1> HIDE DEF most
<1>9. SniffedDecimals(t, a) \in 0 .. MaxDecimals
  BY <1>0, <1>2, <1>7
<1> QED BY <1>8, <1>9

\* No number of a matching row is larger than the one sniff_table finds.
LEMMA MaxAbsIs ==
  ASSUME NEW t \in Texts, SniffedColumns(t) # 0, NEW a \in Axes
  PROVE  /\ SniffedMaxAbs(t, a) \in Nat
         /\ \A i \in Matching(t) : Abs(t[i][a].value) <= SniffedMaxAbs(t, a)
         /\ \E i \in Matching(t) : SniffedMaxAbs(t, a) = Abs(t[i][a].value)
<1> DEFINE f == [i \in 1 .. Len(t) |-> Abs(t[i][a].value)]
           S == {Abs(t[i][a].value) : i \in Matching(t)}
<1>1. /\ Matching(t) \subseteq 1 .. Len(t) /\ Matching(t) # {} /\ Len(t) \in Nat
  BY ColumnsAre, TextIs
<1>2. \A i \in 1 .. Len(t) : Abs(t[i][a].value) \in Nat
  <2>1. \A i \in 1 .. Len(t) : t[i][a].value \in Int
    BY TextIs
  <2> QED BY <2>1, Magnitude
<1>3. f \in [1 .. Len(t) -> Nat]
  BY <1>2
<1>4. PICK c \in Nat : \A i \in 1 .. Len(t) : f[i] <= c
  <2> HIDE DEF f
  <2> QED BY <1>1, <1>3, Bounded
<1>5. S \subseteq Nat /\ S # {} /\ \A y \in S : y <= c
  BY <1>1, <1>2, <1>4
<1>6. IsLargest(Largest(S), S)
  <2> HIDE DEF S
  <2> QED BY <1>5, LargestIs
<1>7. SniffedMaxAbs(t, a) = Largest(S)
  BY DEF SniffedMaxAbs
<1> QED BY <1>5, <1>6, <1>7 DEF IsLargest

\* safe_scale gives up no more decimals than it must.
LEMMA ScaleIs ==
  ASSUME NEW d \in 0 .. Digits, NEW m \in Nat
  PROVE  \E e \in 0 .. d :
           /\ SafeScale(d, m) = PowerOfTen[e]
           /\ e = 0 \/ m * PowerOfTen[e] <= SafeLimit * Unit
           /\ m * PowerOfTen[d] <= SafeLimit * Unit => e = d
<1> DEFINE S == {k \in 0 .. d : m * PowerOfTen[k] <= SafeLimit * Unit} \union {0}
           e == Largest(S)
<1>1. Digits \in Nat
  BY ToolAssumption
<1>2. S \subseteq 0 .. d /\ S # {}
  BY <1>1
<1>3. IsLargest(e, S)
  <2>1. S \subseteq Nat /\ \A y \in S : y <= d
    BY <1>1, <1>2
  <2>2. d \in Nat
    BY <1>1
  <2> HIDE DEF S
  <2> QED BY <1>2, <2>1, <2>2, LargestIs
<1>4. SafeScale(d, m) = PowerOfTen[e]
  BY DEF SafeScale
<1>5. e \in 0 .. d
  BY <1>2, <1>3 DEF IsLargest
<1>6. e = 0 \/ m * PowerOfTen[e] <= SafeLimit * Unit
  BY <1>3 DEF IsLargest
<1>7. m * PowerOfTen[d] <= SafeLimit * Unit => e = d
  <2> SUFFICES ASSUME m * PowerOfTen[d] <= SafeLimit * Unit PROVE e = d
    OBVIOUS
  <2>1. d \in S
    BY <1>1
  <2>2. d <= e
    BY <1>3, <2>1 DEF IsLargest
  <2> HIDE DEF e
  <2> QED BY <1>1, <1>5, <2>2
<1> HIDE DEF e
<1> QED BY <1>4, <1>5, <1>6, <1>7
-----------------------------------------------------------------------------
(* The tool.                                                                *)

\* A scale that divides ten to the Digits.
IsScale(s) == s \in Nat \ {0} /\ \E u \in Nat : Unit = u * s

LEMMA ScaleDivides ==
  ASSUME NEW s, IsScale(s)
  PROVE  s \in Nat \ {0} /\ Unit \div s \in Nat /\ Unit = (Unit \div s) * s
<1>1. PICK u \in Nat : Unit = u * s
  BY DEF IsScale
<1>2. s \in Nat \ {0} /\ Unit \in Nat \ {0}
  BY UnitIs DEF IsScale
<1> DEFINE q == Unit \div s
           r == Unit % s
           g == u - q
<1>3. q \in Int /\ r \in 0 .. s - 1 /\ Unit = s * q + r
  BY <1>2, DivMod
<1> HIDE DEF q, r
<1>4. g \in Int /\ g * s = r
  <2>1. (u - q) * s = u * s - s * q
    BY <1>2, <1>3
  <2> QED BY <1>1, <1>2, <1>3, <2>1
<1>5. CASE g >= 1
  <2>1. g * s >= s
    <3>1. PICK f \in Nat : g = f + 1
      <4>1. g - 1 \in Nat
        BY <1>4, <1>5
      <4> QED BY <1>4, <4>1
    <3>2. g * s = f * s + s /\ f * s \in Nat
      BY <1>2, <3>1
    <3> QED BY <1>2, <3>2
  <2> QED BY <1>2, <1>3, <1>4, <2>1
<1>6. CASE g <= -1
  <2>1. g * s <= -s
    <3>1. PICK f \in Nat : g = -(f + 1)
      <4>1. -1 - g \in Nat
        BY <1>4, <1>6
      <4>2. g = -((-1 - g) + 1)
        BY <1>4
      <4> QED BY <4>1, <4>2
    <3>2. g * s = -(f * s + s) /\ f * s \in Nat
      BY <1>2, <3>1
    <3> QED BY <1>2, <3>2
  <2> QED BY <1>2, <1>3, <1>4, <2>1
<1>7. CASE g = 0
  <2>1. q = u
    BY <1>3, <1>7
  <2> QED BY <1>1, <1>2, <2>1 DEF q
<1> QED BY <1>4, <1>5, <1>6, <1>7

LEMMA TenIsScale == \A d \in 0 .. Digits : IsScale(PowerOfTen[d])
BY UnitIs DEF IsScale

\* The scales of a text divide it, and bring every number that is safe as it is to a safe
\* integer.
LEMMA TextScales ==
  ASSUME NEW t \in Texts, SniffedColumns(t) # 0, NEW a \in AxesOf(SniffedColumns(t))
  PROVE  /\ IsScale(ScalesFor(t)[a])
         /\ \A i \in Matching(t) :
              Small(t[i][a]) => Abs(t[i][a].value * ScalesFor(t)[a]) <= SafeLimit * Unit
<1> DEFINE d == SniffedDecimals(t, a)
           m == SniffedMaxAbs(t, a)
           s == ScalesFor(t)[a]
<1>0. a \in Axes /\ MaxDecimals \in 0 .. Digits /\ Digits \in Nat /\ SafeLimit \in Nat
  BY ToolAssumption DEF AxesOf, Axes
<1>1. d \in 0 .. Digits
  BY <1>0, DecimalsAre
<1>2. m \in Nat /\ \A i \in Matching(t) : Abs(t[i][a].value) <= m
  BY <1>0, MaxAbsIs
<1>3. s = SafeScale(d, m)
  BY DEF ScalesFor
<1> HIDE DEF d, m, s
<1>4. PICK e \in 0 .. d : SafeScale(d, m) = PowerOfTen[e] /\ (e = 0 \/ m * PowerOfTen[e] <= SafeLimit * Unit)
  BY <1>1, <1>2, ScaleIs
<1>5. e \in 0 .. Digits
  BY <1>0, <1>1, <1>4
<1>6. IsScale(s) /\ s \in Nat
  BY <1>3, <1>4, <1>5, TenIsScale, UnitIs
<1>7. ASSUME NEW i \in Matching(t), Small(t[i][a])
      PROVE  Abs(t[i][a].value * s) <= SafeLimit * Unit
  <2> DEFINE v == t[i][a].value
             k == Abs(v)
             c == SafeLimit * Unit
  <2>1. v \in Int
    BY <1>0, ColumnsAre, TextIs
  <2>2. k \in Nat /\ (v = k \/ v = -k) /\ k <= m /\ k <= c
    BY <1>2, <1>7, <2>1, Magnitude DEF Small
  <2>3. c \in Nat
    BY <1>0, UnitIs
  <2> HIDE DEF v, k, c
  <2>4. k * s \in Nat /\ (v * s = k * s \/ v * s = -(k * s))
    BY <1>6, <2>2
  <2>5. Abs(v * s) = k * s
    BY <2>4, Magnitude
  <2>6. CASE e = 0
    <3>1. s = 1
      BY <1>3, <1>4, <2>6, Tens
    <3>2. k * s = k
      BY <2>2, <3>1
    <3> QED BY <2>2, <2>5, <3>2 DEF v, c
  <2>7. CASE m * s <= c
    <3>1. k * s <= m * s
      <4>1. PICK f \in Nat : m = k + f
        <5>1. m - k \in Nat
          BY <1>2, <2>2
        <5> QED BY <1>2, <2>2, <5>1
      <4>2. m * s = k * s + f * s /\ f * s \in Nat
        BY <1>6, <2>2, <4>1
      <4> QED BY <2>4, <4>2
    <3>2. m * s \in Nat
      BY <1>2, <1>6
    <3>3. k * s <= c
      BY <2>3, <2>4, <2>7, <3>1, <3>2
    <3> QED BY <2>5, <3>3 DEF v, c
  <2> QED BY <1>3, <1>4, <2>6, <2>7 DEF c
<1> QED BY <1>6, <1>7 DEF s

\* What a table that was written has to do with the text: its rows are those that are
\* read from the text, each number off by no more than was said.
Off(row, read, a, within, exact) ==
  \E e \in Nat : row[a] = read[a] + e /\ e * Unit <= within[a] /\ (exact => e = 0)

WrittenWell ==
  /\ file.columns \in Columns
  /\ said.command \in {"compress", "squeeze", "squeeze lossy", "optimize"}
  /\ said.command # "compress" =>
       file.columns = SniffedColumns(text) /\ file.scale = ScalesFor(text)
  /\ \A a \in AxesOf(file.columns) : file.scale[a] \in Int /\ said.within[a] \in Int
  /\ LET read == ReadRows(text, file.columns, file.scale)
     IN  /\ DOMAIN file.rows = 1 .. Len(read) /\ Len(file.rows) = Len(read)
         /\ \A i \in 1 .. Len(read) :
              /\ DOMAIN file.rows[i] = AxesOf(file.columns)
              /\ \A a \in AxesOf(file.columns) :
                   Off(file.rows[i], read[i], a, said.within, said.command = "squeeze")

FileInv == Table => WrittenWell

RestoredInv ==
  Decompressed =>
    \E by \in {"unsqueeze", "decompress"}, d \in 0 .. MaxDecimals :
      /\ by = "unsqueeze" => d = MaxDecimals
      /\ restored = Printed(by, file.rows, file.scale, d)

\* The rows of the text as it is read, before they become integers.
LEMMA ReadRowsAre ==
  ASSUME text \in Texts, NEW columns, NEW scale
  PROVE  LET rows == RowsAt(text, ReadFrom(text, columns))
             read == ReadRows(text, columns, scale)
         IN  /\ rows \in Seq(TextRows) /\ Len(rows) \in Nat
             /\ \A i \in 1 .. Len(rows) : \E j \in DOMAIN text : rows[i] = text[j]
             /\ ReadFrom(text, columns) = DOMAIN text => rows = text
             /\ Len(read) = Len(rows) /\ DOMAIN read = 1 .. Len(rows)
             /\ \A i \in 1 .. Len(rows) : DOMAIN read[i] = AxesOf(columns)
             /\ \A i \in 1 .. Len(rows), a \in AxesOf(columns) :
                  read[i][a] = ToI32(Rounded(rows[i][a].value * scale[a], Unit))
<1> DEFINE rows == RowsAt(text, ReadFrom(text, columns))
           read == ReadRows(text, columns, scale)
<1>1. text \in Seq(TextRows) /\ DOMAIN text = 1 .. Len(text)
  BY TextIs
<1>2. /\ rows \in Seq(TextRows)
      /\ \A j \in 1 .. Len(rows) :
           \E i \in ReadFrom(text, columns) \intersect (1 .. Len(text)) : rows[j] = text[i]
      /\ 1 .. Len(text) \subseteq ReadFrom(text, columns) => rows = text
  BY <1>1, RowsAre
<1>3. read = [i \in 1 .. Len(rows) |->
                [a \in AxesOf(columns) |-> ToI32(Rounded(rows[i][a].value * scale[a], Unit))]]
  BY DEF ReadRows
<1> HIDE DEF rows, read
<1>4. Len(rows) \in Nat
  BY <1>2
<1>5. Len(read) = Len(rows) /\ DOMAIN read = 1 .. Len(rows)
  BY <1>3, <1>4
<1>6. ASSUME NEW i \in 1 .. Len(rows), NEW a \in AxesOf(columns)
      PROVE  read[i][a] = ToI32(Rounded(rows[i][a].value * scale[a], Unit))
  BY <1>3
<1>7. ASSUME NEW i \in 1 .. Len(rows) PROVE DOMAIN read[i] = AxesOf(columns)
  BY <1>3
<1>8. \A i \in 1 .. Len(rows) : \E j \in DOMAIN text : rows[i] = text[j]
  BY <1>1, <1>2
<1>9. ReadFrom(text, columns) = DOMAIN text => rows = text
  BY <1>1, <1>2
<1> QED BY <1>2, <1>4, <1>5, <1>6, <1>7, <1>8, <1>9 DEF rows, read

\* A cast leaves an integer.
LEMMA CastIsInt ==
  ASSUME NEW x \in Int
  PROVE  ToI32(x) \in Int
<1>1. I32 \in Nat \ {0}
  BY ToolAssumption
<1>2. x + I32 \in Int /\ 2 * I32 \in Nat \ {0}
  BY <1>1
<1> DEFINE a == x + I32
           b == 2 * I32
<1>3. a % b \in Int
  <2>1. a \in Int /\ b \in Nat \ {0}
    BY <1>2
  <2> HIDE DEF a, b
  <2> QED BY <2>1
<1> QED BY <1>1, <1>3 DEF ToI32

\* One number that is printed again.
LEMMA NumberClose ==
  ASSUME NEW number \in Numbers, NEW s \in Int, s # 0, NEW d \in 0 .. Digits, NEW x \in Int,
         NEW e \in Nat, NEW w \in Int, e * Unit <= w,
         x = ToI32(Rounded(number.value * s, Unit)),
         Fits(number, s) \/ Abs(number.value * s) <= SafeLimit * Unit
  PROVE  Abs(s) * (2 * Abs(Unscaled(x + e, s, d) - number.value) - PowerOfTen[Digits - d])
           <= Unit + 2 * w
<1> DEFINE v == number.value
           p == PowerOfTen[d]
           q == PowerOfTen[Digits - d]
           y == Rounded(v * s, Unit)
<1>1. v \in Int
  BY DEF Numbers
<1>2. Unit \in Nat \ {0} /\ p \in Nat \ {0} /\ q \in Nat \ {0} /\ p * q = Unit
  <2>1. Unit = q * p /\ Unit \in Nat \ {0} /\ p \in Nat \ {0} /\ q \in Nat \ {0}
    BY UnitIs
  <2> HIDE DEF p, q
  <2> QED BY <2>1
<1>3. v * s \in Int
  BY <1>1
<1>4. y \in Int /\ 2 * Abs(y * Unit - v * s) <= Unit
  BY <1>2, <1>3, Halves
<1>5. x = y
  <2>1. CASE Fits(number, s)
    BY <2>1 DEF Fits
  <2>2. CASE Abs(v * s) <= SafeLimit * Unit
    <3>1. SafeLimit \in Nat
      BY ToolAssumption
    <3>2. Abs(y) <= SafeLimit
      BY <1>2, <1>3, <2>2, <3>1, Limited
    <3> QED BY <1>4, <3>2, CastSafe
  <2> QED BY <2>1, <2>2
<1>6. PICK z \in Int : Unscaled(x + e, s, d) = z * q /\ 2 * Abs(z * s - (x + e) * p) <= Abs(s)
  <2>1. x + e \in Int
    BY <1>4, <1>5
  <2>2. \A n \in Int : \E z \in Int : /\ Unscaled(n, s, d) = z * PowerOfTen[Digits - d]
                                  /\ 2 * Abs(z * s - n * PowerOfTen[d]) <= Abs(s)
    BY UnscaledIs
  <2> QED BY Zenon, <2>1, <2>2
<1> HIDE DEF v, p, q, y
<1>7. Abs(s) * (2 * Abs(z * q - v) - q) <= Unit + 2 * (e * Unit)
  <2>1. 2 * Abs(x * Unit - v * s) <= Unit
    BY <1>4, <1>5
  <2> QED BY <1>1, <1>2, <1>6, <2>1, ThereAndBack
<1>8. Abs(s) * (2 * Abs(z * q - v) - q) <= Unit + 2 * w
  <2> DEFINE k == e * Unit
             l == Abs(s) * (2 * Abs(z * q - v) - q)
  <2>1. k \in Int /\ k <= w
    BY <1>2
  <2>2. l \in Int
    <3>1. Abs(s) \in Int /\ Abs(z * q - v) \in Int
      BY <1>1, <1>2, Magnitude
    <3> QED BY <1>2, <3>1
  <2>3. l <= Unit + 2 * k
    BY <1>7
  <2> HIDE DEF k, l
  <2>4. l <= Unit + 2 * w
    BY <1>2, <2>1, <2>2, <2>3
  <2> QED BY <2>4 DEF l
<1> QED BY <1>6, <1>8 DEF q, v

\* From the invariant to the three properties.
LEMMA CloseHolds == text \in Texts /\ FileInv /\ RestoredInv => RestoredClose
<1> SUFFICES ASSUME text \in Texts, FileInv, RestoredInv, Decompressed PROVE RestoredClose
  BY DEF RestoredClose
<1> DEFINE columns == file.columns
           scale == file.scale
           rows == RowsAt(text, ReadFrom(text, columns))
           read == ReadRows(text, columns, scale)
<1>1. WrittenWell
  BY DEF FileInv, Decompressed
<1>2. PICK by \in {"unsqueeze", "decompress"}, d \in 0 .. MaxDecimals :
        restored = Printed(by, file.rows, file.scale, d)
  BY DEF RestoredInv
<1>3. /\ rows \in Seq(TextRows) /\ Len(rows) \in Nat
      /\ \A i \in 1 .. Len(rows) : \E j \in DOMAIN text : rows[i] = text[j]
      /\ Len(read) = Len(rows)
      /\ \A i \in 1 .. Len(rows), a \in AxesOf(columns) :
           read[i][a] = ToI32(Rounded(rows[i][a].value * scale[a], Unit))
  <2>1. rows \in Seq(TextRows) /\ Len(rows) \in Nat
    BY ReadRowsAre
  <2>2. \A i \in 1 .. Len(rows) : \E j \in DOMAIN text : rows[i] = text[j]
    BY ReadRowsAre
  <2>3. Len(read) = Len(rows)
    BY ReadRowsAre
  <2>4. \A i \in 1 .. Len(rows), a \in AxesOf(columns) :
          read[i][a] = ToI32(Rounded(rows[i][a].value * scale[a], Unit))
    BY ReadRowsAre
  <2> HIDE DEF rows, read
  <2> QED BY <2>1, <2>2, <2>3, <2>4
<1>4. /\ Len(file.rows) = Len(read)
      /\ \A i \in 1 .. Len(read) :
           /\ DOMAIN file.rows[i] = AxesOf(columns)
           /\ \A a \in AxesOf(columns) :
                Off(file.rows[i], read[i], a, said.within, said.command = "squeeze")
  BY <1>1 DEF WrittenWell
<1>5. restored.decimals = d
      /\ restored.rows = [i \in 1 .. Len(file.rows) |-> [a \in DOMAIN file.rows[i] |->
            Unscaled(file.rows[i][a], file.scale[a], d)]]
  BY <1>2 DEF Printed
<1> HIDE DEF rows, read
<1>6. Len(restored.rows) = Len(rows) /\ DOMAIN rows = 1 .. Len(rows)
  BY <1>3, <1>4, <1>5
<1>7. ASSUME NEW i \in DOMAIN rows, NEW a \in AxesOf(columns), scale[a] # 0,
             Fits(rows[i][a], scale[a])
               \/ (said.command # "compress" /\ AllMatch /\ Small(rows[i][a]))
      PROVE  Abs(scale[a]) * (2 * Abs(restored.rows[i][a] - rows[i][a].value)
                                - PowerOfTen[Digits - restored.decimals])
               <= Unit + 2 * said.within[a]
  <2>1. i \in 1 .. Len(rows) /\ i \in 1 .. Len(read) /\ a \in Axes
    BY <1>3, <1>6 DEF AxesOf, Axes
  <2>2. PICK j \in DOMAIN text : rows[i] = text[j]
    BY <1>3, <2>1
  <2> DEFINE number == rows[i][a]
             s == scale[a]
             x == read[i][a]
  <2>3. number \in Numbers /\ number.value \in Int
    BY <2>1, <2>2, TextIs
  <2>4. s \in Int /\ s # 0 /\ said.within[a] \in Int
    BY <1>1, <1>7 DEF WrittenWell
  <2>5. x = ToI32(Rounded(number.value * s, Unit))
    BY <1>3, <2>1
  <2>6. x \in Int
    <3>2. number.value * s \in Int
      BY <2>3, <2>4
    <3>3. Rounded(number.value * s, Unit) \in Int
      BY <3>2, Halves, UnitIs
    <3> QED BY <2>5, <3>3, CastIsInt
  <2>7. PICK e \in Nat : file.rows[i][a] = x + e /\ e * Unit <= said.within[a]
    BY <1>4, <2>1 DEF Off
  <2>8. Fits(number, s) \/ Abs(number.value * s) <= SafeLimit * Unit
    <3> SUFFICES ASSUME said.command # "compress", AllMatch, Small(number)
                 PROVE  Abs(number.value * s) <= SafeLimit * Unit
      BY <1>7
    <3>1. columns = SniffedColumns(text) /\ scale = ScalesFor(text)
      BY <1>1 DEF WrittenWell
    <3> columns \in Columns
      BY <1>1 DEF WrittenWell
    <3> columns # 0
      BY DEF Columns
    <3>2. j \in Matching(text)
      BY DEF AllMatch
    <3> QED BY <2>2, <3>1, <3>2, TextScales
  <2>9. d \in 0 .. Digits
    BY ToolAssumption
  <2>10. restored.rows[i][a] = Unscaled(x + e, s, d)
    BY <1>4, <1>5, <2>1, <2>7
  <2>11. restored.decimals = d
    BY <1>5
  <2> HIDE DEF number, s, x
  <2>12. Abs(s) * (2 * Abs(Unscaled(x + e, s, d) - number.value) - PowerOfTen[Digits - d])
           <= Unit + 2 * said.within[a]
    BY <2>3, <2>4, <2>5, <2>6, <2>7, <2>8, <2>9, NumberClose
  <2> QED BY <2>10, <2>11, <2>12 DEF number, s
<1> QED BY <1>6, <1>7 DEF RestoredClose, rows

LEMMA KeptHolds == text \in Texts /\ FileInv => ValidatedRowsKept
<1> SUFFICES ASSUME text \in Texts, FileInv, Table, said.command # "compress",
                    Malformed(text, file.columns) = {}
             PROVE  Len(file.rows) = Len(text)
  BY DEF ValidatedRowsKept
<1>1. WrittenWell
  BY DEF FileInv
<1>2. ReadFrom(text, file.columns) = DOMAIN text
  <2>1. file.columns \in Int
    <3>1. file.columns \in Columns
      BY <1>1 DEF WrittenWell
    <3> QED BY <3>1 DEF Columns
  <2>2. \A i \in DOMAIN text : text[i].numbers = file.columns
    BY DEF Malformed
  <2>3. \A i \in DOMAIN text : Readable(text[i], file.columns)
    BY <2>1, <2>2 DEF Readable
  <2> QED BY <2>3 DEF ReadFrom
<1>3. Len(ReadRows(text, file.columns, file.scale)) = Len(text)
  BY <1>2, ReadRowsAre
<1> QED BY <1>1, <1>3 DEF WrittenWell

\* A number with no more decimals than the scale has, and not too large for it, is exactly
\* what unsqueeze prints.
Printable(number, c) ==
  number.value = Rounded(ToI32(Rounded(number.value * PowerOfTen[c], Unit)) * PowerOfTen[MaxDecimals],
                         PowerOfTen[c]) * PowerOfTen[Digits - MaxDecimals]

LEMMA NumberExact ==
  ASSUME NEW number \in Numbers, AsWritten(number), NEW c \in 0 .. MaxDecimals,
         number.decimals \in 0 .. c, Abs(number.value * PowerOfTen[c]) <= SafeLimit * Unit
  PROVE  Printable(number, c)
<1> DEFINE v == number.value
           k == number.decimals
           pc10 == PowerOfTen[c]
           pm == PowerOfTen[MaxDecimals]
           qc == PowerOfTen[Digits - c]
           qm == PowerOfTen[Digits - MaxDecimals]
           qk == PowerOfTen[Digits - k]
           dk == PowerOfTen[c - k]
           dm == PowerOfTen[MaxDecimals - c]
<1>1. v \in Int /\ k \in 0 .. c
  BY DEF Numbers
<1>2. Digits \in Nat /\ MaxDecimals \in 0 .. Digits /\ c \in 0 .. MaxDecimals /\ c \in 0 .. Digits
  BY ToolAssumption
<1>3. /\ Unit \in Nat \ {0} /\ pc10 \in Nat \ {0} /\ pm \in Nat \ {0}
      /\ qc \in Nat \ {0} /\ qm \in Nat \ {0} /\ qk \in Nat \ {0}
      /\ dk \in Nat \ {0} /\ dm \in Nat \ {0} /\ Unit = qc * pc10
  <2>1. k \in 0 .. Digits /\ c - k \in 0 .. Digits /\ MaxDecimals - c \in 0 .. Digits
    BY <1>1, <1>2
  <2> QED BY <1>2, <2>1, UnitIs
<1>4. qk = qc * dk
  <2>1. Digits - c \in Nat /\ c - k \in Nat /\ (Digits - c) + (c - k) = Digits - k
        /\ (Digits - c) + (c - k) <= Digits
    BY <1>1, <1>2
  <2> QED BY <2>1, TensMultiply
<1>5. pm = dm * pc10
  <2>1. MaxDecimals - c \in Nat /\ c \in Nat /\ (MaxDecimals - c) + c = MaxDecimals
        /\ (MaxDecimals - c) + c <= Digits
    BY <1>2
  <2> QED BY <2>1, TensMultiply
<1>6. qc = qm * dm
  <2>1. Digits - MaxDecimals \in Nat /\ MaxDecimals - c \in Nat
        /\ (Digits - MaxDecimals) + (MaxDecimals - c) = Digits - c
        /\ (Digits - MaxDecimals) + (MaxDecimals - c) <= Digits
    BY <1>2
  <2> QED BY <2>1, TensMultiply
<1>7. v % qk = 0
  BY <1>1, <1>2 DEF AsWritten
<1>8. PICK m \in Int : v = qk * m
  <2> HIDE DEF v, qk
  <2>1. v \div qk \in Int /\ v = qk * (v \div qk) + (v % qk)
    BY <1>1, <1>3, DivMod
  <2> DEFINE m == v \div qk
  <2>2. m \in Int /\ v = qk * m + 0
    BY <1>7, <2>1
  <2>3. qk * m \in Int
    BY <1>3, <2>2
  <2> HIDE DEF m
  <2> QED BY <2>2, <2>3
<1> DEFINE n == m * dk
<1>9. n \in Int
  BY <1>3, <1>8
<1>10. v = n * qc
  <2> HIDE DEF v, qk, qc, dk
  <2> QED BY <1>3, <1>4, <1>8
<1> HIDE DEF n
<1>11. v * pc10 = n * Unit
  <2> HIDE DEF v, qc, pc10
  <2> QED BY <1>3, <1>9, <1>10
<1>12. Rounded(v * pc10, Unit) = n
  BY <1>3, <1>9, <1>11, Whole
<1>13. ToI32(n) = n
  <2>1. n * Unit \in Int /\ Abs(n * Unit) <= SafeLimit * Unit
    BY <1>3, <1>9, <1>11
  <2>2. SafeLimit \in Nat
    BY ToolAssumption
  <2>3. Abs(Rounded(n * Unit, Unit)) <= SafeLimit
    BY <1>3, <2>1, <2>2, Limited
  <2> QED BY <1>9, <1>11, <1>12, <2>3, CastSafe
<1> DEFINE r == n * dm
<1>14. r \in Int /\ n * pm = r * pc10
  <2> HIDE DEF dm, pc10, pm
  <2> QED BY <1>3, <1>5, <1>9
<1>15. r * qm = v
  <2> HIDE DEF dm, qm, qc, v
  <2> QED BY <1>3, <1>6, <1>9, <1>10
<1> HIDE DEF r
<1>16. Rounded(n * pm, pc10) = r
  BY <1>3, <1>14, Whole
<1> QED BY <1>12, <1>13, <1>15, <1>16 DEF Printable

LEMMA ExactHolds == text \in Texts /\ FileInv /\ RestoredInv => SqueezeExact
<1> DEFINE columns == file.columns
           scale == file.scale
           read == ReadRows(text, columns, scale)
           c(a) == SniffedDecimals(text, a)
<1> SUFFICES ASSUME text \in Texts, FileInv, RestoredInv, Table, said.command = "squeeze",
                    restored.by = "unsqueeze", AllMatch, Malformed(text, columns) = {},
                    \A i \in DOMAIN text, a \in AxesOf(columns) :
                      /\ text[i][a].decimals \in 0 .. MaxDecimals
                      /\ \A j \in DOMAIN text :
                           Abs(text[i][a].value) * PowerOfTen[text[j][a].decimals] <= SafeLimit * Unit
             PROVE  restored.rows = [i \in DOMAIN text |-> [a \in AxesOf(columns) |-> text[i][a].value]]
  BY DEF SqueezeExact
<1>1. WrittenWell
  BY DEF FileInv
<1>2. /\ columns \in Columns /\ columns = SniffedColumns(text) /\ scale = ScalesFor(text)
  BY <1>1 DEF WrittenWell
<1>3. columns # 0 /\ columns \in Int
  BY <1>2 DEF Columns
<1>4. Decompressed
  BY DEF Decompressed, Nothing
<1>5. restored = Printed("unsqueeze", file.rows, scale, MaxDecimals)
  <2>1. PICK by \in {"unsqueeze", "decompress"}, d \in 0 .. MaxDecimals :
          /\ by = "unsqueeze" => d = MaxDecimals
          /\ restored = Printed(by, file.rows, scale, d)
    BY <1>4 DEF RestoredInv
  <2>2. restored.by = by
    BY <2>1 DEF Printed
  <2> QED BY <2>1, <2>2
<1>6. DOMAIN text = 1 .. Len(text) /\ Len(text) \in Nat
  BY TextIs
<1>7. ReadFrom(text, columns) = DOMAIN text
  <2>1. \A i \in DOMAIN text : text[i].numbers = columns
    BY DEF Malformed
  <2>2. \A i \in DOMAIN text : Readable(text[i], columns)
    BY <1>3, <2>1 DEF Readable
  <2> QED BY <2>2 DEF ReadFrom
<1>8. /\ Len(read) = Len(text)
      /\ \A i \in 1 .. Len(text), a \in AxesOf(columns) :
           read[i][a] = ToI32(Rounded(text[i][a].value * scale[a], Unit))
  BY <1>7, ReadRowsAre
<1>9. /\ Len(file.rows) = Len(read)
      /\ \A i \in 1 .. Len(read) :
           /\ DOMAIN file.rows[i] = AxesOf(columns)
           /\ \A a \in AxesOf(columns) :
                Off(file.rows[i], read[i], a, said.within, said.command = "squeeze")
  BY <1>1 DEF WrittenWell
<1> HIDE DEF read
<1>10. ASSUME NEW a \in AxesOf(columns)
       PROVE  /\ a \in Axes /\ c(a) \in 0 .. MaxDecimals /\ scale[a] = PowerOfTen[c(a)]
              /\ \A i \in DOMAIN text :
                   text[i][a].decimals <= c(a)
                   /\ Abs(text[i][a].value * PowerOfTen[c(a)]) <= SafeLimit * Unit
  <2> DEFINE d == c(a)
             m == SniffedMaxAbs(text, a)
  <2>1. a \in Axes /\ MaxDecimals \in 0 .. Digits /\ Digits \in Nat
    BY ToolAssumption DEF AxesOf, Axes
  <2>2. Matching(text) = DOMAIN text
    BY DEF AllMatch
  <2>3. \A i \in Matching(text), b \in AxesOf(SniffedColumns(text)) : text[i][b].decimals >= 0
    BY <1>2, <2>1, <2>2
  <2>4. \A i \in Matching(text) : text[i][a].decimals \in 0 .. MaxDecimals
    BY <2>2
  <2>5. /\ d \in 0 .. MaxDecimals
        /\ \A i \in DOMAIN text : text[i][a].decimals <= d
        /\ \E i \in DOMAIN text : d = text[i][a].decimals
    BY <1>2, <1>3, <2>1, <2>2, <2>3, <2>4, DecimalsAre
  <2>6. PICK j \in DOMAIN text : d = text[j][a].decimals
    BY <2>5
  <2>7. /\ m \in Nat
        /\ \A i \in DOMAIN text : Abs(text[i][a].value) <= m
        /\ \E i \in DOMAIN text : m = Abs(text[i][a].value)
    BY <1>2, <1>3, <2>1, <2>2, MaxAbsIs
  <2>8. m * PowerOfTen[d] <= SafeLimit * Unit
    BY <2>6, <2>7
  <2>9. scale[a] = SafeScale(d, m)
    BY <1>2 DEF ScalesFor
  <2> HIDE DEF d, m
  <2>10. SafeScale(d, m) = PowerOfTen[d]
    <3>1. d \in 0 .. Digits
      BY <2>1, <2>5
    <3>2. PICK e \in 0 .. d : SafeScale(d, m) = PowerOfTen[e] /\ (m * PowerOfTen[d] <= SafeLimit * Unit => e = d)
      BY <2>7, <3>1, ScaleIs
    <3> QED BY <2>8, <3>2
  <2>11. ASSUME NEW i \in DOMAIN text
         PROVE  Abs(text[i][a].value * PowerOfTen[d]) <= SafeLimit * Unit
    <3> DEFINE v == text[i][a].value
               p == PowerOfTen[d]
               k == Abs(v)
    <3>1. k * p <= SafeLimit * Unit
      BY <2>6
    <3>2. v \in Int /\ p \in Nat
      BY <2>1, <2>5, TextIs, UnitIs
    <3>3. k \in Nat /\ (v = k \/ v = -k)
      BY <3>2, Magnitude
    <3> HIDE DEF v, p, k
    <3>4. k * p \in Nat /\ (v * p = k * p \/ v * p = -(k * p))
      BY <3>2, <3>3
    <3>5. Abs(v * p) = k * p
      BY <3>4, Magnitude
    <3> QED BY <3>1, <3>5 DEF v, p
  <2> QED BY <2>1, <2>5, <2>9, <2>10, <2>11 DEF d
<1>11. ASSUME NEW i \in 1 .. Len(text), NEW a \in AxesOf(columns)
       PROVE  Unscaled(file.rows[i][a], scale[a], MaxDecimals) = text[i][a].value
  <2> DEFINE number == text[i][a]
             x == ToI32(Rounded(number.value * PowerOfTen[c(a)], Unit))
  <2>1. a \in Axes /\ c(a) \in 0 .. MaxDecimals /\ scale[a] = PowerOfTen[c(a)]
        /\ number.decimals <= c(a) /\ number.decimals \in 0 .. MaxDecimals
        /\ Abs(number.value * PowerOfTen[c(a)]) <= SafeLimit * Unit
    BY <1>6, <1>10
  <2>2. number \in Numbers /\ AsWritten(number) /\ number.value \in Int
    BY <1>6, <2>1, TextIs
  <2>3. number.decimals \in 0 .. c(a)
    <3>1. MaxDecimals \in Int
      BY ToolAssumption
    <3> QED BY <2>1, <3>1
  <2>4. Printable(number, c(a))
    <3> HIDE DEF number
    <3> QED BY <2>1, <2>2, <2>3, NumberExact
  <2>5. PICK e \in Nat : file.rows[i][a] = read[i][a] + e /\ e = 0
    BY <1>6, <1>8, <1>9 DEF Off
  <2>6. read[i][a] = x
    BY <1>8, <2>1
  <2>7. x \in Int
    <3>1. Digits \in Nat /\ MaxDecimals \in 0 .. Digits
      BY ToolAssumption
    <3>2. PowerOfTen[c(a)] \in Nat
      <4> DEFINE d == c(a)
      <4> SUFFICES PowerOfTen[d] \in Nat
        OBVIOUS
      <4>1. d \in 0 .. Digits
        BY <2>1, <3>1
      <4> HIDE DEF d
      <4> QED BY <4>1, UnitIs
    <3>3. number.value * PowerOfTen[c(a)] \in Int
      BY <2>2, <3>2
    <3>4. Rounded(number.value * PowerOfTen[c(a)], Unit) \in Int
      BY <3>3, Halves, UnitIs
    <3> QED BY <3>4, CastIsInt
  <2>8. file.rows[i][a] = x
    <3> HIDE DEF x
    <3> QED BY <2>5, <2>6, <2>7
  <2>9. Unscaled(x, scale[a], MaxDecimals)
          = Rounded(x * PowerOfTen[MaxDecimals], scale[a]) * PowerOfTen[Digits - MaxDecimals]
    <3>1. Digits \in Nat /\ MaxDecimals \in 0 .. Digits
      BY ToolAssumption
    <3> DEFINE d == c(a)
    <3>2. d \in 0 .. Digits
      BY <2>1, <3>1
    <3>3. scale[a] = PowerOfTen[d]
      BY <2>1
    <3> HIDE DEF d, x
    <3>4. scale[a] \in Nat \ {0}
      BY <3>2, <3>3, UnitIs
    <3> QED BY <2>7, <3>1, <3>4, UnscaledPositive
  <2>10. number.value = Rounded(x * PowerOfTen[MaxDecimals], scale[a]) * PowerOfTen[Digits - MaxDecimals]
    BY <2>1, <2>4 DEF Printable
  <2> QED BY <2>8, <2>9, <2>10
<1>12. restored.rows = [i \in 1 .. Len(file.rows) |-> [a \in DOMAIN file.rows[i] |->
         Unscaled(file.rows[i][a], scale[a], MaxDecimals)]]
  BY <1>5 DEF Printed
<1>13. Len(file.rows) = Len(text)
       /\ \A i \in 1 .. Len(text) : DOMAIN file.rows[i] = AxesOf(columns)
  BY <1>8, <1>9
<1> QED BY <1>6, <1>11, <1>12, <1>13
-----------------------------------------------------------------------------
(* The commands.                                                            *)

\* The errors the search for an axis is given to look at.
Searched(a) ==
  LET scale == ScalesFor(text)
      rows == ReadRows(text, SniffedColumns(text), scale)
  IN  [s \in 1 .. MaxStep |-> Measured(rows, a, s) * (Unit \div scale[a])]

StepFound(a) == budgets[a] # <<>> /\ steps[a] # 0 => Searched(a)[steps[a]] <= budgets[a][1]

Limits == {<<>>} \union {<<b>> : b \in Int}

\* Where optimize is: only a table is searched, an axis has its own errors and its own
\* budget, and the step of an axis that was searched is within its budget.
SearchInv ==
  /\ pc \in {"shell", "write"} \union Axes
  /\ budgets \in [Axes -> Limits] /\ steps \in [Axes -> 0 .. MaxStep]
  /\ pc # "shell" =>
       /\ SniffedColumns(text) \in Columns
       /\ \A a \in Axes : budgets[a] # <<>> => a \in AxesOf(SniffedColumns(text))
  /\ pc \in Axes => budgets[pc] # <<>> /\ err = Searched(pc) /\ budget = budgets[pc][1]
  /\ pc = "ori" => StepFound("pos")
  /\ pc = "write" => \A a \in Axes : StepFound(a)

Inputs == text \in Texts /\ codec \in [Axes -> CodecErrors]

ToolInv == Inputs /\ IInv /\ FileInv /\ RestoredInv /\ SearchInv

\* Between searches.
LEMMA IdleSearch ==
  err = NoErrors /\ budget = 0 /\ lo = 1 /\ hi = MaxStep /\ best = MaxStep /\ stage = "done" => IInv
<1> SUFFICES ASSUME err = NoErrors, budget = 0, lo = 1, hi = MaxStep, best = MaxStep,
                    stage = "done"
             PROVE  IInv
  OBVIOUS
<1>1. MaxStep \in Nat \ {0}
  BY StepsAssumption
<1>2. err \in ErrorFunctions /\ \A s \in 1 .. MaxStep : err[s] = 0
  BY DEF NoErrors, ErrorFunctions
<1> QED BY <1>1, <1>2 DEF IInv, TypeInv, LargestWithinBudget

LEMMA SearchStays == SearchInv /\ UNCHANGED <<text, codec, found, search>> => SearchInv'
<1> SUFFICES ASSUME SearchInv, UNCHANGED <<text, codec, found, search>> PROVE SearchInv'
  OBVIOUS
<1>1. /\ text' = text /\ codec' = codec /\ pc' = pc /\ budgets' = budgets /\ steps' = steps
      /\ err' = err /\ budget' = budget
  BY DEF found, search
<1>2. \A a : Searched(a)' = Searched(a)
  BY <1>1 DEF Searched, Measured
<1>3. \A a \in Axes : StepFound(a)' = StepFound(a)
  BY <1>1, <1>2 DEF StepFound
<1> QED BY <1>1, <1>2, <1>3 DEF SearchInv, Axes

LEMMA SearchIdles == IInv /\ UNCHANGED search => IInv'
BY DEF IInv, TypeInv, Interval, Monotone, LargestWithinBudget, search

LEMMA FileStays ==
  FileInv /\ RestoredInv /\ UNCHANGED <<text, file, said, restored>> => FileInv' /\ RestoredInv'
<1> SUFFICES ASSUME FileInv, RestoredInv, UNCHANGED <<text, file, said, restored>>
             PROVE  FileInv' /\ RestoredInv'
  OBVIOUS
<1>1. text' = text /\ file' = file /\ said' = said /\ restored' = restored
  OBVIOUS
<1>2. Table' = Table /\ Decompressed' = Decompressed
  BY <1>1 DEF Table, Decompressed
<1>3. WrittenWell' = WrittenWell
  BY <1>1 DEF WrittenWell
<1> QED BY <1>1, <1>2, <1>3 DEF FileInv, RestoredInv

\* What is measured, and the whole of what a search looks at, are errors.
LEMMA MeasuredIs ==
  ASSUME Inputs, NEW rows, NEW a \in Axes, NEW s \in 1 .. MaxStep
  PROVE  /\ Measured(rows, a, s) \in Nat /\ codec[a][s] \in Nat
         /\ s = 1 => Measured(rows, a, s) = 0 /\ codec[a][s] = 0
<1>1. codec[a] \in [1 .. MaxStep -> Nat] /\ codec[a][1] = 0
  <2>1. codec[a] \in CodecErrors
    BY DEF Inputs
  <2> QED BY <2>1, ToolAssumption
<1> QED BY <1>1 DEF Measured

LEMMA SearchedIs ==
  ASSUME Inputs, SniffedColumns(text) # 0, NEW a \in AxesOf(SniffedColumns(text))
  PROVE  Searched(a) \in ErrorFunctions
<1> DEFINE scale == ScalesFor(text)
           rows == ReadRows(text, SniffedColumns(text), scale)
           u == Unit \div scale[a]
<1>1. a \in Axes
  BY DEF AxesOf, Axes
<1>2. u \in Nat
  <2>1. IsScale(scale[a])
    BY TextScales DEF Inputs
  <2> QED BY <2>1, ScaleDivides
<1>3. \A s \in 1 .. MaxStep : Measured(rows, a, s) \in Nat
  BY <1>1, MeasuredIs
<1>4. Searched(a) = [s \in 1 .. MaxStep |-> Measured(rows, a, s) * u]
  BY DEF Searched
<1> HIDE DEF u, rows
<1>5. \A s \in 1 .. MaxStep : Measured(rows, a, s) * u \in Int
  BY <1>2, <1>3
<1> QED BY <1>4, <1>5 DEF ErrorFunctions

\* A budget that is told is not below zero, nor below the one that was given.
LEMMA LargerOf ==
  ASSUME NEW b \in Int
  PROVE  Largest({0, b}) \in Int /\ 0 <= Largest({0, b}) /\ b <= Largest({0, b})
<1> DEFINE S == {0, b}
<1>1. \E x \in S : \A y \in S : y <= x
  <2>1. CASE b <= 0
    BY <2>1
  <2>2. CASE b > 0
    BY <2>2
  <2> QED BY <2>1, <2>2
<1>2. Largest(S) \in S /\ \A y \in S : y <= Largest(S)
  <2> HIDE DEF S
  <2> QED BY <1>1 DEF Largest
<1>3. 0 \in S /\ b \in S
  OBVIOUS
<1>4. \A x \in S : x \in Int
  OBVIOUS
<1> HIDE DEF S
<1>5. Largest(S) \in Int /\ 0 <= Largest(S) /\ b <= Largest(S)
  BY <1>2, <1>3, <1>4
<1> QED BY <1>5 DEF S

LEMMA StretchBelow ==
  ASSUME NEW x \in Int, NEW b \in Int, NEW s \in Nat, x <= b
  PROVE  x * s <= b * s
<1>1. PICK k \in Nat : b = x + k
  <2>1. b - x \in Nat /\ b = x + (b - x)
    OBVIOUS
  <2> QED BY <2>1
<1>2. b * s = x * s + k * s
  BY <1>1
<1>3. k * s \in Nat /\ x * s \in Int
  OBVIOUS
<1> QED BY <1>2, <1>3

LEMMA Product ==
  ASSUME NEW m \in Nat, NEW u \in Nat
  PROVE  m * u \in Nat /\ (m = 0 => m * u = 0)
<1>1. m * u \in Int
  OBVIOUS
<1>2. m * u >= 0
  OBVIOUS
<1> QED BY <1>1, <1>2

\* What holds of the arguments of Wrote, whichever command it is.
WritesWell(command, columns, scale, step) ==
  /\ command \in {"compress", "squeeze", "squeeze lossy", "optimize"}
  /\ columns \in Columns
  /\ \A a \in AxesOf(columns) : scale[a] \in Int /\ step[a] \in 1 .. MaxStep
  /\ command # "compress" => columns = SniffedColumns(text) /\ scale = ScalesFor(text)
  /\ command = "squeeze" => \A a \in AxesOf(columns) : step[a] = 1
  /\ command = "optimize" => \A a \in AxesOf(columns) : budgets[a] # <<>> =>
       /\ budgets[a][1] \in Int /\ scale[a] \in Nat
       /\ LET m == Measured(ReadRows(text, columns, scale), a, step[a])
          IN  m = 0 \/ m * Unit <= budgets[a][1] * scale[a]

\* What a command writes is what the invariant says of a file.
LEMMA WroteIs ==
  ASSUME Inputs, text' = text, NEW command, NEW columns, NEW scale, NEW step,
         WritesWell(command, columns, scale, step), Wrote(command, columns, scale, step)
  PROVE  FileInv' /\ RestoredInv'
<1> DEFINE rows == ReadRows(text, columns, scale)
           Error(a) == Measured(rows, a, step[a])
           Allowed(a) == command = "optimize" /\ budgets[a] # <<>>
<1>1. /\ file' = [columns |-> columns, scale |-> scale, rows |-> Lossy(rows, step)]
      /\ said' = [command |-> command,
                  within |-> [a \in AxesOf(columns) |->
                    IF Allowed(a) THEN Largest({0, budgets[a][1]}) * scale[a]
                    ELSE Error(a) * Unit]]
      /\ restored' = Nothing
  BY DEF Wrote
<1>0. /\ columns \in Columns
      /\ command \in {"compress", "squeeze", "squeeze lossy", "optimize"}
      /\ command # "compress" => columns = SniffedColumns(text) /\ scale = ScalesFor(text)
      /\ \A a \in AxesOf(columns) : scale[a] \in Int /\ step[a] \in 1 .. MaxStep
  BY DEF WritesWell
<1>2. /\ Len(rows) \in Nat /\ DOMAIN rows = 1 .. Len(rows)
      /\ \A i \in 1 .. Len(rows) : DOMAIN rows[i] = AxesOf(columns)
  BY ReadRowsAre DEF Inputs
<1>3. ASSUME NEW a \in AxesOf(columns)
      PROVE  /\ a \in Axes /\ Error(a) \in Nat
             /\ codec[a][step[a]] \in Nat
             /\ step[a] = 1 => codec[a][step[a]] = 0
  <2>1. a \in Axes
    BY DEF AxesOf, Axes
  <2>2. step[a] \in 1 .. MaxStep
    BY <1>0
  <2> HIDE DEF rows
  <2> QED BY <2>1, <2>2, MeasuredIs
<1>4. ASSUME NEW a \in AxesOf(columns)
      PROVE  /\ said'.within[a] \in Int
             /\ Error(a) * Unit <= said'.within[a] /\ 0 <= said'.within[a]
  <2> DEFINE m == Error(a)
             w == said'.within[a]
             s == scale[a]
  <2>1. m \in Nat /\ Unit \in Nat
    BY <1>3, UnitIs
  <2>2. Allowed(a) => /\ budgets[a][1] \in Int /\ s \in Nat
                      /\ m = 0 \/ m * Unit <= budgets[a][1] * s
    BY DEF WritesWell
  <2>3. w = IF Allowed(a) THEN Largest({0, budgets[a][1]}) * s ELSE m * Unit
    BY <1>1
  <2> HIDE DEF m, w, s
  <2>4. m * Unit \in Nat /\ (m = 0 => m * Unit = 0)
    BY <2>1, Product
  <2>5. w \in Int /\ m * Unit <= w /\ 0 <= w
    <3>1. CASE Allowed(a)
      <4> DEFINE b == budgets[a][1]
                 l == Largest({0, b})
      <4>1. b \in Int /\ s \in Nat /\ (m = 0 \/ m * Unit <= b * s) /\ w = l * s
        BY <2>2, <2>3, <3>1
      <4> HIDE DEF b
      <4>2. l \in Int /\ 0 <= l /\ b <= l
        BY <4>1, LargerOf
      <4> HIDE DEF l
      <4>3. l * s \in Nat
        <5>1. l \in Nat
          BY <4>2
        <5> QED BY <4>1, <5>1, Product
      <4>4. b * s <= l * s /\ b * s \in Int
        BY <4>1, <4>2, StretchBelow
      <4> DEFINE k == m * Unit
                 f == b * s
                 g == l * s
      <4>5. k \in Nat /\ (k = 0 \/ k <= f) /\ f <= g /\ f \in Int /\ g \in Nat /\ w = g
        BY <2>4, <4>1, <4>3, <4>4
      <4> HIDE DEF k, f, g
      <4>6. w \in Int /\ k <= w /\ 0 <= w
        BY <4>5
      <4> QED BY <4>6 DEF k
    <3>2. CASE ~Allowed(a)
      <4>1. w = m * Unit
        BY <2>3, <3>2
      <4> QED BY <2>4, <4>1
    <3> QED BY <3>1, <3>2
  <2> QED BY <2>5 DEF w, m
<1>5. file'.rows = [i \in 1 .. Len(rows) |->
        [a \in DOMAIN rows[i] |-> rows[i][a] + IF i = Len(rows) THEN codec[a][step[a]] ELSE 0]]
  BY <1>1 DEF Lossy
<1>6. /\ file'.columns = columns /\ file'.scale = scale /\ said'.command = command
  BY <1>1
<1>7. ReadRows(text', file'.columns, file'.scale) = rows
  BY <1>6
<1> HIDE DEF rows
<1>8. /\ DOMAIN file'.rows = 1 .. Len(rows) /\ Len(file'.rows) = Len(rows)
      /\ \A i \in 1 .. Len(rows) : DOMAIN file'.rows[i] = AxesOf(columns)
  <2>1. DOMAIN file'.rows = 1 .. Len(rows)
    BY <1>5
  <2>2. Len(file'.rows) = Len(rows)
    BY <1>2, <2>1
  <2>3. ASSUME NEW i \in 1 .. Len(rows) PROVE DOMAIN file'.rows[i] = AxesOf(columns)
    BY <1>2, <1>5
  <2> QED BY <2>1, <2>2, <2>3
<1>9. ASSUME NEW i \in 1 .. Len(rows), NEW a \in AxesOf(columns)
      PROVE  Off(file'.rows[i], rows[i], a, said'.within, command = "squeeze")
  <2> DEFINE e == IF i = Len(rows) THEN codec[a][step[a]] ELSE 0
  <2>1. file'.rows[i][a] = rows[i][a] + e
    <3>1. file'.rows[i] =
            [x \in DOMAIN rows[i] |-> rows[i][x] + IF i = Len(rows) THEN codec[x][step[x]] ELSE 0]
      BY <1>5
    <3>2. a \in DOMAIN rows[i]
      BY <1>2
    <3> QED BY <3>1, <3>2
  <2>2. e \in Nat
    BY <1>3
  <2>3. command = "squeeze" => e = 0
    BY <1>3 DEF WritesWell
  <2>4. e = 0 \/ e = Error(a)
    <3>1. ASSUME rows = <<>> PROVE FALSE
      <4>1. Len(rows) = 0
        BY <3>1
      <4> QED BY <4>1
    <3> QED BY <3>1 DEF Measured
  <2>5. e * Unit <= said'.within[a]
    <3>1. CASE e = 0
      <4>1. Unit \in Nat
        BY UnitIs
      <4> HIDE DEF e
      <4>2. e * Unit = 0
        BY <3>1, <4>1
      <4> QED BY <1>4, <4>2
    <3>2. CASE e = Error(a)
      BY <1>4, <3>2
    <3> QED BY <2>4, <3>1, <3>2
  <2> HIDE DEF e
  <2> QED BY <2>1, <2>2, <2>3, <2>5 DEF Off
<1>10. WrittenWell'
  <2>1. /\ file'.columns \in Columns
        /\ said'.command \in {"compress", "squeeze", "squeeze lossy", "optimize"}
        /\ said'.command # "compress" =>
             file'.columns = SniffedColumns(text') /\ file'.scale = ScalesFor(text')
    BY <1>0, <1>6
  <2>2. \A a \in AxesOf(file'.columns) : file'.scale[a] \in Int /\ said'.within[a] \in Int
    BY <1>0, <1>4, <1>6
  <2>3. /\ DOMAIN file'.rows = 1 .. Len(rows) /\ Len(file'.rows) = Len(rows)
        /\ \A i \in 1 .. Len(rows) :
             /\ DOMAIN file'.rows[i] = AxesOf(file'.columns)
             /\ \A a \in AxesOf(file'.columns) :
                  Off(file'.rows[i], rows[i], a, said'.within, said'.command = "squeeze")
    BY <1>6, <1>8, <1>9
  <2> QED BY <1>7, <2>1, <2>2, <2>3 DEF WrittenWell
<1> QED BY <1>1, <1>10 DEF FileInv, RestoredInv, Decompressed

\* Every quality there is ends at a step there is.
LEMMA QualitySteps ==
  ASSUME NEW quality \in Int
  PROVE  QualityToQuantStep(quality) \in 1 .. MaxStep
<1>1. MaxQuality \in Nat \ {0} /\ PowerOfTwo[MaxQuality] <= MaxStep /\ MaxStep \in Nat
  BY ToolAssumption, StepsAssumption
<1> DEFINE S == {n \in 0 .. MaxQuality : PowerOfTwo[MaxQuality - n] <= PowerOfTwo[MaxQuality]}
<1>2. 0 \in S
  BY <1>1, Twos
<1>3. ASSUME NEW n \in 1 .. MaxQuality, n - 1 \in S PROVE n \in S
  <2> DEFINE k == MaxQuality - (n - 1)
  <2>1. k \in 1 .. MaxQuality /\ k - 1 = MaxQuality - n /\ k \in 0 .. MaxQuality
        /\ k - 1 \in 0 .. MaxQuality /\ MaxQuality \in 0 .. MaxQuality
    BY <1>1
  <2>2. PowerOfTwo[k] <= PowerOfTwo[MaxQuality]
    BY <1>3
  <2>3. PowerOfTwo[MaxQuality - n] = PowerOfTwo[k - 1]
    BY <2>1
  <2> HIDE DEF k
  <2>4. PowerOfTwo[k] = 2 * PowerOfTwo[k - 1] /\ PowerOfTwo[k - 1] \in Nat /\ PowerOfTwo[k] \in Nat
        /\ PowerOfTwo[MaxQuality] \in Nat
    BY <2>1, Twos
  <2> QED BY <2>2, <2>3, <2>4
<1>4. \A n \in 0 .. MaxQuality : n \in S
  <2> HIDE DEF S
  <2> QED BY <1>1, <1>2, <1>3, Climb
<1>5. ASSUME NEW n \in 1 .. MaxQuality PROVE PowerOfTwo[n] \in 1 .. MaxStep
  <2>1. n \in 0 .. MaxQuality /\ MaxQuality - n \in 0 .. MaxQuality /\ MaxQuality - (MaxQuality - n) = n
        /\ MaxQuality \in 0 .. MaxQuality
    BY <1>1
  <2>2. PowerOfTwo[n] <= PowerOfTwo[MaxQuality]
    BY <1>4, <2>1
  <2>3. PowerOfTwo[n] \in Nat \ {0} /\ PowerOfTwo[MaxQuality] \in Nat
    BY <2>1, Twos
  <2> QED BY <1>1, <2>2, <2>3
<1> DEFINE bits == MaxQuality + 1 -
             (IF quality < 1 THEN 1 ELSE IF quality > MaxQuality THEN MaxQuality ELSE quality)
<1>6. bits \in 1 .. MaxQuality
  BY <1>1
<1>7. QualityToQuantStep(quality) = PowerOfTwo[bits]
  BY DEF QualityToQuantStep
<1> HIDE DEF bits
<1> QED BY <1>5, <1>6, <1>7

\* One command after the other, the invariant holds.
LEMMA ToolStarts == Init => ToolInv
<1> SUFFICES ASSUME Init PROVE ToolInv
  OBVIOUS
<1>1. Inputs
  BY DEF Init, Inputs
<1>2. IInv
  BY IdleSearch DEF Init
<1>3. FileInv /\ RestoredInv
  BY DEF Init, FileInv, RestoredInv, Table, Decompressed
<1>4. SearchInv
  <2>1. MaxStep \in Nat \ {0}
    BY StepsAssumption
  <2> QED BY <2>1 DEF Init, SearchInv, NoLimits, Limits, Finest, Axes
<1> QED BY <1>1, <1>2, <1>3, <1>4 DEF ToolInv

LEMMA CompressKeeps ==
  ASSUME ToolInv, NEW columns \in Columns, NEW scale, NEW step,
         \A a \in AxesOf(columns) : scale[a] \in Scales /\ step[a] \in 1 .. MaxStep,
         CompressTable(columns, scale, step)
  PROVE  ToolInv'
<1>1. /\ Wrote("compress", columns, scale, step)
      /\ UNCHANGED <<text, codec, found, search>>
  BY DEF CompressTable
<1>2. WritesWell("compress", columns, scale, step)
  <2>1. Scales \subseteq Int
    BY ToolAssumption
  <2> QED BY <2>1 DEF WritesWell
<1>3. FileInv' /\ RestoredInv'
  BY <1>1, <1>2, WroteIs DEF ToolInv
<1>4. Inputs' /\ IInv' /\ SearchInv'
  BY <1>1, SearchStays, SearchIdles DEF ToolInv, Inputs
<1> QED BY <1>3, <1>4 DEF ToolInv

LEMMA DecompressKeeps ==
  ASSUME ToolInv, NEW columns, DecompressTable(columns)
  PROVE  ToolInv'
<1>1. /\ restored' = Printed("decompress", file.rows, file.scale, ShortDecimals)
      /\ UNCHANGED <<text, codec, file, said, found, search>>
  BY DEF DecompressTable
<1>2. FileInv'
  BY <1>1 DEF ToolInv, FileInv, Table, WrittenWell
<1>3. RestoredInv'
  <2>1. ShortDecimals \in 0 .. MaxDecimals
    BY ToolAssumption
  <2> QED BY <1>1, <2>1 DEF RestoredInv
<1>4. Inputs' /\ IInv' /\ SearchInv'
  BY <1>1, SearchStays, SearchIdles DEF ToolInv, Inputs
<1> QED BY <1>2, <1>3, <1>4 DEF ToolInv

LEMMA UnsqueezeKeeps == ToolInv /\ Unsqueeze => ToolInv'
<1> SUFFICES ASSUME ToolInv, Unsqueeze PROVE ToolInv'
  OBVIOUS
<1>1. /\ restored' = IF file.columns = 0 THEN [by |-> "unsqueeze", rows |-> file.rows]
                     ELSE Printed("unsqueeze", file.rows, file.scale, MaxDecimals)
      /\ UNCHANGED <<text, codec, file, said, found, search>>
  BY DEF Unsqueeze
<1>2. FileInv'
  BY <1>1 DEF ToolInv, FileInv, Table, WrittenWell
<1>3. RestoredInv'
  <2>1. MaxDecimals \in 0 .. MaxDecimals
    BY ToolAssumption
  <2> QED BY <1>1, <2>1 DEF RestoredInv, Decompressed, Table
<1>4. Inputs' /\ IInv' /\ SearchInv'
  BY <1>1, SearchStays, SearchIdles DEF ToolInv, Inputs
<1> QED BY <1>2, <1>3, <1>4 DEF ToolInv

LEMMA SqueezeKeeps ==
  ASSUME ToolInv, NEW quality \in {<<>>} \union {<<q>> : q \in Qualities}, NEW force,
         Squeeze(quality, force)
  PROVE  ToolInv'
<1> DEFINE columns == SniffedColumns(text)
           step == IF quality = <<>> THEN 1 ELSE QualityToQuantStep(quality[1])
           command == IF quality = <<>> THEN "squeeze" ELSE "squeeze lossy"
<1>0. UNCHANGED <<text, codec, found, search>>
  BY DEF Squeeze
<1>1. ASSUME columns = 0 PROVE FileInv' /\ RestoredInv'
  <2>1. file' = [columns |-> 0, rows |-> text] /\ restored' = Nothing
    BY <1>1 DEF Squeeze
  <2> QED BY <2>1 DEF FileInv, RestoredInv, Table, Decompressed
<1>2. ASSUME columns # 0 PROVE FileInv' /\ RestoredInv'
  <2>1. Wrote(command, columns, ScalesFor(text), [a \in Axes |-> step])
    BY <1>2 DEF Squeeze
  <2>2. step \in 1 .. MaxStep
    <3>1. Qualities \subseteq Int /\ MaxStep \in Nat \ {0}
      BY ToolAssumption, StepsAssumption
    <3> QED BY <3>1, QualitySteps
  <2>3. columns \in Columns
    BY <1>2, ColumnsAre DEF ToolInv, Inputs
  <2>4. \A a \in AxesOf(columns) : a \in Axes /\ ScalesFor(text)[a] \in Int
    BY <1>2, TextScales DEF ToolInv, Inputs, AxesOf, Axes, IsScale
  <2>5. WritesWell(command, columns, ScalesFor(text), [a \in Axes |-> step])
    <3>1. command = "squeeze" => step = 1
      OBVIOUS
    <3>2. command \in {"squeeze", "squeeze lossy"}
      OBVIOUS
    <3> HIDE DEF step, command, columns
    <3> QED BY <2>2, <2>3, <2>4, <3>1, <3>2 DEF WritesWell, columns
  <2>6. text' = text /\ Inputs
    BY <1>0 DEF ToolInv
  <2> HIDE DEF step, command, columns
  <2> QED BY <2>1, <2>5, <2>6, WroteIs
<1>3. FileInv' /\ RestoredInv'
  BY <1>1, <1>2
<1>4. Inputs' /\ IInv' /\ SearchInv'
  BY <1>0, SearchStays, SearchIdles DEF ToolInv, Inputs
<1> QED BY <1>3, <1>4 DEF ToolInv

\* The next search of optimize is for an axis of the table that has a budget.
LEMMA BeginKeeps ==
  ASSUME Inputs, SniffedColumns(text) # 0, NEW a \in AxesOf(SniffedColumns(text)), NEW b \in Int,
         BeginSearch(a, b)
  PROVE  IInv' /\ err' = Searched(a) /\ budget' = b
<1>1. Searched(a) \in ErrorFunctions
  BY SearchedIs
<1>2. Begin(Searched(a), b)
  BY DEF BeginSearch, Searched
<1>3. IInv'
  BY <1>1, <1>2, BeginInv
<1> QED BY <1>2, <1>3 DEF Begin

LEMMA OptimizeKeeps ==
  ASSUME ToolInv, NEW limits \in [Axes -> {<<>>} \union {<<b>> : b \in Budgets}], NEW force,
         Optimize(limits, force)
  PROVE  ToolInv'
<1> DEFINE columns == SniffedColumns(text)
           first == IF limits["pos"] # <<>> THEN "pos" ELSE "ori"
<1>1. /\ limits # NoLimits /\ columns \in Columns /\ (columns # 7 => limits["pos"] # <<>>)
      /\ budgets' = [a \in Axes |-> IF a \in AxesOf(columns) THEN limits[a] ELSE <<>>]
      /\ steps' = Finest /\ pc' = first
      /\ BeginSearch(first, limits[first][1])
      /\ UNCHANGED <<text, codec, file, said, restored>>
  BY DEF Optimize, state
<1>2. columns # 0 /\ Inputs
  BY <1>1 DEF Columns, ToolInv
<1>3. \A a \in Axes : limits[a] \in Limits /\ (limits[a] # <<>> => limits[a][1] \in Int)
  <2>1. Budgets \subseteq Int
    BY ToolAssumption
  <2>2. \A a \in Axes : limits[a] = <<>> \/ \E b \in Int : limits[a] = <<b>>
    BY <2>1
  <2> QED BY <2>2 DEF Limits
<1>4. limits[first] # <<>> /\ first \in AxesOf(columns) /\ first \in Axes
  <2>1. \E a \in Axes : limits[a] # <<>>
    BY <1>1 DEF NoLimits
  <2> QED BY <1>1, <2>1 DEF AxesOf, Axes
<1>5. limits[first][1] \in Int
  BY <1>3, <1>4
<1> HIDE DEF first
<1>6. IInv' /\ err' = Searched(first) /\ budget' = limits[first][1]
  BY <1>1, <1>2, <1>4, <1>5, BeginKeeps
<1>7. FileInv' /\ RestoredInv' /\ Inputs'
  BY <1>1, FileStays DEF ToolInv, Inputs
<1>8. SearchInv'
  <2>1. Searched(first)' = Searched(first)
    BY <1>1, <1>4 DEF Searched, Measured
  <2>2. budgets' \in [Axes -> Limits]
    BY <1>1, <1>3 DEF Limits
  <2>3. steps' \in [Axes -> 0 .. MaxStep]
    <3>1. MaxStep \in Nat \ {0}
      BY StepsAssumption
    <3> QED BY <1>1, <3>1 DEF Finest
  <2>4. budgets'[first] = limits[first]
    BY <1>1, <1>4
  <2>5. pc' \in Axes
    BY <1>1, <1>4
  <2>6. \A a \in Axes : budgets'[a] # <<>> => a \in AxesOf(columns)
    BY <1>1
  <2>7. err' = Searched(pc)' /\ budget' = budgets'[pc'][1] /\ budgets'[pc'] # <<>>
    BY <1>1, <1>4, <1>6, <2>1, <2>4
  <2>8. pc' = "ori" => StepFound("pos")'
    <3> SUFFICES ASSUME pc' = "ori" PROVE budgets'["pos"] = <<>>
      BY DEF StepFound
    <3>1. limits["pos"] = <<>>
      BY <1>1 DEF first
    <3> QED BY <1>1, <3>1 DEF Axes
  <2> QED BY <1>1, <2>2, <2>3, <2>5, <2>6, <2>7, <2>8 DEF SearchInv, Axes
<1> QED BY <1>6, <1>7, <1>8 DEF ToolInv

LEMMA SearchStepKeeps == ToolInv /\ SearchStep => ToolInv'
<1> SUFFICES ASSUME ToolInv, SearchStep PROVE ToolInv'
  OBVIOUS
<1>1. (First \/ Probe) /\ UNCHANGED <<text, codec, file, said, restored, pc, budgets, steps>>
  BY DEF SearchStep, state, found
<1>2. IInv'
  BY <1>1, FirstInv, ProbeInv DEF ToolInv
<1>3. FileInv' /\ RestoredInv' /\ Inputs'
  BY <1>1, FileStays DEF ToolInv, Inputs
<1>4. err' = err /\ budget' = budget
  BY <1>1 DEF First, Probe
<1>5. \A a : Searched(a)' = Searched(a)
  BY <1>1 DEF Searched, Measured
<1>6. \A a : StepFound(a)' = StepFound(a)
  BY <1>1, <1>5 DEF StepFound
<1>7. SearchInv'
  BY <1>1, <1>4, <1>5, <1>6 DEF ToolInv, SearchInv
<1> QED BY <1>2, <1>3, <1>7 DEF ToolInv

LEMMA SearchEndsKeeps == ToolInv /\ SearchEnds => ToolInv'
<1> SUFFICES ASSUME ToolInv, SearchEnds PROVE ToolInv'
  OBVIOUS
<1>1. /\ pc \in Axes /\ stage = "done"
      /\ steps' = [steps EXCEPT ![pc] = best]
      /\ UNCHANGED <<text, codec, file, said, restored, budgets>>
      /\ IF pc = "pos" /\ budgets["ori"] # <<>>
         THEN pc' = "ori" /\ BeginSearch("ori", budgets["ori"][1])
         ELSE /\ pc' = "write"
              /\ err' = NoErrors /\ budget' = 0
              /\ lo' = 1 /\ hi' = MaxStep /\ best' = MaxStep /\ stage' = "done"
  BY DEF SearchEnds, state
<1>2. /\ budgets \in [Axes -> Limits] /\ steps \in [Axes -> 0 .. MaxStep]
      /\ SniffedColumns(text) \in Columns
      /\ \A a \in Axes : budgets[a] # <<>> => a \in AxesOf(SniffedColumns(text))
      /\ budgets[pc] # <<>> /\ err = Searched(pc) /\ budget = budgets[pc][1]
      /\ pc = "ori" => StepFound("pos")
  BY <1>1 DEF ToolInv, SearchInv, Axes
<1>3. Inputs /\ IInv /\ SniffedColumns(text) # 0
  BY <1>2 DEF ToolInv, Columns
<1>4. best \in 0 .. MaxStep /\ (best = 0 \/ err[best] <= budget)
  BY <1>1, <1>3 DEF IInv, TypeInv, LargestWithinBudget
<1>5. FileInv' /\ RestoredInv' /\ Inputs'
  BY <1>1, FileStays DEF ToolInv, Inputs
<1>6. \A a : Searched(a)' = Searched(a)
  BY <1>1 DEF Searched, Measured
<1>7. steps' \in [Axes -> 0 .. MaxStep] /\ steps'[pc] = best
      /\ \A a \in Axes : a # pc => steps'[a] = steps[a]
  BY <1>1, <1>2, <1>4
<1>8. ASSUME NEW a \in Axes, a = pc PROVE StepFound(a)'
  <2>1. Searched(a)' = Searched(a) /\ budgets'[a] = budgets[a] /\ steps'[a] = best
    BY <1>1, <1>6, <1>7, <1>8
  <2>2. best # 0 => Searched(a)[best] <= budgets[a][1]
    BY <1>2, <1>4, <1>8
  <2> QED BY <2>1, <2>2 DEF StepFound
<1>9. ASSUME pc = "pos", budgets["ori"] # <<>> PROVE IInv' /\ SearchInv'
  <2>1. pc' = "ori" /\ BeginSearch("ori", budgets["ori"][1])
    BY <1>1, <1>9
  <2>2. "ori" \in AxesOf(SniffedColumns(text)) /\ budgets["ori"][1] \in Int
    BY <1>2, <1>9 DEF Axes, Limits
  <2>3. IInv' /\ err' = Searched("ori") /\ budget' = budgets["ori"][1]
    BY <1>3, <2>1, <2>2, BeginKeeps
  <2>4. err' = Searched(pc)' /\ budget' = budgets'[pc'][1] /\ budgets'[pc'] # <<>>
    <3>1. err' = Searched("ori")'
      BY <1>6, <2>3
    <3> QED BY <1>1, <1>9, <2>1, <2>3, <3>1
  <2>5. StepFound("pos")'
    BY <1>8, <1>9 DEF Axes
  <2>6. SearchInv'
    BY <1>1, <1>2, <1>7, <2>1, <2>4, <2>5 DEF SearchInv, Axes
  <2> QED BY <2>3, <2>6
<1>10. ASSUME ~(pc = "pos" /\ budgets["ori"] # <<>>) PROVE IInv' /\ SearchInv'
  <2>1. /\ pc' = "write"
        /\ err' = NoErrors /\ budget' = 0
        /\ lo' = 1 /\ hi' = MaxStep /\ best' = MaxStep /\ stage' = "done"
    BY <1>1, <1>10
  <2>2. IInv'
    <3>1. MaxStep \in Nat \ {0}
      BY StepsAssumption
    <3>2. err' \in ErrorFunctions /\ \A s \in 1 .. MaxStep : err'[s] = 0
      BY <2>1 DEF NoErrors, ErrorFunctions
    <3> QED BY <2>1, <3>1, <3>2 DEF IInv, TypeInv, LargestWithinBudget
  <2>3. ASSUME NEW a \in Axes PROVE StepFound(a)'
    <3>1. CASE a = pc
      BY <1>8, <3>1
    <3>2. CASE a # pc /\ a = "ori"
      <4>1. budgets["ori"] = <<>>
        BY <1>1, <1>10, <3>2 DEF Axes
      <4> QED BY <1>1, <3>2, <4>1 DEF StepFound
    <3>3. CASE a # pc /\ a = "pos"
      <4>1. StepFound(a)
        BY <1>1, <1>2, <3>3 DEF Axes
      <4>2. Searched(a)' = Searched(a) /\ budgets' = budgets /\ steps'[a] = steps[a]
        BY <1>1, <1>6, <1>7, <3>3
      <4> QED BY <4>1, <4>2 DEF StepFound
    <3> QED BY <3>1, <3>2, <3>3 DEF Axes
  <2>4. pc' \notin Axes
    BY <2>1 DEF Axes
  <2>5. SearchInv'
    BY <1>1, <1>2, <1>7, <2>1, <2>3, <2>4 DEF SearchInv, Axes
  <2> QED BY <2>2, <2>5
<1> QED BY <1>5, <1>9, <1>10 DEF ToolInv

LEMMA WriteOptimizedKeeps == ToolInv /\ WriteOptimized => ToolInv'
<1> SUFFICES ASSUME ToolInv, WriteOptimized PROVE ToolInv'
  OBVIOUS
<1> DEFINE columns == SniffedColumns(text)
           scale == ScalesFor(text)
           rows == ReadRows(text, columns, scale)
           lossless == \A a \in AxesOf(columns) : budgets[a] # <<>> /\ steps[a] = 0
           step == [a \in Axes |-> IF steps[a] = 0 THEN 1 ELSE steps[a]]
           Within(a) == budgets[a] = <<>>
                          \/ Measured(rows, a, step[a]) * Unit <= budgets[a][1] * scale[a]
           written == IF lossless THEN Finest ELSE step
<1>1. /\ pc = "write" /\ pc' = "shell" /\ budgets' = NoLimits /\ steps' = Finest
      /\ IF lossless \/ columns # 7 \/ \A a \in Axes : Within(a)
         THEN Wrote("optimize", columns, scale, written)
         ELSE UNCHANGED <<file, said, restored>>
      /\ UNCHANGED <<text, codec, search>>
  BY DEF WriteOptimized
<1>2. /\ budgets \in [Axes -> Limits] /\ steps \in [Axes -> 0 .. MaxStep]
      /\ columns \in Columns /\ \A a \in Axes : StepFound(a)
  BY <1>1 DEF ToolInv, SearchInv
<1>3. Inputs /\ columns # 0 /\ MaxStep \in Nat \ {0}
  BY <1>2, StepsAssumption DEF ToolInv, Columns
<1>4. ASSUME lossless \/ columns # 7 \/ \A a \in Axes : Within(a)
      PROVE  WritesWell("optimize", columns, scale, written)
  <2>1. ASSUME NEW a \in AxesOf(columns)
        PROVE  /\ a \in Axes /\ IsScale(scale[a]) /\ written[a] \in 1 .. MaxStep
               /\ budgets[a] # <<>> => budgets[a][1] \in Int
    <3>1. a \in Axes
      BY DEF AxesOf, Axes
    <3>2. IsScale(scale[a])
      BY <1>3, TextScales DEF Inputs
    <3>3. steps[a] \in 0 .. MaxStep
      BY <1>2, <3>1
    <3>4. written[a] \in 1 .. MaxStep
      BY <1>3, <3>1, <3>3 DEF Finest
    <3>5. budgets[a] # <<>> => budgets[a][1] \in Int
      BY <1>2, <3>1 DEF Limits
    <3> QED BY <3>1, <3>2, <3>4, <3>5
  <2>2. ASSUME NEW a \in AxesOf(columns), budgets[a] # <<>>
        PROVE  LET m == Measured(rows, a, written[a])
               IN  scale[a] \in Nat /\ (m = 0 \/ m * Unit <= budgets[a][1] * scale[a])
    <3> DEFINE m == Measured(rows, a, written[a])
               u == Unit \div scale[a]
               b == budgets[a][1]
               sc == scale[a]
    <3>1. a \in Axes /\ b \in Int /\ written[a] \in 1 .. MaxStep
      BY <2>1, <2>2
    <3>2. m \in Nat /\ (written[a] = 1 => m = 0)
      BY <1>3, <3>1, MeasuredIs
    <3>3. u \in Nat /\ sc \in Nat \ {0} /\ Unit = u * sc
      BY <2>1, ScaleDivides
    <3>4. CASE lossless
      <4>1. written[a] = 1
        BY <3>1, <3>4 DEF Finest
      <4>2. m = 0
        BY <3>2, <4>1
      <4> HIDE DEF m
      <4> QED BY <3>3, <4>2 DEF m
    <3>5. CASE ~lossless /\ columns # 7
      <4>1. AxesOf(columns) = {"pos"} /\ a = "pos"
        BY <3>5 DEF AxesOf
      <4>2. steps[a] # 0
        BY <2>2, <3>5, <4>1
      <4>3. written[a] = steps[a]
        BY <3>1, <3>5, <4>2
      <4>4. Searched(a)[steps[a]] <= b
        BY <1>2, <2>2, <3>1, <4>2 DEF StepFound
      <4>5. Searched(a)[steps[a]] = m * u
        BY <3>1, <4>3 DEF Searched
      <4> HIDE DEF m, b, sc, u
      <4> DEFINE k == m * u
      <4>6. k \in Int /\ k <= b /\ k * sc = m * Unit
        BY <3>2, <3>3, <4>4, <4>5
      <4> HIDE DEF k
      <4>7. k * sc <= b * sc
        BY <3>1, <3>3, <4>6, StretchBelow
      <4> QED BY <3>3, <4>6, <4>7 DEF m, b, sc
    <3>6. CASE ~lossless /\ \A x \in Axes : Within(x)
      <4>1. written = step
        BY <3>6
      <4>2. m * Unit <= b * sc
        BY <2>2, <3>1, <3>6, <4>1
      <4> QED BY <3>3, <4>2
    <3> QED BY <1>4, <3>4, <3>5, <3>6
  <2> HIDE DEF written
  <2>3. \A a \in AxesOf(columns) : scale[a] \in Int
    BY <2>1 DEF IsScale
  <2> QED BY <1>2, <2>1, <2>2, <2>3 DEF WritesWell
<1>5. FileInv' /\ RestoredInv'
  <2>1. ASSUME lossless \/ columns # 7 \/ \A a \in Axes : Within(a)
        PROVE  FileInv' /\ RestoredInv'
    <3>1. Wrote("optimize", columns, scale, written) /\ text' = text
      BY <1>1, <2>1
    <3>2. WritesWell("optimize", columns, scale, written)
      BY <1>4, <2>1
    <3> HIDE DEF written
    <3> QED BY <1>3, <3>1, <3>2, WroteIs
  <2>2. ASSUME ~(lossless \/ columns # 7 \/ \A a \in Axes : Within(a))
        PROVE  FileInv' /\ RestoredInv'
    <3>1. UNCHANGED <<text, file, said, restored>>
      BY <1>1, <2>2
    <3> QED BY <3>1, FileStays DEF ToolInv
  <2> QED BY <2>1, <2>2
<1>6. IInv' /\ Inputs'
  BY <1>1, SearchIdles DEF ToolInv, Inputs
<1>7. SearchInv'
  BY <1>1, <1>3 DEF SearchInv, NoLimits, Limits, Finest, Axes
<1> QED BY <1>5, <1>6, <1>7 DEF ToolInv

LEMMA ToolStep == ToolInv /\ [Next]_<<state, found, search>> => ToolInv'
<1> SUFFICES ASSUME ToolInv, [Next]_<<state, found, search>> PROVE ToolInv'
  OBVIOUS
<1>1. ASSUME NEW scale \in Scales, NEW step \in 1 .. MaxStep, CompressGeo2D(scale, step)
      PROVE  ToolInv'
  <2>1. CompressTable(2, [pos |-> scale], [pos |-> step])
    BY <1>1 DEF CompressGeo2D
  <2>2. 2 \in Columns /\ AxesOf(2) = {"pos"}
    BY DEF Columns, AxesOf
  <2> QED BY <2>1, <2>2, CompressKeeps
<1>2. ASSUME NEW scale \in Scales, NEW step \in 1 .. MaxStep, CompressGeo3D(scale, step)
      PROVE  ToolInv'
  <2>1. CompressTable(3, [pos |-> scale], [pos |-> step])
    BY <1>2 DEF CompressGeo3D
  <2>2. 3 \in Columns /\ AxesOf(3) = {"pos"}
    BY DEF Columns, AxesOf
  <2> QED BY <2>1, <2>2, CompressKeeps
<1>3. ASSUME NEW scale \in Scales, NEW qscale \in Scales, NEW step \in 1 .. MaxStep,
             NEW qstep \in 1 .. MaxStep, CompressPose(scale, qscale, step, qstep)
      PROVE  ToolInv'
  <2>1. CompressTable(7, [pos |-> scale, ori |-> qscale], [pos |-> step, ori |-> qstep])
    BY <1>3 DEF CompressPose
  <2>2. 7 \in Columns /\ AxesOf(7) = {"pos", "ori"}
    BY DEF Columns, AxesOf, Axes
  <2> QED BY <2>1, <2>2, CompressKeeps
<1>4. ASSUME DecompressGeo2D \/ DecompressGeo3D \/ DecompressPose PROVE ToolInv'
  BY <1>4, DecompressKeeps DEF DecompressGeo2D, DecompressGeo3D, DecompressPose
<1>5. ASSUME UNCHANGED <<state, found, search>> PROVE ToolInv'
  BY <1>5, SearchStays, SearchIdles, FileStays DEF ToolInv, Inputs, state
<1> QED BY <1>1, <1>2, <1>3, <1>4, <1>5, SqueezeKeeps, UnsqueezeKeeps, OptimizeKeeps,
          SearchStepKeeps, SearchEndsKeeps, WriteOptimizedKeeps DEF Next

\* Whatever is typed, and in whatever order: the compressed file and what is told of its
\* error fit the text, and so does what it was decompressed to.
THEOREM ToolInvariant == Spec => []ToolInv
BY ToolStarts, ToolStep, PTL DEF Spec

\* No number that is printed is further from the one that was read than half of one at the
\* scale, half a last digit and the error allow, at any scale but 0.
THEOREM RestoredIsClose == Spec => []RestoredClose
<1>1. ToolInv => RestoredClose
  BY CloseHolds DEF ToolInv, Inputs
<1> QED BY <1>1, ToolInvariant, PTL

\* squeeze and unsqueeze return every number of a plain table.
THEOREM SqueezedExactly == Spec => []SqueezeExact
<1>1. ToolInv => SqueezeExact
  BY ExactHolds DEF ToolInv, Inputs
<1> QED BY <1>1, ToolInvariant, PTL

\* What validate finds no fault with is kept to the last row.
THEOREM RowsKept == Spec => []ValidatedRowsKept
<1>1. ToolInv => ValidatedRowsKept
  BY KeptHolds DEF ToolInv, Inputs
<1> QED BY <1>1, ToolInvariant, PTL

\* The search that optimize makes, for each axis on its own errors.
THEOREM ToolSearches == Spec => []LargestWithinBudget
<1>1. ToolInv => LargestWithinBudget
  BY DEF ToolInv, IInv
<1> QED BY <1>1, ToolInvariant, PTL
=============================================================================
