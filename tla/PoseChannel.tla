---------------------------- MODULE PoseChannel ----------------------------
(***************************************************************************)
(* What a pose stream promises its two users, whatever carries it. Poses   *)
(* come out in the order they went in, none that never went in, and as     *)
(* long as the consumer takes what it is given none twice; over a reliable *)
(* transport none is skipped either. A consumer that fails over a reliable *)
(* transport only misses poses. One that fails over datagrams may be given *)
(* again, in a new attempt, what came after the last delivery it has       *)
(* returned from: what is settled never comes again. The end of the stream *)
(* is reported only after the producer declared it, with every pose of a   *)
(* reliable stream out before it.                                          *)
(***************************************************************************)
EXTENDS Integers, Sequences

VARIABLES
  reliable, \* does the transport deliver everything?
  sent,     \* poses 1 .. sent have been pushed
  closed,   \* the producer has declared the end
  got,      \* poses delivered to the consumer
  upTo,     \* the attempt under way has come to this pose
  settled,  \* poses 1 .. settled will never come (again)
  failed,   \* has the consumer ever failed?
  ended     \* the consumer has seen the end

vars == <<reliable, sent, closed, got, upTo, settled, failed, ended>>

Init ==
  /\ reliable \in BOOLEAN
  /\ sent = 0
  /\ closed = FALSE
  /\ got = <<>>
  /\ upTo = 0
  /\ settled = 0
  /\ failed = FALSE
  /\ ended = FALSE

Push ==
  /\ ~closed
  /\ sent' = sent + 1
  /\ UNCHANGED <<reliable, closed, got, upTo, settled, failed, ended>>

Close ==
  /\ closed' = TRUE
  /\ UNCHANGED <<reliable, sent, got, upTo, settled, failed, ended>>

Deliver ==
  /\ ~ended
  /\ \E pose \in upTo + 1 .. sent :
       /\ reliable /\ ~failed => pose = upTo + 1
       /\ got' = Append(got, pose)
       /\ upTo' = pose
       /\ settled' = IF reliable THEN pose ELSE settled
  /\ UNCHANGED <<reliable, sent, closed, failed, ended>>

\* The consumer has returned from a delivery.
Settle ==
  /\ settled' = upTo
  /\ UNCHANGED <<reliable, sent, closed, got, upTo, failed, ended>>

\* The consumer has failed: the attempt is over.
Fail ==
  /\ failed' = TRUE
  /\ upTo' = settled
  /\ UNCHANGED <<reliable, sent, closed, got, settled, ended>>

End ==
  /\ closed
  /\ reliable /\ ~failed => upTo = sent
  /\ ended' = TRUE
  /\ upTo' = sent /\ settled' = sent
  /\ UNCHANGED <<reliable, sent, closed, got, failed>>

Next == Push \/ Close \/ Deliver \/ Settle \/ Fail \/ End

Spec == Init /\ [][Next]_vars
=============================================================================
