---------------------------- MODULE MCTransforms ----------------------------
(***************************************************************************)
(* The two families of transforms on one small instance: the joints of a   *)
(* path, and the lift of an array, of none to five values and so of up to  *)
(* three levels, on a device that hands over at two elements. They share   *)
(* the fixed-point arithmetic and no state: a behaviour is one of either,  *)
(* and the other stays where it starts.                                    *)
(***************************************************************************)
EXTENDS MCClosedLoopJoint, CudaLiftSession

VARIABLE part

MCRatios == {-3, 2}

MCInputs == {<<>>, <<5>>, <<3, -2>>, <<4, 0, 1, 9, -6>>}

AnyInit ==
  /\ part \in {"joint", "lift"}
  /\ Init /\ (part = "lift" => setup = <<"2d", FALSE, 3, 0>> /\ point = <<0, 0>>)
  /\ LiftInit

JointStep == part = "joint" /\ Next /\ UNCHANGED liftVars
LiftStep == part = "lift" /\ LiftNext /\ UNCHANGED vars

AnyNext == (JointStep \/ LiftStep) /\ UNCHANGED part

AnySpec == AnyInit /\ [][AnyNext]_<<part, vars, liftVars>>
=============================================================================
