------------------------- MODULE MCClosedLoopJoint -------------------------
(***************************************************************************)
(* A small instance of ClosedLoopJoint: two units of fixed point, a        *)
(* calibration that turns and scales and one that does not, blocks of two  *)
(* samples, adaptive ones of one or two.                                   *)
(***************************************************************************)
EXTENDS ClosedLoopJoint

MCSamples == [j \in Joints |->
  IF j = "2d" THEN {<<0, 0>>, <<3, 1>>, <<-2, 4>>}
  ELSE IF j = "3d" THEN {<<0, 1, 0>>, <<3, -2, 4>>}
  ELSE {<<3, 0, 0, -1>>, <<-1, 2, 4, 0>>}]

MCCoefs == [j \in Joints |->
  IF j = "2d" THEN {<<-3, 2>>, <<1, 0>>}
  ELSE IF j = "3d" THEN {<<0, -3, 0, 1, 0, 2, 0, 0, 1>>, <<2, 0, 0, 0, 2, 0, 0, 0, 2>>}
  ELSE {<<1, -3, 0, 2>>, <<2, 0, 0, 0>>}]
=============================================================================
