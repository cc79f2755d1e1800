----------------------------- MODULE MCMotorFrame -----------------------------
(***************************************************************************)
(* MotorFrame with three tables getJointsIndex might be: that of           *)
(* jointNames, that of walkjointNames, and a rotation.                     *)
(***************************************************************************)
EXTENDS MotorFrame

InOrder == [j \in Joint |-> j]
InWalkOrder ==
  [j \in Joint |-> CHOOSE s \in Slot : walkjointNames[s + 1] = j]
Rotated == [j \in Joint |-> (j + 1) % 24]

MCLookups == {InOrder, InWalkOrder, Rotated}
===============================================================================
