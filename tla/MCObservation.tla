---------------------------- MODULE MCObservation ----------------------------
(***************************************************************************)
(* Observation with axes at the edges of the dead band and beyond the      *)
(* clamps, sines beyond both poles, and velocities and outputs beyond the  *)
(* clip.                                                                   *)
(***************************************************************************)
EXTENDS Observation

MCNaN == -1000000
MCStick == {-130, -29, 30, 130}
MCSine == {-1001, 1001}
MCVelocity == {19000}
MCOutput == {-19000, 500}
===============================================================================
