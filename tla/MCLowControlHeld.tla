--------------------------- MODULE MCLowControlHeld ---------------------------
(***************************************************************************)
(* A small instance of LowControlHeld for TLC: ramps of two ticks, so that *)
(* five ticks of holding are told apart.                                   *)
(***************************************************************************)
EXTENDS LowControlHeld
===============================================================================
