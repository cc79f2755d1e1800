----------------------------- MODULE MCLowControl -----------------------------
(***************************************************************************)
(* A small instance of LowControl for TLC: ramps of three ticks, an        *)
(* inference every third tick, a stack of two observations, and all the    *)
(* button combinations.                                                    *)
(***************************************************************************)
EXTENDS LowControl
===============================================================================
