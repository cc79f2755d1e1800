--------------------------- MODULE MCHighTeleopRest ---------------------------
(***************************************************************************)
(* A small instance of HighTeleopRest for TLC: keys whose arms compete for *)
(* the same turn, RUN's among them.                                        *)
(***************************************************************************)
EXTENDS HighTeleopRest
===============================================================================
