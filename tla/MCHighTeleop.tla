----------------------------- MODULE MCHighTeleop -----------------------------
(***************************************************************************)
(* Small instances of HighTeleop for TLC: three or four of the buttons at  *)
(* a time, chosen so that their arms of the chain compete.                 *)
(***************************************************************************)
EXTENDS HighTeleop
===============================================================================
