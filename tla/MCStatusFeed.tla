----------------------------- MODULE MCStatusFeed -----------------------------
(***************************************************************************)
(* A small instance of StatusFeed for TLC: the buttons in one word, two    *)
(* words each of motor and IMU data, so that each can be torn.             *)
(***************************************************************************)
EXTENDS StatusFeed
===============================================================================
