----------------------------- MODULE MCDataBuffer -----------------------------
(***************************************************************************)
(* A small instance of DataBuffer for TLC: three threads, each of which    *)
(* may make any call, two values, and one object more than there are       *)
(* threads, so that make_shared never runs out.                            *)
(***************************************************************************)
EXTENDS DataBuffer, TLC

\* Threads, values and objects are interchangeable.
Interchangeable ==
  Permutations(Thread) \cup Permutations(Value) \cup Permutations(Object)
===============================================================================
