------------------------------ MODULE LatestValue ------------------------------
(***************************************************************************)
(* What DataBuffer promises its callers: a register of one value, or none, *)
(* that several threads set, clear and get.  Each call takes effect all at *)
(* once at some moment between its beginning and its return.               *)
(***************************************************************************)
CONSTANTS Thread, Value, NoValue

VARIABLES value,             \* what is stored, NoValue for nothing
          stage,             \* where a thread is in its call
          item               \* what it sets, or what its get has returned

vars == <<value, stage, item>>

\* "set", "clear" and "get" are calls whose effect is still to come.
Stage == {"idle", "set", "clear", "get", "done", "got"}

Init ==
  /\ value = NoValue
  /\ stage = [t \in Thread |-> "idle"]
  /\ item = [t \in Thread |-> NoValue]

BeginSet(t, v) ==
  /\ stage[t] = "idle"
  /\ stage' = [stage EXCEPT ![t] = "set"]
  /\ item' = [item EXCEPT ![t] = v]
  /\ UNCHANGED value

Begin(t, call) ==
  /\ stage[t] = "idle"
  /\ stage' = [stage EXCEPT ![t] = call]
  /\ UNCHANGED <<value, item>>

Set(t) ==
  /\ stage[t] = "set"
  /\ value' = item[t]
  /\ stage' = [stage EXCEPT ![t] = "done"]
  /\ item' = [item EXCEPT ![t] = NoValue]

Clear(t) ==
  /\ stage[t] = "clear"
  /\ value' = NoValue
  /\ stage' = [stage EXCEPT ![t] = "done"]
  /\ UNCHANGED item

Get(t) ==
  /\ stage[t] = "get"
  /\ item' = [item EXCEPT ![t] = value]
  /\ stage' = [stage EXCEPT ![t] = "got"]
  /\ UNCHANGED value

\* The end of a call; a caller of get keeps what it got until it is done.
Return(t) ==
  /\ stage[t] \in {"done", "got"}
  /\ stage' = [stage EXCEPT ![t] = "idle"]
  /\ item' = [item EXCEPT ![t] = NoValue]
  /\ UNCHANGED value

Next ==
  \E t \in Thread :
    \/ \E v \in Value : BeginSet(t, v)
    \/ \E call \in {"clear", "get"} : Begin(t, call)
    \/ Set(t) \/ Clear(t) \/ Get(t) \/ Return(t)

Spec == Init /\ [][Next]_vars
================================================================================
