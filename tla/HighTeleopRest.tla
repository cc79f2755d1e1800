---------------------------- MODULE HighTeleopRest ----------------------------
(***************************************************************************)
(* HighTeleop with a history variable: how many turns of the loop began    *)
(* since the buttons changed last.  It states as bounds what the chain of  *)
(* key combinations does when the hands on the remote control rest: how    *)
(* long a held key waits for its command, and what is sent after that.     *)
(***************************************************************************)
EXTENDS HighTeleop, FiniteSets

VARIABLE restTurns           \* turns begun with the buttons as they are now,
                             \* up to Enough

restVars == <<vars, restTurns>>

\* The keys that an arm of the chain answers and marks in use.
Armed == {Chain[arm].key : arm \in Arm}

\* Bound: past it every key has had its turn.
Enough == Cardinality(Armed \cap Key) + 1

TurnBegins == pc = "act" /\ pc' = "scan"

RestInit == Init /\ restTurns = 0

RestNext ==
  /\ Next
  /\ restTurns' =
       CASE remote_data' # remote_data -> 0
         [] remote_data' = remote_data /\ TurnBegins /\ restTurns < Enough ->
              restTurns + 1
         [] OTHER -> restTurns

RestSpec == RestInit /\ [][RestNext]_restVars

-----------------------------------------------------------------------------
(* Properties.                                                             *)

HeldKeys == Armed \cap remote_data

\* A key that is held waits for at most as many turns as there are keys held
\* that the chain answers: neither the arms above its own nor RUN, which is
\* sent in every turn, make it wait longer, whatever was pressed, half read
\* or left in use (in C++: uninitialised) before the hands came to rest.
AnsweredInTime ==
  pc = "act" /\ restTurns >= Cardinality(HeldKeys) =>
    \A k \in Answered \cap remote_data : key_inuse[k]

\* One turn later nothing but RUN is sent any more: no two held keys make the
\* chain answer them in turns, each arm freeing what another has in use.
OnlyRunRepeats ==
  pc = "act" /\ restTurns > Cardinality(HeldKeys) /\ action # NoArm =>
    Chain[action].cmd = "RUN"

-----------------------------------------------------------------------------
(* The inductive invariant behind them.                                    *)

\* The loop knows how key k is, and has it in use only while it is down.
Known(k) ==
  /\ key_updown[k] = IF k \in remote_data THEN "down" ELSE "up"
  /\ key_inuse[k] => k \in remote_data

HeldInUse == {k \in HeldKeys : key_inuse[k]}

\* Only RUN has anything left to send, and its key is in use.
Spent ==
  \A arm \in Arm :
    Ready(arm) => Chain[arm].cmd = "RUN" /\ key_inuse[Chain[arm].key]

\* From the first turn of a rest on a key that was scanned is known, from the
\* second on all are.
KnownAtRest ==
  /\ pc = "wait" => restTurns = 0
  /\ pc = "act" => todo = {}
  /\ restTurns >= 1 /\ pc = "second" => NextKey(todo) \in remote_data
  /\ restTurns >= 1 => \A k \in Key \ todo : Known(k)
  /\ restTurns >= 2 => \A k \in Key : Known(k)

\* Each turn of a rest puts one more of the held keys in use, until no arm
\* but that of RUN finds one that is not.
OneMoreInUse ==
  /\ restTurns >= 1 /\ pc = "act" =>
       \/ Spent /\ (action # NoArm => Chain[action].cmd = "RUN")
       \/ Cardinality(HeldInUse) >= restTurns
  /\ restTurns >= 2 /\ pc \in {"scan", "second"} =>
       Spent \/ Cardinality(HeldInUse) >= restTurns - 1

RestInv ==
  /\ restTurns \in 0 .. Enough
  /\ KnownAtRest
  /\ OneMoreInUse
===============================================================================
