------------------------------ MODULE HighTeleop ------------------------------
(***************************************************************************)
(* The remote-control loop of src/examples/cpp/example_high.cpp and of its *)
(* Python twin src/examples/py/test_high.py.  Each turn of the loop scans  *)
(* the buttons one by one while the status callback may replace them,      *)
(* picks at most one command from a chain of key combinations and          *)
(* publishes it.                                                           *)
(***************************************************************************)
EXTENDS Naturals, Sequences

CONSTANTS Program,           \* "cpp" or "py"
          Key,               \* the buttons in use; the others stay up
          IndexRange         \* values of publish_cmd's index: 2^16

ASSUME ProgramAssumption == Program \in {"cpp", "py"}
ASSUME KeyAssumption == Key \subseteq 0 .. 13
ASSUME IndexRangeAssumption == IndexRange \in Nat \ {0, 1}

\* The arms of the if-chain, in order: the command, the key that is marked in
\* use, the keys that must be down with it and those that must be up.
RunArm == [cmd |-> "RUN", key |-> 6, with |-> {2}, without |-> {}]

ArmsAboveRun == <<
  [cmd |-> "STARTTEACH", key |-> 5,  with |-> {},  without |-> {2}],
  [cmd |-> "SWING",      key |-> 6,  with |-> {},  without |-> {1, 2}],
  [cmd |-> "SHAKE",      key |-> 7,  with |-> {},  without |-> {1, 2}],
  [cmd |-> "CHEER",      key |-> 8,  with |-> {},  without |-> {1, 2}],
  [cmd |-> "START",      key |-> 9,  with |-> {},  without |-> {}],
  [cmd |-> "SWITCH",     key |-> 10, with |-> {},  without |-> {}],
  [cmd |-> "WALK",       key |-> 5,  with |-> {2}, without |-> {}],
  [cmd |-> "SAVETEACH",  key |-> 6,  with |-> {1}, without |-> {}],
  [cmd |-> "ENDTEACH",   key |-> 7,  with |-> {1}, without |-> {}],
  [cmd |-> "PLAYTEACH",  key |-> 8,  with |-> {1}, without |-> {}] >>

\* Mutant: the arm that is not latched comes first.
ChainRunFirst == <<RunArm>> \o ArmsAboveRun

Chain == Append(ArmsAboveRun, RunArm)

Arm == 1 .. Len(Chain)
NoArm == 0

VARIABLES
  pc,                        \* "wait", "scan", "second", "act" or "raised"
  remote_data,               \* the buttons down in the last status
  todo,                      \* the keys the scan has still to read
  key_updown,                \* "up" (0), "down" (1) or "junk" (neither)
  key_inuse,
  fileindex,                 \* as publish_cmd passes it on
  action,                    \* the arm taken in the last turn, or NoArm
  seenDown, seenUp,          \* ghost: how the keys were since the scan began
  press                      \* ghost: what this press of a key has sent

vars == <<pc, remote_data, todo, key_updown, key_inuse, fileindex, action,
          seenDown, seenUp, press>>

Press == {"quiet", "shot", "run", "twice"}

-----------------------------------------------------------------------------
(* Helpers.                                                                *)

\* The for-loop reads the buttons in ascending order.
NextKey(keys) == CHOOSE k \in keys : \A j \in keys : k <= j

IsDown(k) == k \in Key /\ key_updown[k] = "down"
IsUp(k) == k \in Key => key_updown[k] = "up"

\* Mutant: the arm of SWING does not look at key_inuse either.
ReadySwingUnlatched(arm) ==
  LET c == Chain[arm]
  IN  /\ IsDown(c.key)
      /\ \A k \in c.with : IsDown(k)
      /\ \A k \in c.without : IsUp(k)
      /\ c.cmd \notin {"RUN", "SWING"} => ~key_inuse[c.key]

\* The condition of an arm; RUN alone does not look at key_inuse.
Ready(arm) ==
  LET c == Chain[arm]
  IN  /\ IsDown(c.key)
      /\ \A k \in c.with : IsDown(k)
      /\ \A k \in c.without : IsUp(k)
      /\ c.cmd # "RUN" => ~key_inuse[c.key]

Taken(arm) == Ready(arm) /\ \A earlier \in 1 .. arm - 1 : ~Ready(earlier)

\* The effect of sending a command on what the press of its key has sent.
Shot(was, cmd) ==
  CASE was = "quiet" /\ cmd = "RUN" -> "run"
    [] was = "quiet" /\ cmd # "RUN" -> "shot"
    [] was \in {"shot", "run"} /\ cmd = "RUN" -> "run"
    [] OTHER -> "twice"

-----------------------------------------------------------------------------

\* C++ leaves key_updown, key_inuse and fileindex uninitialised, and starts
\* with a zeroed remote_data; Python zeroes them and waits for a status.
Init ==
  /\ remote_data = {}
  /\ todo = Key
  /\ action = NoArm
  /\ seenDown = {}
  /\ seenUp = Key
  /\ press = [k \in Key |-> "quiet"]
  /\ IF Program = "py"
     THEN /\ pc = "wait"
          /\ key_updown = [k \in Key |-> "up"]
          /\ key_inuse = [k \in Key |-> FALSE]
          /\ fileindex = 0
     ELSE /\ pc = "scan"
          /\ key_updown \in [Key -> {"up", "down", "junk"}]
          /\ key_inuse \in [Key -> BOOLEAN]
          /\ fileindex \in 0 .. IndexRange - 1

\* The status callback, at any moment.  A press begins at a rising edge.
StatusArrives ==
  \E buttons \in SUBSET Key :
    /\ remote_data' = buttons
    /\ IF pc = "wait"
       THEN seenDown' = buttons /\ seenUp' = Key \ buttons
       ELSE /\ seenDown' = seenDown \cup buttons
            /\ seenUp' = seenUp \cup (Key \ buttons)
    /\ press' = [k \in Key |-> IF k \in buttons /\ k \notin remote_data
                               THEN "quiet" ELSE press[k]]
    /\ pc' = IF pc = "wait" THEN "scan" ELSE pc
    /\ UNCHANGED <<todo, key_updown, key_inuse, fileindex, action>>

\* Mutant: a released key is only taken out of use.
ReadUpForgetful ==
  LET k == NextKey(todo)
  IN  /\ pc = "scan"
      /\ todo # {}
      /\ k \notin remote_data
      /\ key_inuse' = [key_inuse EXCEPT ![k] = FALSE]
      /\ todo' = todo \ {k}
      /\ UNCHANGED <<pc, remote_data, key_updown, fileindex, action, seenDown,
                     seenUp, press>>

\* `if (remote_data.button[i] == 0)`, found so.
ReadUp ==
  LET k == NextKey(todo)
  IN  /\ pc = "scan"
      /\ todo # {}
      /\ k \notin remote_data
      /\ key_updown' = [key_updown EXCEPT ![k] = "up"]
      /\ key_inuse' = [key_inuse EXCEPT ![k] = FALSE]
      /\ todo' = todo \ {k}
      /\ UNCHANGED <<pc, remote_data, fileindex, action, seenDown, seenUp,
                     press>>

\* ... found otherwise: `else if (remote_data.button[i] == 1)` reads it anew.
ReadNotUp ==
  /\ pc = "scan"
  /\ todo # {}
  /\ NextKey(todo) \in remote_data
  /\ pc' = "second"
  /\ UNCHANGED <<remote_data, todo, key_updown, key_inuse, fileindex, action,
                 seenDown, seenUp, press>>

\* The second read.  A key released since the first keeps what it had.
ReadAgain ==
  LET k == NextKey(todo)
  IN  /\ pc = "second"
      /\ key_updown' = IF k \in remote_data
                       THEN [key_updown EXCEPT ![k] = "down"]
                       ELSE key_updown
      /\ todo' = todo \ {k}
      /\ pc' = "scan"
      /\ UNCHANGED <<remote_data, key_inuse, fileindex, action, seenDown,
                     seenUp, press>>

\* SAVETEACH counts the file index up, PLAYTEACH sets it to 1.
IndexAfter(cmd) ==
  CASE cmd = "SAVETEACH" -> fileindex + 1
    [] cmd = "PLAYTEACH" -> 1
    [] OTHER -> fileindex

\* Mutant: the index is not narrowed to uint16_t.
PublishedWide(index) == index

\* publish_cmd(..., uint16_t index): C++ wraps its int ...
Published(index) == index % IndexRange

\* ... and pybind11 raises for a Python int that does not fit.
Refused(index) == Program = "py" /\ index >= IndexRange

\* A turn of the loop in which an arm of the chain is taken
SendCommand ==
  /\ pc = "scan"
  /\ todo = {}
  /\ \E arm \in Arm :
       LET c == Chain[arm]
       IN  /\ Taken(arm)
           /\ ~Refused(IndexAfter(c.cmd))
           /\ action' = arm
           /\ key_inuse' = [key_inuse EXCEPT ![c.key] = TRUE]
           /\ fileindex' = Published(IndexAfter(c.cmd))
           /\ press' = [press EXCEPT ![c.key] = Shot(@, c.cmd)]
  /\ pc' = "act"
  /\ UNCHANGED <<remote_data, todo, key_updown, seenDown, seenUp>>

\* A turn of the loop that publishes ControlCmd::DEFAULT
SendDefault ==
  /\ pc = "scan"
  /\ todo = {}
  /\ \A arm \in Arm : ~Ready(arm)
  /\ action' = NoArm
  /\ pc' = "act"
  /\ UNCHANGED <<remote_data, todo, key_updown, key_inuse, fileindex, seenDown,
                 seenUp, press>>

\* An index publish_cmd does not take ends the Python program.
PublishRaises ==
  /\ pc = "scan"
  /\ todo = {}
  /\ \E arm \in Arm : Taken(arm) /\ Refused(IndexAfter(Chain[arm].cmd))
  /\ pc' = "raised"
  /\ UNCHANGED <<remote_data, todo, key_updown, key_inuse, fileindex, action,
                 seenDown, seenUp, press>>

\* sleep_ms(2) is over and the loop scans again.
NextTurn ==
  /\ pc = "act"
  /\ pc' = "scan"
  /\ todo' = Key
  /\ seenDown' = remote_data
  /\ seenUp' = Key \ remote_data
  /\ UNCHANGED <<remote_data, key_updown, key_inuse, fileindex, action, press>>

Turn ==
  \/ ReadUp \/ ReadNotUp \/ ReadAgain
  \/ SendCommand \/ SendDefault \/ PublishRaises
  \/ NextTurn

Next == StatusArrives \/ Turn

Spec == Init /\ [][Next]_vars

\* The loop does not wait for the callback; only its thread's steps are fair.
FairSpec == Spec /\ WF_vars(Turn)

-----------------------------------------------------------------------------
(* Properties.                                                             *)

\* Every variable stays in its range.
TypeOK ==
  /\ pc \in {"wait", "scan", "second", "act", "raised"}
  /\ remote_data \in SUBSET Key
  /\ todo \in SUBSET Key
  /\ key_updown \in [Key -> {"up", "down", "junk"}]
  /\ key_inuse \in [Key -> BOOLEAN]
  /\ fileindex \in 0 .. IndexRange - 1
  /\ action \in Arm \cup {NoArm}
  /\ seenDown \in SUBSET Key
  /\ seenUp \in SUBSET Key
  /\ press \in [Key -> Press]
  /\ pc = "second" => todo # {}

\* One press of a key sends one command, however long it is held, whatever
\* is pressed with it and however the scan races the callback; only RUN is
\* sent again, and it may follow the command of a key that was already down.
OneCommandPerPress == \A k \in Key : press[k] # "twice"

\* Every key of a command was as the command wants it at some moment of the
\* scan that chose it, although the scan reads each button twice and keeps an
\* old (in C++ at first an uninitialised) value when the reads disagree.
CommandWasOnKeys ==
  pc = "act" /\ action # NoArm =>
    /\ Chain[action].key \in seenDown
    /\ Chain[action].with \subseteq seenDown
    /\ Chain[action].without \cap Key \subseteq seenUp

\* The keys whose press is answered in every company of keys held with it.
Answered == {5, 6, 9, 10}

\* A press the scan has seen is answered once the hands rest: no arm of the
\* chain, and no RUN sent in every turn, starves the arms below or above it.
HeldPressAnswered ==
  \A k \in Answered \cap Key :
    <>[](k \in remote_data) =>
      \/ []<><<remote_data' # remote_data>>_remote_data
      \/ <>(pc = "raised")
      \/ <>[](key_inuse[k])

-----------------------------------------------------------------------------
(* The inductive invariant behind the safety properties.                   *)

\* A key whose press has sent something is in use until it is read up, and
\* then it is up until its next press begins.
SpentUntilUp ==
  \A k \in Key :
    press[k] # "quiet" /\ ~key_inuse[k] =>
      key_updown[k] = "up" /\ k \notin remote_data

\* A key the scan has passed has the value it had at some moment since.
ScannedWasSeen ==
  /\ remote_data \subseteq seenDown
  /\ Key \ remote_data \subseteq seenUp
  /\ pc = "wait" => todo = Key
  /\ pc = "second" => NextKey(todo) \in seenDown
  /\ pc \in {"scan", "second"} =>
       \A k \in Key \ todo :
         /\ key_updown[k] = "down" => k \in seenDown
         /\ key_updown[k] = "up" => k \in seenUp

\* The safety properties with what makes them inductive.
IndInv ==
  /\ TypeOK
  /\ OneCommandPerPress
  /\ SpentUntilUp
  /\ ScannedWasSeen
  /\ CommandWasOnKeys
===============================================================================
