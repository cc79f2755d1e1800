--------------------------- MODULE HighTeleopProofs ---------------------------
(***************************************************************************)
(* The safety properties of HighTeleop for both programs, every set of     *)
(* buttons and every index range.  The chain of key combinations is not    *)
(* expanded: the proofs hold for any arms that mark their key in use.      *)
(***************************************************************************)
EXTENDS HighTeleop, TLAPS

USE ProgramAssumption, KeyAssumption, IndexRangeAssumption

\* The conversion to uint16_t gives a value of the index range.
LEMMA PublishedRange ==
  ASSUME NEW index \in Nat
  PROVE  Published(index) \in 0 .. IndexRange - 1
  BY DEF Published

LEMMA IndexAfterNat ==
  ASSUME TypeOK, NEW cmd
  PROVE  IndexAfter(cmd) \in Nat
  BY DEF TypeOK, IndexAfter

LEMMA ShotIsPress == \A was, cmd : Shot(was, cmd) \in Press
  BY DEF Shot, Press

-----------------------------------------------------------------------------

LEMMA InitIndInv == Init => IndInv
<1> SUFFICES ASSUME Init PROVE IndInv
  OBVIOUS
<1> USE DEF Init
<1>1. TypeOK
  <2>1. fileindex \in 0 .. IndexRange - 1
    OBVIOUS
  <2>2. key_updown \in [Key -> {"up", "down", "junk"}]
    OBVIOUS
  <2>3. key_inuse \in [Key -> BOOLEAN]
    OBVIOUS
  <2>4. press \in [Key -> Press]
    BY DEF Press
  <2> QED
    BY <2>1, <2>2, <2>3, <2>4 DEF TypeOK
<1>2. OneCommandPerPress /\ SpentUntilUp /\ CommandWasOnKeys
  BY DEF OneCommandPerPress, SpentUntilUp, CommandWasOnKeys
<1>3. ScannedWasSeen
  BY DEF ScannedWasSeen
<1> QED
  BY <1>1, <1>2, <1>3 DEF IndInv

LEMMA NextTypeOK ==
  ASSUME TypeOK, [Next]_vars
  PROVE  TypeOK'
<1> USE DEF TypeOK
<1>1. CASE StatusArrives
  BY <1>1 DEF StatusArrives, Press
<1>2. CASE ReadUp
  BY <1>2 DEF ReadUp
<1>3. CASE ReadNotUp
  BY <1>3 DEF ReadNotUp
<1>4. CASE ReadAgain
  BY <1>4 DEF ReadAgain
<1>5. CASE SendCommand
  <2>1. PICK arm \in Arm :
          /\ Taken(arm)
          /\ action' = arm
          /\ key_inuse' = [key_inuse EXCEPT ![Chain[arm].key] = TRUE]
          /\ fileindex' = Published(IndexAfter(Chain[arm].cmd))
          /\ press' = [press EXCEPT
                         ![Chain[arm].key] = Shot(@, Chain[arm].cmd)]
    BY <1>5 DEF SendCommand
  <2>2. fileindex' \in 0 .. IndexRange - 1
    BY <2>1, IndexAfterNat, PublishedRange
  <2>3. press' \in [Key -> Press] /\ key_inuse' \in [Key -> BOOLEAN]
    BY <2>1, ShotIsPress
  <2> QED
    BY <1>5, <2>1, <2>2, <2>3 DEF SendCommand
<1>6. CASE SendDefault
  BY <1>6 DEF SendDefault
<1>7. CASE PublishRaises
  BY <1>7 DEF PublishRaises
<1>8. CASE NextTurn
  BY <1>8 DEF NextTurn
<1>9. CASE UNCHANGED vars
  BY <1>9 DEF vars
<1> QED
  BY <1>1, <1>2, <1>3, <1>4, <1>5, <1>6, <1>7, <1>8, <1>9 DEF Next, Turn

\* A press that has sent a command cannot find its key ready again.
LEMMA NextPressInv ==
  ASSUME TypeOK, OneCommandPerPress, SpentUntilUp, [Next]_vars
  PROVE  OneCommandPerPress' /\ SpentUntilUp'
<1> USE DEF TypeOK, OneCommandPerPress, SpentUntilUp
<1>1. CASE StatusArrives
  BY <1>1 DEF StatusArrives
<1>2. CASE ReadUp
  BY <1>2 DEF ReadUp
<1>3. CASE ReadNotUp
  BY <1>3 DEF ReadNotUp
<1>4. CASE ReadAgain
  BY <1>4 DEF ReadAgain
<1>5. CASE SendCommand
  <2>1. PICK arm \in Arm :
          /\ Taken(arm)
          /\ key_inuse' = [key_inuse EXCEPT ![Chain[arm].key] = TRUE]
          /\ press' = [press EXCEPT
                         ![Chain[arm].key] = Shot(@, Chain[arm].cmd)]
    BY <1>5 DEF SendCommand
  <2>2. UNCHANGED <<remote_data, key_updown>>
    BY <1>5 DEF SendCommand
  <2>3. /\ Chain[arm].key \in Key
        /\ key_updown[Chain[arm].key] = "down"
        /\ Chain[arm].cmd # "RUN" => ~key_inuse[Chain[arm].key]
    BY <2>1 DEF Taken, Ready, IsDown
  <2>4. Chain[arm].cmd # "RUN" => press[Chain[arm].key] = "quiet"
    BY <2>3
  <2>5. Shot(press[Chain[arm].key], Chain[arm].cmd) # "twice"
    BY <2>3, <2>4 DEF Shot, Press
  <2> QED
    BY <2>1, <2>2, <2>3, <2>5
<1>6. CASE SendDefault
  BY <1>6 DEF SendDefault
<1>7. CASE PublishRaises
  BY <1>7 DEF PublishRaises
<1>8. CASE NextTurn
  BY <1>8 DEF NextTurn
<1>9. CASE UNCHANGED vars
  BY <1>9 DEF vars
<1> QED
  BY <1>1, <1>2, <1>3, <1>4, <1>5, <1>6, <1>7, <1>8, <1>9 DEF Next, Turn

\* What the scan has read was true since it began, and so is the command.
LEMMA NextScanInv ==
  ASSUME TypeOK, ScannedWasSeen, CommandWasOnKeys, [Next]_vars
  PROVE  ScannedWasSeen' /\ CommandWasOnKeys'
<1> USE DEF TypeOK, ScannedWasSeen, CommandWasOnKeys
<1>1. CASE StatusArrives
  <2>1. PICK buttons \in SUBSET Key :
          /\ remote_data' = buttons
          /\ pc # "wait" => seenDown' = seenDown \cup buttons
          /\ pc # "wait" => seenUp' = seenUp \cup (Key \ buttons)
          /\ pc = "wait" => seenDown' = buttons /\ seenUp' = Key \ buttons
          /\ pc' = IF pc = "wait" THEN "scan" ELSE pc
          /\ UNCHANGED <<todo, key_updown, action>>
    BY <1>1 DEF StatusArrives
  <2>2. CASE pc = "wait"
    BY <2>1, <2>2
  <2>3. CASE pc # "wait"
    BY <2>1, <2>3
  <2> QED
    BY <2>2, <2>3
<1>2. CASE ReadUp
  BY <1>2 DEF ReadUp
<1>3. CASE ReadNotUp
  BY <1>3 DEF ReadNotUp
<1>4. CASE ReadAgain
  BY <1>4 DEF ReadAgain
<1>5. CASE SendCommand
  <2>1. PICK arm \in Arm : Taken(arm) /\ action' = arm
    BY <1>5 DEF SendCommand
  <2>2. \A k \in Key : /\ key_updown[k] = "down" => k \in seenDown
                       /\ key_updown[k] = "up" => k \in seenUp
    BY <1>5 DEF SendCommand
  <2>3. /\ Chain[arm].key \in seenDown
        /\ Chain[arm].with \subseteq seenDown
        /\ Chain[arm].without \cap Key \subseteq seenUp
    BY <2>1, <2>2 DEF Taken, Ready, IsDown, IsUp
  <2> QED
    BY <1>5, <2>1, <2>3 DEF SendCommand
<1>6. CASE SendDefault
  BY <1>6 DEF SendDefault
<1>7. CASE PublishRaises
  BY <1>7 DEF PublishRaises
<1>8. CASE NextTurn
  BY <1>8 DEF NextTurn
<1>9. CASE UNCHANGED vars
  BY <1>9 DEF vars
<1> QED
  BY <1>1, <1>2, <1>3, <1>4, <1>5, <1>6, <1>7, <1>8, <1>9 DEF Next, Turn

-----------------------------------------------------------------------------
(* The theorems.                                                           *)

LEMMA NextIndInv == IndInv /\ [Next]_vars => IndInv'
  BY NextTypeOK, NextPressInv, NextScanInv DEF IndInv

\* The invariant holds in every state of either program.
THEOREM Inductive == Spec => []IndInv
  BY InitIndInv, NextIndInv, PTL DEF Spec

\* Every variable of either program stays in its range.
THEOREM TypeCorrect == Spec => []TypeOK
<1>1. IndInv => TypeOK
  BY DEF IndInv
<1> QED
  BY <1>1, Inductive, PTL

\* Neither program answers one press of a key with two commands, from any
\* garbage C++ starts with and for every interleaving with the callback.
THEOREM OneShot == Spec => []OneCommandPerPress
<1>1. IndInv => OneCommandPerPress
  BY DEF IndInv
<1> QED
  BY <1>1, Inductive, PTL

\* Neither program sends a command whose keys were not so during its scan.
THEOREM CommandSeen == Spec => []CommandWasOnKeys
<1>1. IndInv => CommandWasOnKeys
  BY DEF IndInv
<1> QED
  BY <1>1, Inductive, PTL
================================================================================
