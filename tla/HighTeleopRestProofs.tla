------------------------- MODULE HighTeleopRestProofs -------------------------
(***************************************************************************)
(* That a held key is answered within a bounded number of turns, and that  *)
(* only RUN repeats after that, for both programs, every set of buttons    *)
(* and every index range.                                                  *)
(***************************************************************************)
EXTENDS HighTeleopRest, HighTeleopProofs, FiniteSetTheorems

\* The history variable does not constrain the loop.
LEMMA RestImplementsSpec == RestSpec => Spec
<1>1. RestInit => Init
  BY DEF RestInit
<1>2. [RestNext]_restVars => [Next]_vars
  BY DEF RestNext, restVars
<1> QED
  BY <1>1, <1>2, PTL DEF RestSpec, Spec

LEMMA RestTypeCorrect == RestSpec => []TypeOK
  BY RestImplementsSpec, TypeCorrect, PTL

-----------------------------------------------------------------------------
(* Counting keys.                                                          *)

LEMMA KeysFinite ==
  ASSUME NEW S \in SUBSET Key
  PROVE  IsFiniteSet(S) /\ Cardinality(S) \in Nat
<1>1. S \in SUBSET Nat /\ \A k \in S : k <= 13
  BY KeyAssumption
<1>2. IsFiniteSet(S)
  BY <1>1, FS_BoundedSetOfNaturals
<1> QED
  BY <1>2, FS_CardinalityType

LEMMA EnoughNat == Enough \in Nat \ {0}
  BY KeysFinite DEF Enough

\* What is held fits into the count.
LEMMA HeldKeysBound ==
  ASSUME TypeOK
  PROVE  /\ IsFiniteSet(HeldKeys)
         /\ Cardinality(HeldKeys) \in Nat
         /\ Cardinality(HeldKeys) < Enough
<1>1. HeldKeys \in SUBSET (Armed \cap Key) /\ Armed \cap Key \in SUBSET Key
  BY DEF TypeOK, HeldKeys
<1>2. IsFiniteSet(Armed \cap Key) /\ Cardinality(Armed \cap Key) \in Nat
  BY <1>1, KeysFinite
<1>3. IsFiniteSet(HeldKeys) /\ Cardinality(HeldKeys) \in Nat
  BY <1>1, KeysFinite
<1>4. Cardinality(HeldKeys) <= Cardinality(Armed \cap Key)
  BY <1>1, <1>2, FS_Subset
<1> QED
  BY <1>2, <1>3, <1>4 DEF Enough

\* No more keys are in use than are held, and as many only if all are.
LEMMA InUseBound ==
  ASSUME TypeOK
  PROVE  /\ IsFiniteSet(HeldInUse)
         /\ Cardinality(HeldInUse) \in Nat
         /\ Cardinality(HeldInUse) <= Cardinality(HeldKeys)
         /\ Cardinality(HeldKeys) = Cardinality(HeldInUse) =>
              HeldInUse = HeldKeys
<1>1. HeldInUse \in SUBSET HeldKeys
  BY DEF HeldInUse
<1> QED
  BY <1>1, HeldKeysBound, FS_Subset, FS_CardinalityType

-----------------------------------------------------------------------------
(* The chain.                                                              *)

\* RUN is the last arm: when it is taken no other is ready.
LEMMA RunIsLast ==
  /\ Len(Chain) = 11
  /\ \A arm \in Arm : Chain[arm].cmd = "RUN" <=> arm = 11
<1> USE DEF Chain, ArmsAboveRun, RunArm
<1>1. Len(Chain) = 11
  OBVIOUS
<1>2. Chain[11].cmd = "RUN"
  OBVIOUS
<1>3. \A arm \in 1 .. 5 : Chain[arm].cmd # "RUN"
  OBVIOUS
<1>4. \A arm \in 6 .. 10 : Chain[arm].cmd # "RUN"
  OBVIOUS
<1> QED
  BY <1>1, <1>2, <1>3, <1>4 DEF Arm

\* The arms that answer the keys of Answered, by the keys held with them.
LEMMA ArmsOfAnswered ==
  /\ Chain[1]  = [cmd |-> "STARTTEACH", key |-> 5, with |-> {}, without |-> {2}]
  /\ Chain[7]  = [cmd |-> "WALK", key |-> 5, with |-> {2}, without |-> {}]
  /\ Chain[2]  = [cmd |-> "SWING", key |-> 6, with |-> {}, without |-> {1, 2}]
  /\ Chain[8]  = [cmd |-> "SAVETEACH", key |-> 6, with |-> {1}, without |-> {}]
  /\ Chain[11] = [cmd |-> "RUN", key |-> 6, with |-> {2}, without |-> {}]
  /\ Chain[5]  = [cmd |-> "START", key |-> 9, with |-> {}, without |-> {}]
  /\ Chain[6]  = [cmd |-> "SWITCH", key |-> 10, with |-> {}, without |-> {}]
  BY DEF Chain, ArmsAboveRun, RunArm

-----------------------------------------------------------------------------
(* Each step keeps the invariant.                                          *)

\* How the count moves: to zero, by one as a turn begins, or not at all.
LEMMA RestCount ==
  ASSUME restTurns \in 0 .. Enough, RestNext
  PROVE  /\ restTurns' \in 0 .. Enough
         /\ restTurns' # 0 => remote_data' = remote_data
         /\ restTurns' # 0 /\ ~TurnBegins => restTurns' = restTurns
         /\ restTurns' # 0 /\ TurnBegins =>
              restTurns' = restTurns + 1 \/ (restTurns' = Enough /\ restTurns = Enough)
  BY EnoughNat DEF RestNext

\* Nothing but NextTurn begins a turn.
LEMMA OthersBeginNoTurn ==
  ASSUME StatusArrives \/ ReadUp \/ ReadNotUp \/ ReadAgain \/ SendCommand
           \/ SendDefault \/ PublishRaises
  PROVE  ~TurnBegins
  BY DEF TurnBegins, StatusArrives, ReadUp, ReadNotUp, ReadAgain, SendCommand,
     SendDefault, PublishRaises

LEMMA NextKnownAtRest ==
  ASSUME TypeOK, restTurns \in 0 .. Enough, KnownAtRest, RestNext
  PROVE  KnownAtRest'
<1>1. /\ restTurns' \in 0 .. Enough
      /\ restTurns' # 0 => remote_data' = remote_data
      /\ restTurns' # 0 /\ ~TurnBegins => restTurns' = restTurns
  BY RestCount
<1> USE EnoughNat DEF TypeOK, KnownAtRest, Known
<1>2. CASE StatusArrives
  <2>1. /\ ~TurnBegins
        /\ UNCHANGED <<todo, key_updown, key_inuse>>
        /\ pc' = IF pc = "wait" THEN "scan" ELSE pc
    BY <1>2, OthersBeginNoTurn DEF StatusArrives
  <2> QED
    BY <1>1, <2>1
<1>3. CASE ReadUp
  <2>1. ~TurnBegins
    BY <1>3, OthersBeginNoTurn
  <2> QED
    BY <1>1, <1>3, <2>1 DEF ReadUp
<1>4. CASE ReadNotUp
  <2>1. ~TurnBegins
    BY <1>4, OthersBeginNoTurn
  <2> QED
    BY <1>1, <1>4, <2>1 DEF ReadNotUp
<1>5. CASE ReadAgain
  <2>1. ~TurnBegins
    BY <1>5, OthersBeginNoTurn
  <2> QED
    BY <1>1, <1>5, <2>1 DEF ReadAgain
<1>6. CASE SendCommand
  <2>1. ~TurnBegins
    BY <1>6, OthersBeginNoTurn
  <2>2. PICK arm \in Arm :
          Taken(arm) /\ key_inuse' = [key_inuse EXCEPT ![Chain[arm].key] = TRUE]
    BY <1>6 DEF SendCommand
  <2>3. key_updown[Chain[arm].key] = "down" /\ Chain[arm].key \in Key
    BY <2>2 DEF Taken, Ready, IsDown
  <2>4. /\ pc = "scan" /\ pc' = "act" /\ todo = {}
        /\ UNCHANGED <<remote_data, todo, key_updown>>
    BY <1>6 DEF SendCommand
  <2> QED
    BY <1>1, <2>1, <2>2, <2>3, <2>4
<1>7. CASE SendDefault
  <2>1. ~TurnBegins
    BY <1>7, OthersBeginNoTurn
  <2> QED
    BY <1>1, <1>7, <2>1 DEF SendDefault
<1>8. CASE PublishRaises
  <2>1. ~TurnBegins
    BY <1>8, OthersBeginNoTurn
  <2> QED
    BY <1>1, <1>8, <2>1 DEF PublishRaises
<1>9. CASE NextTurn
  <2>1. TurnBegins
    BY <1>9 DEF NextTurn, TurnBegins
  <2>2. restTurns' # 0 =>
          restTurns' = restTurns + 1 \/ (restTurns' = Enough /\ restTurns = Enough)
    BY <2>1, RestCount
  <2> QED
    BY <1>1, <1>9, <2>2 DEF NextTurn
<1> QED
  BY <1>2, <1>3, <1>4, <1>5, <1>6, <1>7, <1>8, <1>9 DEF RestNext, Next, Turn

\* What the loop knows of the keys decides which arms are spent.
LEMMA SameKeys ==
  ASSUME UNCHANGED <<remote_data, key_updown, key_inuse>>
  PROVE  (Spent => Spent') /\ HeldInUse' = HeldInUse
  BY DEF Spent, Ready, IsDown, IsUp, HeldInUse, HeldKeys

\* From the second turn on the scan finds each key as it is known.
LEMMA RereadSameKeys ==
  ASSUME TypeOK, KnownAtRest, restTurns \in 0 .. Enough, restTurns >= 2,
         ReadUp \/ ReadAgain
  PROVE  UNCHANGED <<remote_data, key_updown, key_inuse>>
<1> USE DEF TypeOK, KnownAtRest, Known
<1>1. CASE ReadUp
  <2>1. PICK k : /\ k = NextKey(todo)
                 /\ k \notin remote_data
                 /\ key_updown' = [key_updown EXCEPT ![k] = "up"]
                 /\ key_inuse' = [key_inuse EXCEPT ![k] = FALSE]
                 /\ UNCHANGED remote_data
    BY <1>1 DEF ReadUp
  <2>2. k \in Key => key_updown[k] = "up" /\ key_inuse[k] = FALSE
    BY <2>1, EnoughNat
  <2> QED
    BY <2>1, <2>2
<1>2. CASE ReadAgain
  <2>1. NextKey(todo) \in remote_data
    BY <1>2, EnoughNat DEF ReadAgain
  <2>2. key_updown[NextKey(todo)] = "down"
    BY <2>1, EnoughNat
  <2> QED
    BY <1>2, <2>1, <2>2 DEF ReadAgain
<1> QED
  BY <1>1, <1>2

\* A command other than RUN puts a held key in use that was not.
LEMMA CommandAddsKey ==
  ASSUME TypeOK, KnownAtRest, restTurns \in 0 .. Enough, restTurns >= 1,
         pc = "scan", todo = {}, NEW arm \in Arm, Ready(arm),
         Chain[arm].cmd # "RUN", UNCHANGED remote_data,
         key_inuse' = [key_inuse EXCEPT ![Chain[arm].key] = TRUE]
  PROVE  Cardinality(HeldInUse') = Cardinality(HeldInUse) + 1
<1> DEFINE k == Chain[arm].key
<1>1. k \in Key /\ key_updown[k] = "down" /\ ~key_inuse[k]
  BY DEF Ready, IsDown
<1>2. k \in remote_data
  BY <1>1, EnoughNat DEF KnownAtRest, Known
<1>3. k \in HeldKeys /\ k \notin HeldInUse
  BY <1>1, <1>2 DEF HeldKeys, HeldInUse, Armed
<1>4. HeldInUse' = HeldInUse \cup {k}
  <2>1. HeldKeys' = HeldKeys /\ HeldKeys \subseteq Key
    BY DEF HeldKeys, TypeOK
  <2>2. \A j \in Key : key_inuse'[j] = (j = k \/ key_inuse[j])
    BY <1>1 DEF TypeOK
  <2> QED
    BY <1>3, <2>1, <2>2 DEF HeldInUse
<1> HIDE DEF k
<1> QED
  BY <1>3, <1>4, InUseBound, FS_AddElement

\* When RUN is taken, its own arm alone is ready, and stays so.
LEMMA RunSpends ==
  ASSUME TypeOK, NEW arm \in Arm, Taken(arm), Chain[arm].cmd = "RUN",
         UNCHANGED key_updown,
         key_inuse' = [key_inuse EXCEPT ![Chain[arm].key] = TRUE]
  PROVE  Spent'
<1>1. Chain[arm].key \in Key
  BY DEF Taken, Ready, IsDown
<1>2. \A other \in Arm : Ready(other)' => Ready(other)
  BY <1>1 DEF Ready, IsDown, IsUp, TypeOK
<1>3. \A other \in Arm : Ready(other) => other = arm
  BY RunIsLast DEF Taken, Arm
<1> QED
  BY <1>1, <1>2, <1>3 DEF Spent, TypeOK

LEMMA NextOneMoreInUse ==
  ASSUME TypeOK, RestInv, RestNext
  PROVE  OneMoreInUse'
<1>1. /\ restTurns \in 0 .. Enough
      /\ restTurns' \in 0 .. Enough
      /\ restTurns' # 0 => remote_data' = remote_data
      /\ restTurns' # 0 /\ ~TurnBegins => restTurns' = restTurns
      /\ restTurns' # 0 /\ TurnBegins =>
           restTurns' = restTurns + 1 \/ (restTurns' = Enough /\ restTurns = Enough)
  BY RestCount DEF RestInv
<1>2. CASE restTurns' = 0
  BY <1>2 DEF OneMoreInUse
<1> SUFFICES ASSUME restTurns' # 0 PROVE OneMoreInUse'
  BY <1>2
<1>3. UNCHANGED remote_data
  BY <1>1
<1>4. Cardinality(HeldInUse) \in Nat
  BY InUseBound
<1>5. KnownAtRest /\ OneMoreInUse
  BY DEF RestInv
<1> USE EnoughNat DEF OneMoreInUse
<1>6. CASE StatusArrives
  <2>1. /\ restTurns' = restTurns
        /\ pc' = pc
        /\ UNCHANGED <<action, key_updown, key_inuse>>
    BY <1>1, <1>5, <1>6, OthersBeginNoTurn DEF StatusArrives, KnownAtRest
  <2>2. (Spent => Spent') /\ HeldInUse' = HeldInUse
    BY <1>3, <2>1, SameKeys
  <2> QED
    BY <1>5, <2>1, <2>2
<1>7. CASE ReadUp \/ ReadNotUp \/ ReadAgain
  <2>1. /\ restTurns' = restTurns
        /\ pc \in {"scan", "second"} /\ pc' \in {"scan", "second"}
    BY <1>1, <1>7, OthersBeginNoTurn DEF ReadUp, ReadNotUp, ReadAgain
  <2>2. restTurns >= 2 => UNCHANGED <<remote_data, key_updown, key_inuse>>
    BY <1>1, <1>5, <1>7, RereadSameKeys DEF ReadNotUp
  <2>3. restTurns >= 2 => (Spent => Spent') /\ HeldInUse' = HeldInUse
    BY <2>2, SameKeys
  <2> QED
    BY <1>1, <1>5, <2>1, <2>3
<1>8. CASE SendCommand
  <2>1. PICK arm \in Arm :
          /\ Taken(arm)
          /\ action' = arm
          /\ key_inuse' = [key_inuse EXCEPT ![Chain[arm].key] = TRUE]
    BY <1>8 DEF SendCommand
  <2>2. /\ pc = "scan" /\ pc' = "act" /\ todo = {}
        /\ restTurns' = restTurns
        /\ UNCHANGED key_updown
    BY <1>1, <1>8, OthersBeginNoTurn DEF SendCommand
  <2>3. CASE Chain[arm].cmd = "RUN"
    <3>1. Spent'
      BY <2>1, <2>2, <2>3, RunSpends
    <3> QED
      BY <2>1, <2>2, <2>3, <3>1
  <2>4. CASE Chain[arm].cmd # "RUN"
    <3>1. Cardinality(HeldInUse') = Cardinality(HeldInUse) + 1
      <4>1. restTurns >= 1
        BY <1>1, <2>2
      <4>2. Ready(arm)
        BY <2>1 DEF Taken
      <4> QED
        BY <1>1, <1>3, <1>5, <2>1, <2>2, <2>4, <4>1, <4>2, CommandAddsKey
    <3>2. ~Spent
      BY <2>1, <2>4 DEF Taken, Spent
    <3> QED
      BY <1>1, <1>4, <1>5, <2>2, <3>1, <3>2
  <2> QED
    BY <2>3, <2>4
<1>9. CASE SendDefault
  <2>1. /\ pc' = "act" /\ action' = NoArm
        /\ \A arm \in Arm : ~Ready(arm)
        /\ UNCHANGED <<remote_data, key_updown, key_inuse>>
    BY <1>9 DEF SendDefault
  <2>2. Spent
    BY <2>1 DEF Spent
  <2>3. Spent'
    BY <2>1, <2>2, SameKeys
  <2> QED
    BY <2>1, <2>3
<1>10. CASE PublishRaises
  BY <1>10 DEF PublishRaises
<1>11. CASE NextTurn
  <2>1. /\ pc = "act" /\ pc' = "scan"
        /\ TurnBegins
        /\ UNCHANGED <<remote_data, key_updown, key_inuse>>
    BY <1>11 DEF NextTurn, TurnBegins
  <2>2. (Spent => Spent') /\ HeldInUse' = HeldInUse
    BY <2>1, SameKeys
  <2> QED
    BY <1>1, <1>4, <1>5, <2>1, <2>2
<1> QED
  BY <1>6, <1>7, <1>8, <1>9, <1>10, <1>11 DEF RestNext, Next, Turn

LEMMA InitRestInv == RestInit => RestInv
  BY EnoughNat DEF RestInit, Init, RestInv, KnownAtRest, OneMoreInUse

LEMMA NextRestInv == TypeOK /\ RestInv /\ [RestNext]_restVars => RestInv'
<1> SUFFICES ASSUME TypeOK, RestInv, [RestNext]_restVars
             PROVE  RestInv'
  OBVIOUS
<1>1. CASE RestNext
  BY <1>1, RestCount, NextKnownAtRest, NextOneMoreInUse DEF RestInv
<1>2. CASE UNCHANGED restVars
  <2>1. UNCHANGED <<pc, remote_data, todo, key_updown, key_inuse, action,
                    restTurns>>
    BY <1>2 DEF restVars, vars
  <2>2. (Spent => Spent') /\ HeldInUse' = HeldInUse
    BY <2>1, SameKeys
  <2>3. KnownAtRest'
    BY <2>1 DEF RestInv, KnownAtRest, Known
  <2>4. OneMoreInUse'
    BY <2>1, <2>2 DEF RestInv, OneMoreInUse
  <2> QED
    BY <2>1, <2>3, <2>4 DEF RestInv
<1> QED
  BY <1>1, <1>2

-----------------------------------------------------------------------------
(* The theorems.                                                           *)

\* At rest the loop knows how the keys are, and each turn puts one more of
\* the held ones in use until only RUN has anything left to send.
THEOREM RestInductive == RestSpec => []RestInv
  BY InitRestInv, NextRestInv, RestTypeCorrect, PTL DEF RestSpec

\* A held key that is known and finds its arm spent is in use.
LEMMA SpentIsAnswered ==
  ASSUME TypeOK, Spent, \A k \in Key : Known(k)
  PROVE  \A k \in Answered \cap remote_data : key_inuse[k]
<1> SUFFICES ASSUME NEW k \in Answered \cap remote_data, ~key_inuse[k]
             PROVE  FALSE
  OBVIOUS
<1>1. /\ k \in Key /\ IsDown(k)
      /\ k \in {5, 6, 9, 10}
      /\ IsDown(1) \/ IsUp(1)
      /\ IsDown(2) \/ IsUp(2)
  BY DEF TypeOK, Known, IsDown, IsUp, Answered
<1>2. 1 \in Arm /\ 2 \in Arm /\ 5 \in Arm /\ 6 \in Arm /\ 7 \in Arm
        /\ 8 \in Arm /\ 11 \in Arm
  BY RunIsLast DEF Arm
<1>3. CASE k = 5
  BY <1>1, <1>2, <1>3, ArmsOfAnswered DEF Spent, Ready
<1>4. CASE k = 6
  BY <1>1, <1>2, <1>4, ArmsOfAnswered DEF Spent, Ready
<1>5. CASE k \in {9, 10}
  BY <1>1, <1>2, <1>5, ArmsOfAnswered DEF Spent, Ready
<1> QED
  BY <1>1, <1>3, <1>4, <1>5

\* No held key waits for more turns than there are keys held.
THEOREM AnswersInTime == RestSpec => []AnsweredInTime
<1>1. TypeOK /\ RestInv => AnsweredInTime
  <2> SUFFICES ASSUME TypeOK, RestInv, pc = "act",
                      restTurns >= Cardinality(HeldKeys)
               PROVE  \A k \in Answered \cap remote_data : key_inuse[k]
    BY DEF AnsweredInTime
  <2>1. \A k \in Answered : k \in Armed
    BY RunIsLast, ArmsOfAnswered DEF Answered, Armed, Arm
  <2>2. CASE HeldKeys = {}
    BY <2>1, <2>2 DEF HeldKeys
  <2>3. CASE HeldKeys # {}
    <3>1. /\ Cardinality(HeldKeys) \in Nat \ {0}
          /\ restTurns \in Nat
      BY <2>3, HeldKeysBound, FS_EmptySet, EnoughNat DEF RestInv
    <3>2. \A k \in Key : Known(k)
      BY <3>1 DEF RestInv, KnownAtRest
    <3>3. Spent \/ Cardinality(HeldInUse) >= restTurns
      BY <3>1 DEF RestInv, OneMoreInUse
    <3>4. CASE Spent
      BY <3>2, <3>4, SpentIsAnswered
    <3>5. CASE Cardinality(HeldInUse) >= restTurns
      <4>1. HeldInUse = HeldKeys
        BY <3>1, <3>5, InUseBound
      <4> QED
        BY <2>1, <4>1 DEF HeldInUse, HeldKeys
    <3> QED
      BY <3>3, <3>4, <3>5
  <2> QED
    BY <2>2, <2>3
<1> QED
  BY <1>1, RestInductive, RestTypeCorrect, PTL

\* After that, nothing but RUN is sent.
THEOREM RunAloneRepeats == RestSpec => []OnlyRunRepeats
<1>1. TypeOK /\ RestInv => OnlyRunRepeats
  BY HeldKeysBound, InUseBound, EnoughNat
     DEF RestInv, OneMoreInUse, OnlyRunRepeats
<1> QED
  BY <1>1, RestInductive, RestTypeCorrect, PTL
===============================================================================
