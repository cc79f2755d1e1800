--------------------------- MODULE MotorFrameProofs ---------------------------
(***************************************************************************)
(* The properties of MotorFrame for every one-to-one getJointsIndex.       *)
(***************************************************************************)
EXTENDS MotorFrame, TLAPS

USE DEF Joint, Slot, Junk, Off, Damp, waist_2

\* The index lists name joints.
LEMMA ListsAreJoints ==
  \A k \in 1 .. 12 : ArmAt(k) \in Joint /\ LegAt(k) \in Joint
<1> SUFFICES ASSUME NEW k \in 1 .. 12
             PROVE  ArmAt(k) \in Joint /\ LegAt(k) \in Joint
  OBVIOUS
<1>1. k \in {1, 2, 3, 4, 5, 6, 7, 8, 9, 10, 11, 12}
  OBVIOUS
<1> QED
  BY <1>1 DEF ArmAt, LegAt, walkjointNames, jointIndicesArm, jointIndicesLeg

\* Together they name every joint.
LEMMA ListsAreComplete ==
  Joint = {ArmAt(k) : k \in 1 .. 12} \cup {LegAt(k) : k \in 1 .. 12}
<1>1. {0, 1, 3, 4, 7, 8, 11, 12, 15, 16, 19, 20} \subseteq {LegAt(k) : k \in 1 .. 12}
  <2>1. /\ LegAt(1) = 0 /\ LegAt(2) = 1 /\ LegAt(3) = 3 /\ LegAt(4) = 4
        /\ LegAt(5) = 7 /\ LegAt(6) = 8 /\ LegAt(7) = 11 /\ LegAt(8) = 12
        /\ LegAt(9) = 15 /\ LegAt(10) = 16 /\ LegAt(11) = 19 /\ LegAt(12) = 20
    BY DEF LegAt, walkjointNames, jointIndicesLeg
  <2> QED
    BY <2>1
<1>2. {2, 5, 6, 9, 10, 13, 14, 17, 18, 21, 22, 23} \subseteq {ArmAt(k) : k \in 1 .. 12}
  <2>1. /\ ArmAt(1) = 2 /\ ArmAt(2) = 23 /\ ArmAt(3) = 5 /\ ArmAt(4) = 6
        /\ ArmAt(5) = 9 /\ ArmAt(6) = 10 /\ ArmAt(7) = 13 /\ ArmAt(8) = 14
        /\ ArmAt(9) = 17 /\ ArmAt(10) = 18 /\ ArmAt(11) = 21 /\ ArmAt(12) = 22
    BY DEF ArmAt, walkjointNames, jointIndicesArm
  <2> QED
    BY <2>1
<1> QED
  BY <1>1, <1>2, ListsAreJoints

\* A turn on its own keeps the index in its range.
LEMMA TurnRange ==
  ASSUME TypeOK, NEW here, NEW turns \in {12, 24}, NEW after,
         after \in Loop, here = loop,
         Turn(here, turns, after)
  PROVE  /\ i' \in 0 .. 23
         /\ loop' \in Loop
         /\ i < turns => i' < turns
  BY DEF Turn, TypeOK, Loop

\* The policy's list of legs goes through walkjointNames to the same joints.
LEMMA ObservedAreLegs ==
  \A k \in 1 .. 12 :
    jointIndices[k] \in Slot /\ walkjointNames[jointIndices[k] + 1] = LegAt(k)
<1> SUFFICES ASSUME NEW k \in 1 .. 12
             PROVE  /\ jointIndices[k] \in Slot
                    /\ walkjointNames[jointIndices[k] + 1] = LegAt(k)
  OBVIOUS
<1>1. k \in {1, 2, 3, 4, 5, 6, 7, 8, 9, 10, 11, 12}
  OBVIOUS
<1>2. jointIndices[k] = jointIndicesLeg[k]
  BY <1>1 DEF jointIndices, jointIndicesLeg
<1>3. jointIndices[k] \in Slot
  BY <1>1 DEF jointIndices
<1> QED
  BY <1>2, <1>3 DEF LegAt

LEMMA NamesAreJoints == \A s \in Slot : walkjointNames[s + 1] \in Joint
<1> SUFFICES ASSUME NEW s \in Slot PROVE walkjointNames[s + 1] \in Joint
  OBVIOUS
<1>1. s + 1 \in {1, 2, 3, 4, 5, 6, 7, 8, 9, 10, 11, 12, 13, 14, 15, 16, 17, 18,
                19, 20, 21, 22, 23, 24}
  OBVIOUS
<1> QED
  BY <1>1 DEF walkjointNames

\* Every joint has a slot of its own.
LEMMA LookupOneToOne ==
  ASSUME TypeOK
  PROVE  /\ \A j \in Joint : getJointsIndex[j] \in Slot
         /\ \A s \in Slot : \E j \in Joint : getJointsIndex[j] = s
         /\ \A j, k \in Joint : getJointsIndex[j] = getJointsIndex[k] => j = k
<1>1. getJointsIndex \in Lookups
  BY DEF TypeOK
<1> QED
  BY <1>1, LookupsAssumption DEF OneToOne

-----------------------------------------------------------------------------

LEMMA InitIndInv == Init => IndInv
<1> SUFFICES ASSUME Init PROVE IndInv
  OBVIOUS
<1> USE DEF Init
<1>1. TypeOK
  BY DEF TypeOK, Handler, Loop
<1>2. LoopsOfHandler /\ IndexInLoop /\ DefaultSoFar /\ UserSoFar
  BY DEF LoopsOfHandler, IndexInLoop, DefaultSoFar, UserSoFar
<1>3. PoseSoFar /\ SeenSoFar
  BY DEF PoseSoFar, SeenSoFar
<1> QED
  BY <1>1, <1>2, <1>3 DEF IndInv

LEMMA NextTypeOK ==
  ASSUME IndInv, [Next]_vars
  PROVE  TypeOK'
<1> USE DEF IndInv, TypeOK
<1>1. CASE DefaultJoint
  BY <1>1, TurnRange DEF DefaultJoint, Turn, Identify, Command, Loop, seen
<1>2. CASE PoseMotorId
  BY <1>2, TurnRange, LookupOneToOne
     DEF PoseMotorId, Turn, Identify, Loop, seen
<1>3. CASE PoseJoint
  BY <1>3, TurnRange DEF PoseJoint, Turn, Command, Loop, seen
<1>4. CASE ArmJoint
  <2>1. ArmAt(i + 1) \in Joint
    BY <1>4, ListsAreJoints DEF IndexInLoop, ArmJoint, Turn
  <2> QED
    BY <1>4, <2>1, TurnRange
       DEF ArmJoint, WalkJoint, Turn, Identify, Command, Loop, seen
<1>5. CASE LegJoint
  <2>1. LegAt(i + 1) \in Joint
    BY <1>5, ListsAreJoints DEF IndexInLoop, LegJoint, Turn
  <2> QED
    BY <1>5, <2>1, TurnRange
       DEF LegJoint, WalkJoint, Turn, Identify, Command, Loop, seen
<1>6. CASE SetJoint
  BY <1>6 DEF SetJoint, NewFrame, FirstLoop, Handler, Loop
<1>7. CASE UNCHANGED vars
  BY <1>7 DEF vars
<1>8. CASE EstimateJoint
  <2>1. getJointsIndex[walkjointNames[i + 1]] \in Slot
    BY NamesAreJoints, LookupOneToOne
  <2> QED
    BY <1>8, <2>1, TurnRange DEF EstimateJoint, Turn, Loop
<1>9. CASE SelectJoint
  <2>1. i + 1 \in 1 .. 12 /\ jointPos[jointIndices[i + 1]] \in Slot \cup {Junk}
    BY <1>9, ObservedAreLegs DEF IndexInLoop, SelectJoint, Turn
  <2> QED
    BY <1>9, <2>1, TurnRange DEF SelectJoint, Turn, Loop
<1> QED
  BY <1>1, <1>2, <1>3, <1>4, <1>5, <1>6, <1>7, <1>8, <1>9 DEF Next

LEMMA NextLoops ==
  ASSUME IndInv, [Next]_vars
  PROVE  LoopsOfHandler' /\ IndexInLoop'
<1> USE DEF IndInv, TypeOK, LoopsOfHandler, IndexInLoop
<1>1. CASE DefaultJoint
  BY <1>1 DEF DefaultJoint, Turn
<1>2. CASE PoseMotorId
  BY <1>2 DEF PoseMotorId, Turn
<1>3. CASE PoseJoint
  BY <1>3 DEF PoseJoint, Turn
<1>4. CASE ArmJoint
  BY <1>4 DEF ArmJoint, Turn
<1>5. CASE LegJoint
  BY <1>5 DEF LegJoint, Turn
<1>6. CASE SetJoint
  BY <1>6 DEF SetJoint, FirstLoop, Handler
<1>7. CASE UNCHANGED vars
  BY <1>7 DEF vars
<1>8. CASE EstimateJoint \/ SelectJoint
  BY <1>8 DEF EstimateJoint, SelectJoint, Turn
<1> QED
  BY <1>1, <1>2, <1>3, <1>4, <1>5, <1>6, <1>7, <1>8 DEF Next

LEMMA NextDefault ==
  ASSUME IndInv, [Next]_vars
  PROVE  DefaultSoFar'
<1> USE DEF IndInv, TypeOK, DefaultSoFar, LoopsOfHandler, IndexInLoop
<1>1. CASE DefaultJoint
  BY <1>1 DEF DefaultJoint, Turn, Identify, Command
<1>2. CASE PoseMotorId \/ PoseJoint
  BY <1>2 DEF PoseMotorId, PoseJoint, Turn
<1>3. CASE ArmJoint \/ LegJoint
  BY <1>3 DEF ArmJoint, LegJoint, Turn
<1>4. CASE SetJoint
  BY <1>4 DEF SetJoint, NewFrame, FirstLoop
<1>5. CASE UNCHANGED vars
  BY <1>5 DEF vars
<1>6. CASE EstimateJoint \/ SelectJoint
  BY <1>6 DEF EstimateJoint, SelectJoint, Turn
<1> QED
  BY <1>1, <1>2, <1>3, <1>4, <1>5, <1>6 DEF Next

LEMMA PoseStep ==
  ASSUME PoseJoint, i \in 0 .. 23
  PROVE  /\ handler \in {"stand", "lie"} /\ loop = "joints"
         /\ loop' = IF i < 23 THEN "joints" ELSE "done"
         /\ i' = IF i < 23 THEN i + 1 ELSE 0
         /\ UNCHANGED <<getJointsIndex, handler, motor_id>>
         /\ drive' = [drive EXCEPT ![getJointsIndex[i]] = Target(handler, i)]
<1>1. drive' = [drive EXCEPT ![getJointsIndex[i]] = Target(handler, i)]
  BY DEF PoseJoint, Command, Target
<1> QED
  BY <1>1 DEF PoseJoint, Turn

LEMMA NextPose ==
  ASSUME IndInv, [Next]_vars
  PROVE  PoseSoFar'
<1> USE DEF IndInv, TypeOK, PoseSoFar, LoopsOfHandler, IndexInLoop, Target
<1>1. CASE DefaultJoint
  BY <1>1 DEF DefaultJoint, Turn
<1>2. CASE PoseMotorId
  BY <1>2 DEF PoseMotorId, Turn, Identify
<1>3. CASE PoseJoint
  <2>1. /\ handler \in {"stand", "lie"} /\ loop = "joints"
        /\ loop' = IF i < 23 THEN "joints" ELSE "done"
        /\ i' = IF i < 23 THEN i + 1 ELSE 0
        /\ UNCHANGED <<getJointsIndex, handler, motor_id>>
        /\ drive' = [drive EXCEPT ![getJointsIndex[i]] = Target(handler, i)]
    BY <1>3, PoseStep
  <2>2. \A j \in Joint :
          drive'[getJointsIndex[j]] = IF j = i THEN Target(handler, i)
                                      ELSE drive[getJointsIndex[j]]
    BY <2>1, LookupOneToOne
  <2>3. \A j \in Joint : j <= i => drive'[getJointsIndex[j]] = Target(handler, j)
    BY <2>1, <2>2
  <2>4. \A s \in Slot : motor_id'[s] = getJointsIndex'[s]
    BY <2>1
  <2> QED
    BY <2>1, <2>3, <2>4
<1>4. CASE ArmJoint \/ LegJoint
  BY <1>4 DEF ArmJoint, LegJoint, Turn
<1>5. CASE SetJoint
  BY <1>5 DEF SetJoint, NewFrame, FirstLoop
<1>6. CASE UNCHANGED vars
  BY <1>6 DEF vars
<1>7. CASE EstimateJoint \/ SelectJoint
  BY <1>7 DEF EstimateJoint, SelectJoint, Turn
<1> QED
  BY <1>1, <1>2, <1>3, <1>4, <1>5, <1>6, <1>7 DEF Next

\* Filling the slot of one joint takes nothing from another.
LEMMA OwnKept ==
  ASSUME TypeOK, NEW j \in Joint, NEW k \in Joint, WalkJoint(j),
         getJointsIndex' = getJointsIndex
  PROVE  Own(j)' /\ (Own(k) => Own(k)')
  BY LookupOneToOne DEF TypeOK, WalkJoint, Identify, Command, Own

LEMMA NextUser ==
  ASSUME IndInv, [Next]_vars
  PROVE  UserSoFar'
<1> USE DEF IndInv, TypeOK, UserSoFar, LoopsOfHandler, IndexInLoop
<1>1. CASE DefaultJoint
  BY <1>1 DEF DefaultJoint, Turn
<1>2. CASE PoseMotorId \/ PoseJoint
  BY <1>2 DEF PoseMotorId, PoseJoint, Turn
<1>3. CASE ArmJoint
  <2>1. i \in 0 .. 11
    BY <1>3 DEF ArmJoint, Turn
  <2>2. /\ handler' = "user" /\ handler = "user" /\ loop = "joints"
        /\ loop' = IF i < 11 THEN "joints" ELSE "legs"
        /\ i' = IF i < 11 THEN i + 1 ELSE 0
        /\ getJointsIndex' = getJointsIndex
        /\ WalkJoint(ArmAt(i + 1))
    BY <1>3, <2>1 DEF ArmJoint, Turn
  <2>3. \A k \in 1 .. 12 : k <= i + 1 => Own(ArmAt(k))'
    BY <2>1, <2>2, OwnKept, ListsAreJoints
  <2> QED
    BY <2>1, <2>2, <2>3
<1>4. CASE LegJoint
  <2>1. i \in 0 .. 11
    BY <1>4 DEF LegJoint, Turn
  <2>2. /\ handler' = "user" /\ handler = "user" /\ loop = "legs"
        /\ loop' = IF i < 11 THEN "legs" ELSE "done"
        /\ i' = IF i < 11 THEN i + 1 ELSE 0
        /\ getJointsIndex' = getJointsIndex
        /\ WalkJoint(LegAt(i + 1))
    BY <1>4, <2>1 DEF LegJoint, Turn
  <2>3. \A k \in 1 .. 12 : Own(ArmAt(k))'
    BY <2>1, <2>2, OwnKept, ListsAreJoints
  <2>4. \A k \in 1 .. 12 : k <= i + 1 => Own(LegAt(k))'
    BY <2>1, <2>2, OwnKept, ListsAreJoints
  <2> QED
    BY <2>1, <2>2, <2>3, <2>4
<1>5. CASE SetJoint
  BY <1>5 DEF SetJoint, FirstLoop
<1>6. CASE UNCHANGED vars
  BY <1>6 DEF vars, Own
<1>7. CASE EstimateJoint \/ SelectJoint
  BY <1>7 DEF EstimateJoint, SelectJoint, Turn, Own
<1> QED
  BY <1>1, <1>2, <1>3, <1>4, <1>5, <1>6, <1>7 DEF Next

LEMMA SelectStep ==
  ASSUME SelectJoint, i \in 0 .. 11
  PROVE  /\ handler = "user" /\ loop = "select"
         /\ loop' = IF i < 11 THEN "select" ELSE "joints"
         /\ i' = IF i < 11 THEN i + 1 ELSE 0
         /\ UNCHANGED <<getJointsIndex, handler, jointPos>>
         /\ jointPosSel' =
              [jointPosSel EXCEPT ![i + 1] = jointPos[jointIndices[i + 1]]]
<1>1. jointPosSel' =
        [jointPosSel EXCEPT ![i + 1] = jointPos[jointIndices[i + 1]]]
  BY DEF SelectJoint
<1> QED
  BY <1>1 DEF SelectJoint, Turn

LEMMA NextSeen ==
  ASSUME IndInv, [Next]_vars
  PROVE  SeenSoFar'
<1> USE DEF IndInv, TypeOK, SeenSoFar, LoopsOfHandler, IndexInLoop
<1>1. CASE DefaultJoint \/ PoseMotorId \/ PoseJoint
  BY <1>1 DEF DefaultJoint, PoseMotorId, PoseJoint, Turn, seen
<1>2. CASE ArmJoint \/ LegJoint
  BY <1>2 DEF ArmJoint, LegJoint, Turn, seen
<1>3. CASE EstimateJoint
  <2>1. PICK after \in {"select", "joints"} :
          /\ after = "joints" => \A k \in 1 .. 12 : jointPosSel[k] # Junk
          /\ loop = "estimate"
          /\ loop' = IF i < 23 THEN "estimate" ELSE after
          /\ i' = IF i < 23 THEN i + 1 ELSE 0
          /\ UNCHANGED <<getJointsIndex, handler, jointPosSel>>
    BY <1>3 DEF EstimateJoint, Turn
  <2>2. /\ handler = "user"
        /\ jointPos' =
             [jointPos EXCEPT ![i] = getJointsIndex[walkjointNames[i + 1]]]
    BY <1>3 DEF EstimateJoint
  <2>3. \A s \in Slot : s <= i =>
          jointPos'[s] = getJointsIndex[walkjointNames[s + 1]]
    BY <2>1, <2>2
  <2> QED
    BY <2>1, <2>2, <2>3
<1>4. CASE SelectJoint
  <2>1. i \in 0 .. 11
    BY <1>4 DEF SelectJoint, Turn
  <2>2. jointPos[jointIndices[i + 1]] = getJointsIndex[LegAt(i + 1)]
    BY <1>4, <2>1, ObservedAreLegs DEF SelectJoint, Turn
  <2>3. getJointsIndex[LegAt(i + 1)] # Junk
    <3>1. LegAt(i + 1) \in Joint
      BY <2>1, ListsAreJoints
    <3>2. \A j \in Joint : getJointsIndex[j] \in Slot
      BY LookupOneToOne
    <3> QED
      BY <3>1, <3>2
  <2>4. /\ handler = "user" /\ loop = "select"
        /\ loop' = IF i < 11 THEN "select" ELSE "joints"
        /\ i' = IF i < 11 THEN i + 1 ELSE 0
        /\ UNCHANGED <<getJointsIndex, handler, jointPos>>
    BY <1>4, <2>1, SelectStep
  <2>5. jointPosSel' = [jointPosSel EXCEPT ![i + 1] = getJointsIndex[LegAt(i + 1)]]
    BY <1>4, <2>1, <2>2, SelectStep
  <2>6. /\ \A k \in 1 .. 12 : jointPosSel'[k] \in {Junk, getJointsIndex'[LegAt(k)]}
        /\ \A k \in 1 .. 12 : k <= i + 1 => jointPosSel'[k] # Junk
    BY <2>1, <2>3, <2>4, <2>5
  <2>7. \A s \in Slot : jointPos'[s] = getJointsIndex'[walkjointNames[s + 1]]
    BY <2>4
  <2> QED
    BY <2>1, <2>4, <2>6, <2>7
<1>5. CASE SetJoint
  BY <1>5 DEF SetJoint, FirstLoop
<1>6. CASE UNCHANGED vars
  BY <1>6 DEF vars
<1> QED
  BY <1>1, <1>2, <1>3, <1>4, <1>5, <1>6 DEF Next

-----------------------------------------------------------------------------
(* The theorems.                                                           *)

\* What each loop has filled stays filled until set_joint.
THEOREM Inductive == Spec => []IndInv
<1>1. IndInv /\ [Next]_vars => IndInv'
  BY NextTypeOK, NextLoops, NextDefault, NextPose, NextUser, NextSeen
     DEF IndInv
<1> QED
  BY <1>1, InitIndInv, PTL DEF Spec

\* A walking frame has every joint's own command in its slot.
LEMMA UserComplete ==
  ASSUME IndInv, loop = "done", handler = "user"
  PROVE  \A joint \in Joint : Own(joint)
  BY ListsAreComplete DEF IndInv, UserSoFar

\* Every handler's frame commands each motor with the target of its joint.
THEOREM Commanded == Spec => []EveryJointCommanded
<1>1. IndInv => EveryJointCommanded
  <2> SUFFICES ASSUME IndInv, loop = "done", NEW joint \in Joint
               PROVE  drive[getJointsIndex[joint]] = Target(handler, joint)
    BY DEF EveryJointCommanded
  <2>1. CASE handler = "default"
    BY <2>1, LookupOneToOne DEF IndInv, TypeOK, DefaultSoFar, Target
  <2>2. CASE handler \in {"stand", "lie"}
    BY <2>2 DEF IndInv, PoseSoFar
  <2>3. CASE handler = "user"
    BY <2>3, UserComplete DEF Own, Target
  <2> QED
    BY <2>1, <2>2, <2>3 DEF IndInv, TypeOK, Handler
<1> QED
  BY <1>1, Inductive, PTL

\* The ids of a finished frame: the slot's own, or what the lookup says.
LEMMA IdsWhenDone ==
  ASSUME IndInv, loop = "done"
  PROVE  \/ \A s \in Slot : motor_id[s] = s
         \/ /\ handler \in {"stand", "lie"}
            /\ \A s \in Slot : motor_id[s] = getJointsIndex[s]
<1>1. CASE handler = "default"
  BY <1>1 DEF IndInv, DefaultSoFar
<1>2. CASE handler \in {"stand", "lie"}
  BY <1>2 DEF IndInv, PoseSoFar
<1>3. CASE handler = "user"
  BY <1>3, UserComplete, LookupOneToOne DEF IndInv, TypeOK, Own
<1> QED
  BY <1>1, <1>2, <1>3 DEF IndInv, TypeOK, Handler

\* A frame names every motor in exactly one slot.
THEOREM MotorsOnce == Spec => []EachMotorOnce
<1>1. IndInv => EachMotorOnce
  BY IdsWhenDone, LookupOneToOne DEF IndInv, TypeOK, EachMotorOnce
<1> QED
  BY <1>1, Inductive, PTL

\* The ids of all modes agree if the lookup follows jointNames.
THEOREM IdsAgreement == Spec => []IdsAgree
<1>1. IndInv => IdsAgree
  BY IdsWhenDone DEF IndInv, TypeOK, IdsAgree
<1> QED
  BY <1>1, Inductive, PTL

\* The policy's k-th position is of the motor its k-th action drives.
THEOREM SeesWhatItDrives == Spec => []PolicySeesWhatItDrives
<1>1. IndInv => PolicySeesWhatItDrives
  BY ListsAreJoints DEF IndInv, UserSoFar, SeenSoFar, Own, PolicySeesWhatItDrives
<1> QED
  BY <1>1, Inductive, PTL

\* Walking with no action keeps the legs where STAND brought them, within half
\* a milliradian.
THEOREM MeetsStand == Spec => []WalkMeetsStand
<1>1. \A k \in 1 .. 12 :
        defaultJointAngles_[k] - standJointAngles_[LegAt(k)] \in -5 .. 5
  <2> SUFFICES ASSUME NEW k \in 1 .. 12
               PROVE  defaultJointAngles_[k] - standJointAngles_[LegAt(k)]
                        \in -5 .. 5
    OBVIOUS
  <2>1. k \in {1, 2, 3, 4, 5, 6, 7, 8, 9, 10, 11, 12}
    OBVIOUS
  <2>2. standJointAngles_[LegAt(k)] = standjointState_[LegAt(k) + 1]
    BY ListsAreJoints DEF standJointAngles_
  <2> QED
    BY <2>1, <2>2 DEF LegAt, walkjointNames, jointIndicesLeg,
       defaultJointAngles_, standjointState_
<1>2. IndInv => PolicySeesWhatItDrives
  BY ListsAreJoints DEF IndInv, UserSoFar, SeenSoFar, Own, PolicySeesWhatItDrives
<1>3. IndInv => WalkMeetsStand
  BY <1>1, <1>2 DEF PolicySeesWhatItDrives, WalkMeetsStand
<1> QED
  BY <1>3, Inductive, PTL
===============================================================================
