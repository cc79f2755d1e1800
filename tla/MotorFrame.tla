------------------------------ MODULE MotorFrame ------------------------------
(***************************************************************************)
(* The 24-slot arrays of MotorCmd that the mode handlers of                *)
(* src/examples/cpp/example_low.cpp fill joint by joint for set_joint, and *)
(* the joint positions the policy is shown.                                *)
(*                                                                         *)
(* A joint is its index in jointNames, a slot an index of the array.       *)
(* LowController::getJointsIndex, whose code is not in the repository,     *)
(* gives every joint a slot of its own; nothing more is assumed of it.     *)
(***************************************************************************)
EXTENDS Integers, Sequences

Joint == 0 .. 23
Slot == 0 .. 23

CONSTANT Lookups             \* the functions getJointsIndex may be

OneToOne(lookup) ==
  /\ lookup \in [Joint -> Slot]
  /\ \A s \in Slot : \E j \in Joint : lookup[j] = s
  /\ \A j, k \in Joint : lookup[j] = lookup[k] => j = k

ASSUME LookupsAssumption == Lookups # {} /\ \A f \in Lookups : OneToOne(f)

\* walkjointNames, as indices into jointNames.
walkjointNames ==
  <<0, 1, 2, 3, 4, 23, 7, 8, 5, 6, 11, 12, 9, 10, 15, 16, 13, 14, 19, 20, 17,
    18, 21, 22>>

jointIndicesLeg == <<0, 1, 3, 4, 6, 7, 10, 11, 14, 15, 18, 19>>

\* Mutant: the right elbow is in the list twice, the left one not at all.
jointIndicesArmDouble == <<2, 5, 8, 9, 12, 13, 16, 17, 20, 21, 23, 23>>

jointIndicesArm == <<2, 5, 8, 9, 12, 13, 16, 17, 20, 21, 22, 23>>

\* The same list again, in computeObservation().
\* Mutant: the list of the legs in the order of jointNames.
jointIndicesByName == <<0, 1, 3, 4, 7, 8, 11, 12, 15, 16, 19, 20>>

jointIndices == <<0, 1, 3, 4, 6, 7, 10, 11, 14, 15, 18, 19>>

\* Angles are in tenths of a milliradian; these are in the order of the
\* members of JointState.
standjointState_ ==
  <<0, 0, 0, 0, 0, 0, 0, -1495, -1495, 0, 0, 3215, 3215, 0, 0, -1720, -1720, 0,
    0, 0, 0, 0, 0, 0>>

\* init() copies them member by member, in the order of jointNames.
standJointAngles_ == [joint \in Joint |-> standjointState_[joint + 1]]

\* default_joint_pos of the walk: the k-th goes with the k-th action.
\* Mutant: knees before hip pitch.
defaultJointAnglesKneesFirst ==
  <<0, 0, 0, 0, 3220, 3220, -1490, -1490, -1720, -1720, 0, 0>>

defaultJointAngles_ ==
  <<0, 0, 0, 0, -1490, -1490, 3220, 3220, -1720, -1720, 0, 0>>

\* The joints of the k-th turns of the two loops of handleUserMode.
ArmAt(k) == walkjointNames[jointIndicesArm[k] + 1]
LegAt(k) == walkjointNames[jointIndicesLeg[k] + 1]

waist_2 == 23

Handler == {"default", "stand", "lie", "user"}

\* What a slot makes its motor do, if not follow the target of a joint: the
\* array is not initialised there, all zero, or brakes (kd without kp).
Junk == 24
Off == 25
Damp == 26

VARIABLES
  getJointsIndex,            \* which of Lookups it is
  handler,                   \* the handler that runs
  loop,                      \* its loop, "done" after the last
  i,                         \* and the loop's index
  motor_id,                  \* the array being filled: this member
  drive,                     \* and the others together
  jointPos,                  \* the slots propri_.jointPos is read from
  jointPosSel                \* and those the last observation shows

vars == <<getJointsIndex, handler, loop, i, motor_id, drive, jointPos,
          jointPosSel>>

seen == <<jointPos, jointPosSel>>

\* A new array: handleStandMode and handleLieMode zero theirs.
NewFrame(h) ==
  IF h \in {"stand", "lie"}
  THEN motor_id' = [s \in Slot |-> 0] /\ drive' = [s \in Slot |-> Off]
  ELSE motor_id' = [s \in Slot |-> Junk] /\ drive' = [s \in Slot |-> Junk]

FirstLoop(h) ==
  CASE h = "default" -> "joints" [] h = "user" -> "estimate" [] OTHER -> "ids"

Init ==
  /\ getJointsIndex \in Lookups
  /\ handler = "stand"
  /\ loop = "ids"
  /\ i = 0
  /\ motor_id = [s \in Slot |-> 0]
  /\ drive = [s \in Slot |-> Off]
  /\ jointPos = [s \in Slot |-> Junk]
  /\ jointPosSel = [k \in 1 .. 12 |-> Junk]

\* One turn of a loop with as many turns and a loop or set_joint after it.
Turn(here, turns, after) ==
  /\ loop = here
  /\ i' = IF i + 1 < turns THEN i + 1 ELSE 0
  /\ loop' = IF i + 1 < turns THEN here ELSE after
  /\ UNCHANGED <<getJointsIndex, handler>>

Command(slot, what) == drive' = [drive EXCEPT ![slot] = what]
Identify(slot, id) == motor_id' = [motor_id EXCEPT ![slot] = id]

-----------------------------------------------------------------------------

\* handleDefautMode(): slot and id are both the loop's index.
DefaultJoint ==
  /\ handler = "default"
  /\ Turn("joints", 24, "done")
  /\ Identify(i, i)
  /\ Command(i, Damp)
  /\ UNCHANGED seen

\* Mutant: the id is looked up by the name in walkjointNames.
PoseMotorIdWalk ==
  /\ handler \in {"stand", "lie"}
  /\ Turn("ids", 24, "joints")
  /\ Identify(i, getJointsIndex[walkjointNames[i + 1]])
  /\ UNCHANGED <<drive, seen>>

\* handleStandMode(), handleLieMode(): the first loop
PoseMotorId ==
  /\ handler \in {"stand", "lie"}
  /\ Turn("ids", 24, "joints")
  /\ Identify(i, getJointsIndex[i])
  /\ UNCHANGED <<drive, seen>>

\* The second loop, which leaves waist_2 without kp in STAND.
PoseJoint ==
  /\ handler \in {"stand", "lie"}
  /\ Turn("joints", 24, "done")
  /\ Command(getJointsIndex[i],
             IF handler = "stand" /\ i = waist_2 THEN Damp ELSE i)
  /\ UNCHANGED <<motor_id, seen>>

\* updateStateEstimation(): jointPosnoarm in the order of walkjointNames.  An
\* observation is made of it in the first tick and now and then after it.
EstimateJoint ==
  /\ handler = "user"
  /\ \E after \in {"select", "joints"} :
       /\ after = "joints" => \A k \in 1 .. 12 : jointPosSel[k] # Junk
       /\ Turn("estimate", 24, after)
  /\ jointPos' = [jointPos EXCEPT ![i] = getJointsIndex[walkjointNames[i + 1]]]
  /\ UNCHANGED <<motor_id, drive, jointPosSel>>

\* computeObservation(): the legs' positions
SelectJoint ==
  /\ handler = "user"
  /\ Turn("select", 12, "joints")
  /\ jointPosSel' = [jointPosSel EXCEPT ![i + 1] = jointPos[jointIndices[i + 1]]]
  /\ UNCHANGED <<motor_id, drive, jointPos>>

\* handleUserMode(): slot and id are both the index looked up.
WalkJoint(joint) ==
  /\ Identify(getJointsIndex[joint], getJointsIndex[joint])
  /\ Command(getJointsIndex[joint], joint)

\* Mutant: the id is the joint's place in walkjointNames.
ArmJointWalkId ==
  /\ handler = "user"
  /\ Turn("joints", 12, "legs")
  /\ LET joint == ArmAt(i + 1)
     IN  /\ Identify(getJointsIndex[joint], jointIndicesArm[i + 1])
         /\ Command(getJointsIndex[joint], joint)
  /\ UNCHANGED seen

ArmJoint ==
  /\ handler = "user"
  /\ Turn("joints", 12, "legs")
  /\ WalkJoint(ArmAt(i + 1))
  /\ UNCHANGED seen

LegJoint ==
  /\ handler = "user"
  /\ Turn("legs", 12, "done")
  /\ WalkJoint(LegAt(i + 1))
  /\ UNCHANGED seen

\* set_joint() takes the array; the next tick's handler starts a new one.
SetJoint ==
  /\ loop = "done"
  /\ \E h \in Handler :
       /\ handler' = h
       /\ loop' = FirstLoop(h)
       /\ NewFrame(h)
  /\ jointPos' = [s \in Slot |-> Junk]
  /\ UNCHANGED <<getJointsIndex, i, jointPosSel>>

Next ==
  \/ DefaultJoint \/ PoseMotorId \/ PoseJoint
  \/ EstimateJoint \/ SelectJoint \/ ArmJoint \/ LegJoint
  \/ SetJoint

Spec == Init /\ [][Next]_vars

-----------------------------------------------------------------------------
(* Properties.                                                             *)

Loop == {"ids", "estimate", "select", "joints", "legs", "done"}

TypeOK ==
  /\ getJointsIndex \in Lookups
  /\ handler \in Handler
  /\ loop \in Loop
  /\ i \in 0 .. 23
  /\ motor_id \in [Slot -> Slot \cup {Junk}]
  /\ drive \in [Slot -> Joint \cup {Junk, Off, Damp}]
  /\ jointPos \in [Slot -> Slot \cup {Junk}]
  /\ jointPosSel \in [1 .. 12 -> Slot \cup {Junk}]

\* What the motor of a joint is to do in the frame of a handler.
Target(h, joint) ==
  IF h = "default" \/ (h = "stand" /\ joint = waist_2) THEN Damp ELSE joint

\* A frame handed to set_joint commands every motor, each with the target of
\* its own joint: the two index lists and the name table of handleUserMode
\* leave no slot of its uninitialised array out, and only waist_2 in STAND is
\* left without stiffness.
EveryJointCommanded ==
  loop = "done" =>
    \A joint \in Joint : drive[getJointsIndex[joint]] = Target(handler, joint)

\* No two slots of a frame claim the same motor, whatever the lookup is.
EachMotorOnce ==
  loop = "done" => \A id \in Slot : \E s \in Slot : motor_id[s] = id

\* The ids agree between the modes: DEFAULT and USERMODE number the slots in
\* order, STAND and LIE do so too if the lookup follows jointNames.
IdsAgree ==
  loop = "done" =>
    \/ \A s \in Slot : motor_id[s] = s
    \/ /\ handler \in {"stand", "lie"}
       /\ \E s \in Slot : getJointsIndex[s] # s

\* The motor whose position the policy is shown in the k-th place is the one
\* its k-th action drives, through two copies of an index list, two name
\* tables and the lookup.
PolicySeesWhatItDrives ==
  loop = "done" /\ handler = "user" =>
    \A k \in 1 .. 12 : drive[jointPosSel[k]] = LegAt(k)

\* A policy that asks for nothing leaves the robot in the pose STAND brought it
\* to, but for half a milliradian: the angles of the two are in two files and
\* two orders, and joint_names of e1_ac.yaml is read and compared with neither.
WalkMeetsStand ==
  loop = "done" /\ handler = "user" =>
    \A k \in 1 .. 12 :
      defaultJointAngles_[k] - standJointAngles_[drive[jointPosSel[k]]]
        \in -5 .. 5

-----------------------------------------------------------------------------
(* The inductive invariant behind them: what the loops have done so far.   *)

LoopsOfHandler ==
  /\ handler = "default" => loop \in {"joints", "done"}
  /\ handler \in {"stand", "lie"} => loop \in {"ids", "joints", "done"}
  /\ handler = "user" => loop # "ids"

IndexInLoop ==
  /\ handler = "user" /\ loop # "estimate" => i < 12
  /\ loop = "done" => i = 0

DefaultSoFar ==
  handler = "default" =>
    \A s \in Slot : loop = "done" \/ s < i => motor_id[s] = s /\ drive[s] = Damp

PoseSoFar ==
  handler \in {"stand", "lie"} =>
    /\ \A s \in Slot : loop # "ids" \/ s < i => motor_id[s] = getJointsIndex[s]
    /\ \A j \in Joint :
         loop = "done" \/ (loop = "joints" /\ j < i) =>
           drive[getJointsIndex[j]] = Target(handler, j)

Own(joint) ==
  /\ motor_id[getJointsIndex[joint]] = getJointsIndex[joint]
  /\ drive[getJointsIndex[joint]] = joint

UserSoFar ==
  handler = "user" =>
    /\ \A k \in 1 .. 12 :
         loop \in {"legs", "done"} \/ (loop = "joints" /\ k <= i) => Own(ArmAt(k))
    /\ \A k \in 1 .. 12 :
         loop = "done" \/ (loop = "legs" /\ k <= i) => Own(LegAt(k))

SeenSoFar ==
  /\ \A k \in 1 .. 12 : jointPosSel[k] \in {Junk, getJointsIndex[LegAt(k)]}
  /\ handler = "user" =>
       /\ \A s \in Slot : loop # "estimate" \/ s < i =>
            jointPos[s] = getJointsIndex[walkjointNames[s + 1]]
       /\ \A k \in 1 .. 12 :
            loop \in {"joints", "legs", "done"} \/ (loop = "select" /\ k <= i) =>
              jointPosSel[k] # Junk

IndInv ==
  /\ TypeOK
  /\ LoopsOfHandler /\ IndexInLoop
  /\ DefaultSoFar /\ PoseSoFar /\ UserSoFar /\ SeenSoFar
===============================================================================
