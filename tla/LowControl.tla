------------------------------ MODULE LowControl ------------------------------
(***************************************************************************)
(* The joint-level controller src/examples/cpp/example_low.cpp: init,      *)
(* loadModel and then one call of process() per control tick, in program   *)
(* order.  A tick copies the remote control's buttons once, lets four      *)
(* button blocks change the mode, and lets the handler of the mode build   *)
(* one frame for LowController::set_joint.                                 *)
(*                                                                         *)
(* Numbers are abstracted to where they come from.  A pose, an observation *)
(* or an action vector has the age "none" (never computed), "earlier"      *)
(* (from before the current mode was entered) or "current".                *)
(***************************************************************************)
EXTENDS Naturals

CONSTANTS StandDuration,     \* standDuration: the ticks of a pose ramp
          Decimation,        \* controlCfg.decimation: ticks per inference
          StackSize          \* stackSize_: observations the policy sees

ASSUME StandDurationAssumption == StandDuration \in Nat \ {0}
ASSUME DecimationAssumption == Decimation \in Nat \ {0}
ASSUME StackSizeAssumption == StackSize \in Nat \ {0}

Button == {2, 5, 9, 10, 11}  \* the buttons process() looks at
FlagKey == {5, 9, 10, 11}    \* the entries of keyflag it uses

WorkMode == {"STAND", "LIE", "USERMODE", "DEFAULT"}
Age == {"none", "earlier", "current"}
Message == {"start_control", "stop_control", "STAND2LIE", "TO_USERWALK_MODE",
            "WALK2STAND", "deftolie"}

Step == {"init", "load", "idle", "key9", "key10", "key5", "key11", "mode",
         "terminated"}

VARIABLES
  pc,                        \* the next block of the control thread
  remote_data,               \* the buttons down in this tick's copy
  mode_,
  startcontrol,
  standPercent,              \* in units of 1 / standDuration
  keyflag,
  isChangeMode_,
  count,
  currentJointAngles_,       \* age of the pose the ramps start from
  actions_,                  \* age of the policy's last output
  lastActions_,              \* age of the copy fed to the observations
  proprioHistoryBuffer_,     \* ages of the stacked observations, oldest first
  sent,                      \* the frame given to set_joint last
  announced,                 \* ghost: what this tick has printed
  staleTicks                 \* ghost: policy frames of this visit to USERMODE
                             \* that were not computed in this visit

modeVars == <<mode_, startcontrol, standPercent, isChangeMode_,
              currentJointAngles_>>
policyVars == <<count, actions_, lastActions_, proprioHistoryBuffer_,
                staleTicks>>
vars == <<pc, remote_data, modeVars, keyflag, policyVars, sent, announced>>

Stream == INSTANCE FrameStream

-----------------------------------------------------------------------------
(* Helpers.                                                                *)

Down(k) == k \in remote_data
Up(k) == k \notin remote_data

\* The `else if (remote_data.button[k] == 0) keyflag[k] = 0` of a block.
Rearm(k) == keyflag' = IF Up(k) THEN [keyflag EXCEPT ![k] = FALSE] ELSE keyflag

\* What belonged to the mode that is left belongs to an earlier one now.
Aged(age) == IF age = "current" THEN "earlier" ELSE age

\* A vector is as old as the oldest of the parts it is computed from.
Oldest(ages) ==
  CASE "none" \in ages -> "none"
    [] "none" \notin ages /\ "earlier" \in ages -> "earlier"
    [] OTHER -> "current"

\* The loop `currentJointAngles_[i] = joint_state[index].pos`.
CapturePose == currentJointAngles_' = "current"
KeepOldPose == currentJointAngles_' = Aged(currentJointAngles_)

Announce(message) == announced' = announced \cup {message}

Goto(step) == pc' = step

-----------------------------------------------------------------------------
(* Start-up: main() up to its loop.                                        *)

\* Zero-initialised globals: the first enumerator of WorkMode is STAND.
Init ==
  /\ pc = "init"
  /\ remote_data = {}
  /\ mode_ = "STAND"
  /\ startcontrol = FALSE
  /\ standPercent = 0
  /\ keyflag = [k \in FlagKey |-> FALSE]
  /\ isChangeMode_ = FALSE
  /\ count = 0
  /\ currentJointAngles_ = "none"
  /\ actions_ = "none"
  /\ lastActions_ = "none"
  /\ proprioHistoryBuffer_ = [i \in 1 .. StackSize |-> "none"]
  /\ sent = Stream!NoFrame
  /\ announced = {}
  /\ staleTicks = 0

\* init(): sizes the pose vectors, registers the status callback.
SubscribeAndInit ==
  /\ pc = "init"
  /\ Goto("load")
  /\ standPercent' = 0
  /\ UNCHANGED <<remote_data, mode_, startcontrol, isChangeMode_,
                 currentJointAngles_, keyflag, policyVars, sent, announced>>

\* Mutant: count starts at 1, so the first tick of a walk runs no inference.
LoadModelCountOne ==
  /\ pc = "load"
  /\ Goto("idle")
  /\ standPercent' = 0
  /\ count' = 1
  /\ UNCHANGED <<remote_data, mode_, startcontrol, isChangeMode_,
                 currentJointAngles_, keyflag, actions_, lastActions_,
                 proprioHistoryBuffer_, staleTicks, sent, announced>>

\* loadModel() to its end: sizes and zeroes the policy's vectors, count = 0.
LoadModel ==
  /\ pc = "load"
  /\ Goto("idle")
  /\ standPercent' = 0
  /\ count' = 0
  /\ UNCHANGED <<remote_data, mode_, startcontrol, isChangeMode_,
                 currentJointAngles_, keyflag, actions_, lastActions_,
                 proprioHistoryBuffer_, staleTicks, sent, announced>>

\* A missing or malformed model or yaml file throws out of main().
LoadThrows ==
  /\ pc = "load"
  /\ Goto("terminated")
  /\ UNCHANGED <<remote_data, modeVars, keyflag, policyVars, sent, announced>>

-----------------------------------------------------------------------------
(* The button blocks of process().                                         *)

\* The callback thread may have stored any buttons, and may be storing them.
ReadStatus ==
  /\ pc = "idle"
  /\ remote_data' \in SUBSET Button
  /\ announced' = {}
  /\ Goto("key9")
  /\ UNCHANGED <<modeVars, keyflag, policyVars, sent>>

Key9Pressed == Down(9) /\ ~keyflag[9]

StartControl ==
  /\ pc = "key9"
  /\ Key9Pressed
  /\ ~startcontrol
  /\ startcontrol' = TRUE
  /\ standPercent' = 0
  /\ mode_' = "LIE"
  /\ keyflag' = [keyflag EXCEPT ![9] = TRUE]
  /\ CapturePose
  /\ Announce("start_control")
  /\ Goto("key10")
  /\ UNCHANGED <<remote_data, isChangeMode_, policyVars, sent>>

\* Mutant: a stop leaves startcontrol set.
StopControlStillStarted ==
  /\ pc = "key9"
  /\ Key9Pressed
  /\ startcontrol
  /\ mode_' = "DEFAULT"
  /\ keyflag' = [keyflag EXCEPT ![9] = TRUE]
  /\ KeepOldPose
  /\ Announce("stop_control")
  /\ Goto("key10")
  /\ UNCHANGED <<remote_data, startcontrol, standPercent, isChangeMode_,
                 policyVars, sent>>

StopControl ==
  /\ pc = "key9"
  /\ Key9Pressed
  /\ startcontrol
  /\ startcontrol' = FALSE
  /\ mode_' = "DEFAULT"
  /\ keyflag' = [keyflag EXCEPT ![9] = TRUE]
  /\ KeepOldPose
  /\ Announce("stop_control")
  /\ Goto("key10")
  /\ UNCHANGED <<remote_data, standPercent, isChangeMode_, policyVars, sent>>

Key9Idle ==
  /\ pc = "key9"
  /\ ~Key9Pressed
  /\ Rearm(9)
  /\ Goto("key10")
  /\ UNCHANGED <<remote_data, modeVars, policyVars, sent, announced>>

\* keyflag[10] is only ever cleared: 10 + 2 acts in every tick it is held.
Key10Pressed == Down(10) /\ Down(2) /\ ~keyflag[10]

\* The new mode and log line of the STAND block, less its guards and pose.
StandUp ==
  /\ pc = "key10"
  /\ Key10Pressed
  /\ mode_' = "STAND"
  /\ Announce("STAND2LIE")
  /\ Goto("key5")
  /\ UNCHANGED <<remote_data, startcontrol, isChangeMode_, keyflag,
                 policyVars, sent>>

\* Mutants: the STAND block without one of its guards, its reset or, as in
\* the branch for LIE, its capture of the pose.
StandKeyUnstarted ==
  StandUp /\ CapturePose /\ mode_ # "STAND" /\ standPercent' = 0

StandKeyFromStand ==
  StandUp /\ CapturePose /\ startcontrol /\ standPercent' = 0

StandKeyMidRamp ==
  /\ StandUp
  /\ CapturePose
  /\ startcontrol
  /\ mode_ # "STAND"
  /\ UNCHANGED standPercent

StandKeyOldPose ==
  StandUp /\ KeepOldPose /\ startcontrol /\ mode_ # "STAND" /\ standPercent' = 0

\* The inner `else if (mode_ == WorkMode::LIE)` is unreachable under
\* `if (mode_ != WorkMode::STAND)`, so LIE2STAND is no action.
StandKey ==
  /\ startcontrol
  /\ mode_ # "STAND"
  /\ standPercent' = 0
  /\ CapturePose
  /\ StandUp

Key10Idle ==
  /\ pc = "key10"
  /\ ~(Key10Pressed /\ startcontrol /\ mode_ # "STAND")
  /\ Rearm(10)
  /\ Goto("key5")
  /\ UNCHANGED <<remote_data, modeVars, policyVars, sent, announced>>

Key5Pressed == Down(5) /\ Down(2) /\ ~keyflag[5]

EnterUserMode ==
  /\ pc = "key5"
  /\ Key5Pressed
  /\ mode_ = "STAND"
  /\ standPercent' = 0
  /\ isChangeMode_' = TRUE
  /\ mode_' = "USERMODE"
  /\ KeepOldPose
  /\ actions_' = Aged(actions_)
  /\ lastActions_' = Aged(lastActions_)
  /\ proprioHistoryBuffer_' =
       [i \in 1 .. StackSize |-> Aged(proprioHistoryBuffer_[i])]
  /\ staleTicks' = 0
  /\ Announce("TO_USERWALK_MODE")
  /\ Goto("key11")
  /\ UNCHANGED <<remote_data, startcontrol, count, sent>>

\* Mutant: the block does not latch key 5.
ToUserModeUnlatched == EnterUserMode /\ UNCHANGED keyflag

ToUserMode == EnterUserMode /\ keyflag' = [keyflag EXCEPT ![5] = TRUE]

Key5Idle ==
  /\ pc = "key5"
  /\ ~(Key5Pressed /\ mode_ = "STAND")
  /\ Rearm(5)
  /\ Goto("key11")
  /\ UNCHANGED <<remote_data, modeVars, policyVars, sent, announced>>

\* keyflag[11] is never written: key 11 acts in every tick it is held.
Key11Pressed == Down(11) /\ ~keyflag[11]

WalkToStand ==
  /\ pc = "key11"
  /\ Key11Pressed
  /\ mode_ = "USERMODE"
  /\ isChangeMode_' = TRUE
  /\ mode_' = "STAND"
  /\ KeepOldPose
  /\ Announce("WALK2STAND")
  /\ Goto("mode")
  /\ UNCHANGED <<remote_data, startcontrol, standPercent, keyflag, policyVars,
                 sent>>

DefaultToLie ==
  /\ pc = "key11"
  /\ Key11Pressed
  /\ mode_ = "DEFAULT"
  /\ standPercent' = 0
  /\ isChangeMode_' = TRUE
  /\ mode_' = "LIE"
  /\ KeepOldPose
  /\ Announce("deftolie")
  /\ Goto("mode")
  /\ UNCHANGED <<remote_data, startcontrol, keyflag, policyVars, sent>>

Key11Idle ==
  /\ pc = "key11"
  /\ ~(Key11Pressed /\ mode_ \in {"USERMODE", "DEFAULT"})
  /\ Goto("mode")
  /\ UNCHANGED <<remote_data, modeVars, keyflag, policyVars, sent, announced>>

-----------------------------------------------------------------------------
(* The mode handlers, each ending in ctrl->set_joint(motorcmd).            *)

\* Mutant: standPercent without std::min.
RampFromUnclamped(percent) == percent + 1

\* standPercent += 1 / standDuration; standPercent = min(standPercent, 1).
RampFrom(percent) == IF percent < StandDuration THEN percent + 1 ELSE percent

\* Past the end of the ramp no frame is sent.
RampTo(kind) ==
  /\ IF standPercent <= StandDuration
     THEN /\ sent' = [kind |-> kind, percent |-> standPercent,
                      age |-> currentJointAngles_]
          /\ standPercent' = RampFrom(standPercent)
     ELSE UNCHANGED <<sent, standPercent>>
  /\ Goto("idle")
  /\ UNCHANGED <<remote_data, mode_, startcontrol, isChangeMode_,
                 currentJointAngles_, keyflag, policyVars, announced>>

\* handleStandMode()
HandleStand == pc = "mode" /\ mode_ = "STAND" /\ RampTo("stand")

\* handleLieMode()
HandleLie == pc = "mode" /\ mode_ = "LIE" /\ RampTo("lie")

\* handleDefautMode()
HandleDefault ==
  /\ pc = "mode"
  /\ mode_ = "DEFAULT"
  /\ sent' = [kind |-> "damp", percent |-> 0, age |-> "none"]
  /\ Goto("idle")
  /\ UNCHANGED <<remote_data, modeVars, keyflag, policyVars, announced>>

\* The tail of handleUserMode: the frame carries actions_, which becomes
\* lastActions_, and count moves on from its value at the inference test.
SendPolicyFrame(countBefore) ==
  /\ sent' = [kind |-> "policy", percent |-> 0, age |-> actions_']
  /\ lastActions_' = actions_'
  /\ count' = countBefore + 1
  /\ staleTicks' = IF actions_' = "current" THEN staleTicks ELSE staleTicks + 1
  /\ Goto("idle")
  /\ UNCHANGED <<remote_data, mode_, startcontrol, standPercent,
                 currentJointAngles_, keyflag, announced>>

InferenceDue == count % Decimation = 0

\* computeObservation(): the first observation after a mode change carries
\* no actions and fills the whole stack, a later one carries lastActions_
\* and is shifted in.
ObservationAge == IF isChangeMode_ THEN "current" ELSE lastActions_

\* Mutant: the first observation is only shifted in.
StackedUnfilled ==
  [i \in 1 .. StackSize |->
     IF i = StackSize THEN ObservationAge ELSE proprioHistoryBuffer_[i + 1]]

Stacked ==
  [i \in 1 .. StackSize |->
     IF isChangeMode_ \/ i = StackSize
     THEN ObservationAge
     ELSE proprioHistoryBuffer_[i + 1]]

StackAges(stack) == {stack[i] : i \in 1 .. StackSize}

\* handleUserMode() in a tick that runs the policy
UserModeInfer ==
  /\ pc = "mode"
  /\ mode_ = "USERMODE"
  /\ InferenceDue
  /\ proprioHistoryBuffer_' = Stacked
  /\ isChangeMode_' = FALSE
  /\ actions_' = Oldest(StackAges(proprioHistoryBuffer_'))
  /\ SendPolicyFrame(0)

\* Mutant: `count = 0` outside the inference test.
UserModeHoldReset ==
  /\ pc = "mode"
  /\ mode_ = "USERMODE"
  /\ ~InferenceDue
  /\ UNCHANGED <<actions_, proprioHistoryBuffer_, isChangeMode_>>
  /\ SendPolicyFrame(0)

\* handleUserMode() in a tick that sends the last actions again
UserModeHold ==
  /\ pc = "mode"
  /\ mode_ = "USERMODE"
  /\ ~InferenceDue
  /\ UNCHANGED <<actions_, proprioHistoryBuffer_, isChangeMode_>>
  /\ SendPolicyFrame(count)

-----------------------------------------------------------------------------

StartUp == SubscribeAndInit \/ LoadModel \/ LoadThrows

ButtonBlocks ==
  \/ StartControl \/ StopControl \/ Key9Idle
  \/ StandKey \/ Key10Idle
  \/ ToUserMode \/ Key5Idle
  \/ WalkToStand \/ DefaultToLie \/ Key11Idle

Handlers ==
  \/ HandleStand \/ HandleLie \/ HandleDefault
  \/ UserModeInfer \/ UserModeHold

Next == StartUp \/ ReadStatus \/ ButtonBlocks \/ Handlers

Spec == Init /\ [][Next]_vars

\* The loop of main() never blocks: every block of a tick gets its turn.
LoopFairness == WF_vars(Next)

-----------------------------------------------------------------------------
(* Properties.                                                             *)

\* Every variable stays in its range; count never exceeds the decimation.
TypeOK ==
  /\ pc \in Step
  /\ remote_data \in SUBSET Button
  /\ mode_ \in WorkMode
  /\ startcontrol \in BOOLEAN
  /\ standPercent \in 0 .. StandDuration
  /\ keyflag \in [FlagKey -> BOOLEAN]
  /\ isChangeMode_ \in BOOLEAN
  /\ count \in 0 .. Decimation
  /\ currentJointAngles_ \in Age
  /\ actions_ \in Age
  /\ lastActions_ \in Age
  /\ proprioHistoryBuffer_ \in [1 .. StackSize -> Age]
  /\ sent \in Stream!Frame
  /\ announced \in SUBSET Message
  /\ staleTicks \in Nat

\* Once the policy has run after a mode change, no observation it is shown
\* holds anything of an earlier walk, in any slot of the stack: the reset of
\* computeObservation reaches the buffer although actions_, lastActions_ and
\* proprioHistoryBuffer_ themselves survive leaving USERMODE.
HistoryOfThisVisit ==
  mode_ = "USERMODE" /\ ~isChangeMode_ =>
    \A i \in 1 .. StackSize : proprioHistoryBuffer_[i] = "current"

\* On a second walk the robot gets the previous walk's leg targets for fewer
\* ticks than one inference period, wherever count was left.
StaleFramesBounded == staleTicks < Decimation

\* No leg target is ever sent before the policy has run at least once,
\* although getmodelparam only sizes actions_ and the observation buffer.
NeverUncomputed == sent.kind = "policy" => sent.age # "none"

\* A stop is obeyed in the tick it is given, whatever else is pressed, unless
\* key 11 is held with it: the frame sent is pure damping.
StopObeyedWithoutKey11 ==
  pc = "idle" /\ "stop_control" \in announced /\ Up(11) => sent.kind = "damp"

\* Damping ends only in a tick in which key 9 or key 11 is down; standing up
\* (10 + 2) and walking (5 + 2) alone cannot drive the joints again.
StopLatches ==
  [][sent.kind = "damp" /\ sent'.kind # "damp" => Down(9) \/ Down(11)]_sent

\* Once a pose has been captured, which the first start does, the robot stands
\* or walks only while control is started: TO USERWALK MODE and WALK2STAND do
\* not look at startcontrol and rely on how their modes are reached.
StandsOnlyStarted ==
  mode_ \in {"STAND", "USERMODE"} /\ ~startcontrol =>
    currentJointAngles_ = "none"

\* A ramp begins at the pose the robot has, except after WALK2STAND and
\* deftolie: an old start pose is used only in a tick with key 11 down.
OldPoseNeedsKey11 ==
  [][sent'.kind \in {"stand", "lie"} /\ sent'.percent = 0 /\ sent'.age = "earlier"
       => Down(11)]_sent

\* What the log says and the code does not keep: "STAND2LIE" (line 559) is
\* printed when the robot goes from STAND to LIE.
Stand2LieGoesToLie ==
  [][announced' = announced \cup {"STAND2LIE"} /\ announced' # announced
       => mode_ = "STAND" /\ mode_' = "LIE"]_<<announced, mode_>>

\* What the log says and the code does not keep: a tick that prints "stop
\* control" (line 540) leaves the joints undriven.
StopObeyed == pc = "idle" /\ "stop_control" \in announced => sent.kind = "damp"

\* The frames are those FrameStream promises: a ramp starts at its start
\* pose, advances by one step a tick and is never rebased under way, in each
\* of the modes' many orders, WALK2STAND's missing reset included.
RefinesFrameStream == Stream!Spec

\* With the buttons held as they are, a pose mode reaches its pose: no held
\* key keeps restarting the ramp.
RampCompletes ==
  \/ []<><<remote_data' # remote_data>>_remote_data
  \/ <>(pc = "terminated")
  \/ []<>(mode_ \notin {"STAND", "LIE"})
  \/ <>[](standPercent = StandDuration)

\* While the robot walks, the policy is run again and again.
PolicyKeepsInferring ==
  <>[](mode_ = "USERMODE") => []<><<UserModeInfer>>_vars

-----------------------------------------------------------------------------
(* The inductive invariant behind the safety properties.                   *)

PoseKindOf(mode) == IF mode = "STAND" THEN "stand" ELSE "lie"

\* A pose mode is at the start of its ramp, or one step on from its frame.
RampFollowsFrame ==
  mode_ \in {"STAND", "LIE"} =>
    \/ standPercent = 0
    \/ /\ sent.kind = PoseKindOf(mode_)
       /\ sent.age = currentJointAngles_
       /\ standPercent = RampFrom(sent.percent)

\* Walking keeps the ramp reset, so WALK2STAND need not reset it.
WalkHoldsRamp == mode_ = "USERMODE" => standPercent = 0

\* A pose mode about to begin a ramp at an old pose was entered by key 11.
OldPoseFromKey11 ==
  mode_ \in {"STAND", "LIE"} /\ standPercent = 0 /\ currentJointAngles_ = "earlier"
    => pc = "mode" /\ Down(11)

NoPoseBeforeLoad == pc \in {"init", "load"} => currentJointAngles_ = "none"

\* Only a stop enters DEFAULT, and it clears startcontrol.
DefaultIsStopped == mode_ = "DEFAULT" => ~startcontrol

\* Until the first inference of a visit count is ahead of the stale frames;
\* after it the policy's vectors are all of this visit.
WalkVectors ==
  mode_ = "USERMODE" =>
    IF isChangeMode_
    THEN staleTicks = 0 \/ staleTicks < count
    ELSE /\ actions_ = "current"
         /\ lastActions_ = "current"
         /\ \A i \in 1 .. StackSize : proprioHistoryBuffer_[i] = "current"

NoWalkBeforeLoad == pc \in {"init", "load"} => mode_ = "STAND"

UncomputedBeforeFirst == actions_ = "none" => count = 0

LateSteps == {"key10", "key5", "key11", "mode"}

\* A stop given in this tick stands until key 11 is looked at.
StopStands ==
  /\ pc \in {"init", "load", "key9"} => announced = {}
  /\ pc \in LateSteps /\ "stop_control" \in announced /\ Up(11)
       => mode_ = "DEFAULT"

\* After a damping frame the mode is DEFAULT until 9 or 11 is found down.
DampStands ==
  sent.kind = "damp" =>
    \/ mode_ = "DEFAULT"
    \/ pc \in LateSteps /\ (Down(9) \/ Down(11))

RampInv == RampFollowsFrame /\ WalkHoldsRamp

PoseInv == StandsOnlyStarted /\ OldPoseFromKey11 /\ NoPoseBeforeLoad

StopInv ==
  DefaultIsStopped /\ StopStands /\ DampStands /\ StopObeyedWithoutKey11

WalkInv ==
  /\ NoWalkBeforeLoad
  /\ WalkVectors
  /\ UncomputedBeforeFirst
  /\ StaleFramesBounded
  /\ NeverUncomputed

\* The safety invariants with what makes them inductive: it relates the ramp
\* to the last frame, the start pose to the keys, the mode to the stop given
\* in the tick, and count to the stale frames of the walk.
IndInv == TypeOK /\ RampInv /\ PoseInv /\ StopInv /\ WalkInv
=============================================================================
