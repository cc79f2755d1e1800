--------------------------- MODULE LowControlProofs ---------------------------
(***************************************************************************)
(* The safety properties of LowControl for every ramp duration, decimation *)
(* and stack size, from the inductive invariant IndInv.                    *)
(***************************************************************************)
EXTENDS LowControl, TLAPS

USE StandDurationAssumption, DecimationAssumption, StackSizeAssumption

-----------------------------------------------------------------------------
(* The operators of the model.                                             *)

\* `count % decimation == 0` for the values count takes.
LEMMA InferenceDueValues ==
  ASSUME count \in 0 .. Decimation
  PROVE  InferenceDue <=> count \in {0, Decimation}
<1>1. CASE count = 0
  BY <1>1 DEF InferenceDue
<1>2. CASE count = Decimation
  BY <1>2 DEF InferenceDue
<1>3. CASE count \in 1 .. Decimation - 1
  BY <1>3 DEF InferenceDue
<1> QED
  BY <1>1, <1>2, <1>3

\* A vector computed from current parts only is current.
LEMMA OldestOfCurrent ==
  ASSUME NEW stack \in [1 .. StackSize -> Age],
         \A i \in 1 .. StackSize : stack[i] = "current"
  PROVE  Oldest(StackAges(stack)) = "current"
<1>1. StackAges(stack) = {"current"}
  BY DEF StackAges
<1> QED
  BY <1>1 DEF Oldest

LEMMA OldestIsAge == \A ages : Oldest(ages) \in Age
  BY DEF Oldest, Age

\* The step of a ramp stays within the ramp, and moves unless it is over.
LEMMA RampFromRange ==
  ASSUME NEW percent \in 0 .. StandDuration
  PROVE  /\ RampFrom(percent) \in 1 .. StandDuration
         /\ RampFrom(percent) = percent <=> percent = StandDuration
         /\ RampFrom(percent) \in {percent, percent + 1}
  BY DEF RampFrom

-----------------------------------------------------------------------------
(* The invariant.                                                          *)

LEMMA InitTypeOK == Init => TypeOK
<1> SUFFICES ASSUME Init PROVE TypeOK
  OBVIOUS
<1> USE DEF Init
<1>1. sent \in Stream!Frame
  BY DEF Stream!NoFrame, Stream!Frame, Stream!Kind, Stream!PoseKind, Stream!Age
<1>2. keyflag \in [FlagKey -> BOOLEAN]
  OBVIOUS
<1>3. proprioHistoryBuffer_ \in [1 .. StackSize -> Age]
  BY DEF Age
<1>4. pc \in Step /\ mode_ \in WorkMode /\ remote_data \in SUBSET Button
  BY DEF Step, WorkMode
<1>5. announced \in SUBSET Message
  OBVIOUS
<1>6. startcontrol \in BOOLEAN /\ isChangeMode_ \in BOOLEAN
  OBVIOUS
<1>7. count \in 0 .. Decimation /\ staleTicks \in Nat
      /\ standPercent \in 0 .. StandDuration
  OBVIOUS
<1> QED
  BY <1>1, <1>2, <1>3, <1>4, <1>5, <1>6, <1>7 DEF TypeOK, Age

LEMMA NextTypeOK == TypeOK /\ [Next]_vars => TypeOK'
<1> SUFFICES ASSUME TypeOK, [Next]_vars PROVE TypeOK'
  OBVIOUS
<1> USE DEF TypeOK, modeVars, policyVars
<1>1. CASE SubscribeAndInit
  BY <1>1 DEF SubscribeAndInit, Goto, Step
<1>2. CASE LoadModel
  BY <1>2 DEF LoadModel, Goto, Step
<1>3. CASE LoadThrows
  BY <1>3 DEF LoadThrows, Goto, Step
<1>4. CASE ReadStatus
  BY <1>4 DEF ReadStatus, Goto, Step
<1>5. CASE StartControl
  <2> USE <1>5 DEF StartControl
  <2>1. announced' \in SUBSET Message
    BY DEF Announce, Message
  <2>2. pc' \in Step /\ mode_' \in WorkMode /\ currentJointAngles_' \in Age
    BY DEF Goto, Step, WorkMode, CapturePose, Age
  <2>3. keyflag' \in [FlagKey -> BOOLEAN]
    OBVIOUS
  <2>4. standPercent' \in 0 .. StandDuration /\ startcontrol' \in BOOLEAN
    OBVIOUS
  <2>5. UNCHANGED <<remote_data, isChangeMode_, policyVars, sent>>
    OBVIOUS
  <2> QED
    BY <2>1, <2>2, <2>3, <2>4, <2>5
<1>6. CASE StopControl
  BY <1>6 DEF StopControl, Goto, Step, Announce, KeepOldPose, Aged, Message,
     WorkMode, Age
<1>7. CASE Key9Idle
  BY <1>7 DEF Key9Idle, Goto, Step, Rearm
<1>8. CASE StandKey
  BY <1>8 DEF StandKey, Goto, Step, StandUp, Announce, CapturePose, Message,
     WorkMode, Age
<1>9. CASE Key10Idle
  BY <1>9 DEF Key10Idle, Goto, Step, Rearm
<1>10. CASE ToUserMode
  <2> USE <1>10 DEF ToUserMode, EnterUserMode
  <2>1. announced' \in SUBSET Message
    BY DEF Announce, Message
  <2>2. pc' \in Step /\ mode_' \in WorkMode
    BY DEF Goto, Step, WorkMode
  <2>3. /\ currentJointAngles_' \in Age
        /\ actions_' \in Age
        /\ lastActions_' \in Age
        /\ proprioHistoryBuffer_' \in [1 .. StackSize -> Age]
    BY DEF KeepOldPose, Aged, Age
  <2>4. keyflag' \in [FlagKey -> BOOLEAN]
    OBVIOUS
  <2>5. standPercent' \in 0 .. StandDuration /\ staleTicks' \in Nat
    OBVIOUS
  <2> QED
    BY <2>1, <2>2, <2>3, <2>4, <2>5
<1>11. CASE Key5Idle
  BY <1>11 DEF Key5Idle, Goto, Step, Rearm
<1>12. CASE WalkToStand
  BY <1>12 DEF WalkToStand, Goto, Step, Announce, KeepOldPose, Aged, Message,
     WorkMode, Age
<1>13. CASE DefaultToLie
  BY <1>13 DEF DefaultToLie, Goto, Step, Announce, KeepOldPose, Aged, Message,
     WorkMode, Age
<1>14. CASE Key11Idle
  BY <1>14 DEF Key11Idle, Goto, Step
<1>15. CASE HandleStand \/ HandleLie
  <2> USE <1>15 DEF HandleStand, HandleLie, RampTo
  <2>1. sent' \in Stream!Frame
    BY DEF Stream!Frame, Stream!Kind, Stream!PoseKind, Stream!Age, Age
  <2>2. standPercent' \in 0 .. StandDuration
    BY RampFromRange
  <2>3. pc' \in Step
    BY DEF Goto, Step
  <2> QED
    BY <2>1, <2>2, <2>3
<1>16. CASE HandleDefault
  BY <1>16 DEF HandleDefault, Goto, Step, Stream!Frame, Stream!Kind, Stream!Age
<1>17. CASE UserModeInfer
  <2> USE <1>17 DEF UserModeInfer, SendPolicyFrame
  <2>1. actions_' \in Age /\ lastActions_' \in Age
    BY OldestIsAge
  <2>2. proprioHistoryBuffer_' \in [1 .. StackSize -> Age]
    BY DEF Stacked, ObservationAge, Age
  <2>3. sent' \in Stream!Frame
    BY <2>1 DEF Stream!Frame, Stream!Kind, Stream!Age, Age
  <2>4. pc' \in Step
    BY DEF Goto, Step
  <2>5. count' \in 0 .. Decimation /\ staleTicks' \in Nat
    OBVIOUS
  <2> QED
    BY <2>1, <2>2, <2>3, <2>4, <2>5
<1>18. CASE UserModeHold
  BY <1>18, InferenceDueValues DEF UserModeHold, SendPolicyFrame, Goto, Step,
     Stream!Frame, Stream!Kind, Stream!Age, Age
<1>19. CASE UNCHANGED vars
  BY <1>19 DEF vars
<1> QED
  BY <1>1, <1>2, <1>3, <1>4, <1>5, <1>6, <1>7, <1>8, <1>9, <1>10, <1>11, <1>12,
     <1>13, <1>14, <1>15, <1>16, <1>17, <1>18, <1>19
     DEF Next, StartUp, ButtonBlocks, Handlers

-----------------------------------------------------------------------------
(* The parts of the inductive invariant.                                   *)

LEMMA NextStopInv ==
  ASSUME TypeOK, StopInv, [Next]_vars
  PROVE  StopInv'
<1> USE DEF StopInv, DefaultIsStopped, StopStands, DampStands, StopObeyedWithoutKey11,
           LateSteps, modeVars, policyVars, Goto, Up, Down
<1>1. CASE SubscribeAndInit
  BY <1>1 DEF SubscribeAndInit
<1>2. CASE LoadModel
  BY <1>2 DEF LoadModel
<1>3. CASE LoadThrows
  BY <1>3 DEF LoadThrows
<1>4. CASE ReadStatus
  BY <1>4 DEF ReadStatus
<1>5. CASE StartControl
  BY <1>5 DEF StartControl, Announce, Key9Pressed, Down
<1>6. CASE StopControl
  BY <1>6 DEF StopControl, Announce, Key9Pressed, Down
<1>7. CASE Key9Idle
  BY <1>7 DEF Key9Idle
<1>8. CASE StandKey
  BY <1>8 DEF StandKey, StandUp, Announce
<1>9. CASE Key10Idle
  BY <1>9 DEF Key10Idle
<1>10. CASE ToUserMode
  BY <1>10 DEF ToUserMode, EnterUserMode, Announce
<1>11. CASE Key5Idle
  BY <1>11 DEF Key5Idle
<1>12. CASE WalkToStand
  BY <1>12 DEF WalkToStand, Announce, Key11Pressed, Down
<1>13. CASE DefaultToLie
  BY <1>13 DEF DefaultToLie, Announce, Key11Pressed, Down
<1>14. CASE Key11Idle
  BY <1>14 DEF Key11Idle
<1>15. CASE HandleStand \/ HandleLie
  BY <1>15 DEF HandleStand, HandleLie, RampTo, TypeOK
<1>16. CASE HandleDefault
  BY <1>16 DEF HandleDefault
<1>17. CASE UserModeInfer
  BY <1>17 DEF UserModeInfer, SendPolicyFrame
<1>18. CASE UserModeHold
  BY <1>18 DEF UserModeHold, SendPolicyFrame
<1>19. CASE UNCHANGED vars
  BY <1>19 DEF vars
<1> QED
  BY <1>1, <1>2, <1>3, <1>4, <1>5, <1>6, <1>7, <1>8, <1>9, <1>10, <1>11,
     <1>12, <1>13, <1>14, <1>15, <1>16, <1>17, <1>18, <1>19 DEF Next, StartUp,
     ButtonBlocks, Handlers

LEMMA NextRampInv ==
  ASSUME TypeOK, RampInv, [Next]_vars
  PROVE  RampInv'
<1> USE DEF RampInv, RampFollowsFrame, WalkHoldsRamp, PoseKindOf, modeVars
<1>1. CASE SubscribeAndInit
  BY <1>1 DEF SubscribeAndInit
<1>2. CASE LoadModel
  BY <1>2 DEF LoadModel
<1>3. CASE LoadThrows
  BY <1>3 DEF LoadThrows
<1>4. CASE ReadStatus
  BY <1>4 DEF ReadStatus
<1>5. CASE StartControl
  BY <1>5 DEF StartControl
<1>6. CASE StopControl
  BY <1>6 DEF StopControl
<1>7. CASE Key9Idle
  BY <1>7 DEF Key9Idle
<1>8. CASE StandKey
  BY <1>8 DEF StandKey, StandUp
<1>9. CASE Key10Idle
  BY <1>9 DEF Key10Idle
<1>10. CASE ToUserMode
  BY <1>10 DEF ToUserMode, EnterUserMode
<1>11. CASE Key5Idle
  BY <1>11 DEF Key5Idle
<1>12. CASE WalkToStand
  BY <1>12 DEF WalkToStand
<1>13. CASE DefaultToLie
  BY <1>13 DEF DefaultToLie
<1>14. CASE Key11Idle
  BY <1>14 DEF Key11Idle
<1>15. CASE HandleStand \/ HandleLie
  BY <1>15, RampFromRange DEF HandleStand, HandleLie, RampTo, TypeOK
<1>16. CASE HandleDefault
  BY <1>16 DEF HandleDefault
<1>17. CASE UserModeInfer
  BY <1>17 DEF UserModeInfer, SendPolicyFrame
<1>18. CASE UserModeHold
  BY <1>18 DEF UserModeHold, SendPolicyFrame
<1>19. CASE UNCHANGED vars
  BY <1>19 DEF vars
<1> QED
  BY <1>1, <1>2, <1>3, <1>4, <1>5, <1>6, <1>7, <1>8, <1>9, <1>10, <1>11,
     <1>12, <1>13, <1>14, <1>15, <1>16, <1>17, <1>18, <1>19 DEF Next, StartUp,
     ButtonBlocks, Handlers

LEMMA NextPoseInv ==
  ASSUME TypeOK, PoseInv, [Next]_vars
  PROVE  PoseInv'
<1> USE DEF PoseInv, StandsOnlyStarted, OldPoseFromKey11, NoPoseBeforeLoad, modeVars,
            Goto, Down
<1>1. CASE SubscribeAndInit
  BY <1>1 DEF SubscribeAndInit
<1>2. CASE LoadModel
  BY <1>2 DEF LoadModel
<1>3. CASE LoadThrows
  BY <1>3 DEF LoadThrows
<1>4. CASE ReadStatus
  BY <1>4 DEF ReadStatus
<1>5. CASE StartControl
  BY <1>5 DEF StartControl, CapturePose
<1>6. CASE StopControl
  BY <1>6 DEF StopControl
<1>7. CASE Key9Idle
  BY <1>7 DEF Key9Idle
<1>8. CASE StandKey
  BY <1>8 DEF StandKey, StandUp, CapturePose
<1>9. CASE Key10Idle
  BY <1>9 DEF Key10Idle
<1>10. CASE ToUserMode
  BY <1>10 DEF ToUserMode, EnterUserMode, KeepOldPose, Aged
<1>11. CASE Key5Idle
  BY <1>11 DEF Key5Idle
<1>12. CASE WalkToStand
  BY <1>12 DEF WalkToStand, KeepOldPose, Aged, Key11Pressed
<1>13. CASE DefaultToLie
  BY <1>13 DEF DefaultToLie, Key11Pressed
<1>14. CASE Key11Idle
  BY <1>14 DEF Key11Idle
<1>15. CASE HandleStand \/ HandleLie
  BY <1>15, RampFromRange DEF HandleStand, HandleLie, RampTo, TypeOK
<1>16. CASE HandleDefault
  BY <1>16 DEF HandleDefault
<1>17. CASE UserModeInfer
  BY <1>17 DEF UserModeInfer, SendPolicyFrame
<1>18. CASE UserModeHold
  BY <1>18 DEF UserModeHold, SendPolicyFrame
<1>19. CASE UNCHANGED vars
  BY <1>19 DEF vars
<1> QED
  BY <1>1, <1>2, <1>3, <1>4, <1>5, <1>6, <1>7, <1>8, <1>9, <1>10, <1>11,
     <1>12, <1>13, <1>14, <1>15, <1>16, <1>17, <1>18, <1>19 DEF Next, StartUp,
     ButtonBlocks, Handlers

LEMMA NextWalkInv ==
  ASSUME TypeOK, WalkInv, [Next]_vars
  PROVE  WalkInv'
<1> USE DEF WalkInv, WalkVectors, UncomputedBeforeFirst, StaleFramesBounded,
            NeverUncomputed, NoWalkBeforeLoad, Goto, modeVars, policyVars
<1>1. CASE SubscribeAndInit
  BY <1>1 DEF SubscribeAndInit
<1>2. CASE LoadModel
  BY <1>2 DEF LoadModel
<1>3. CASE LoadThrows
  BY <1>3 DEF LoadThrows
<1>4. CASE ReadStatus
  BY <1>4 DEF ReadStatus
<1>5. CASE StartControl
  BY <1>5 DEF StartControl
<1>6. CASE StopControl
  BY <1>6 DEF StopControl
<1>7. CASE Key9Idle
  BY <1>7 DEF Key9Idle
<1>8. CASE StandKey
  BY <1>8 DEF StandKey, StandUp
<1>9. CASE Key10Idle
  BY <1>9 DEF Key10Idle
<1>10. CASE ToUserMode
  BY <1>10 DEF ToUserMode, EnterUserMode, Aged, TypeOK, Age
<1>11. CASE Key5Idle
  BY <1>11 DEF Key5Idle
<1>12. CASE WalkToStand
  BY <1>12 DEF WalkToStand
<1>13. CASE DefaultToLie
  BY <1>13 DEF DefaultToLie
<1>14. CASE Key11Idle
  BY <1>14 DEF Key11Idle
<1>15. CASE HandleStand \/ HandleLie
  BY <1>15 DEF HandleStand, HandleLie, RampTo
<1>16. CASE HandleDefault
  BY <1>16 DEF HandleDefault
<1>17. CASE UserModeInfer
  <2> USE <1>17 DEF UserModeInfer
  <2>1. \A i \in 1 .. StackSize : proprioHistoryBuffer_'[i] = "current"
    BY DEF Stacked, ObservationAge
  <2>2. proprioHistoryBuffer_' \in [1 .. StackSize -> Age]
    BY NextTypeOK DEF TypeOK
  <2>3. actions_' = "current"
    BY <2>1, <2>2, OldestOfCurrent
  <2> QED
    BY <2>1, <2>3 DEF SendPolicyFrame
<1>18. CASE UserModeHold
  <2> USE <1>18 DEF UserModeHold, SendPolicyFrame
  <2>1. count \in 1 .. Decimation - 1
    BY InferenceDueValues DEF TypeOK
  <2>2. actions_ # "none"
    BY <2>1
  <2>3. CASE isChangeMode_
    BY <2>1, <2>2, <2>3 DEF TypeOK
  <2>4. CASE ~isChangeMode_
    BY <2>1, <2>2, <2>4 DEF TypeOK
  <2> QED
    BY <2>3, <2>4
<1>19. CASE UNCHANGED vars
  BY <1>19 DEF vars
<1> QED
  BY <1>1, <1>2, <1>3, <1>4, <1>5, <1>6, <1>7, <1>8, <1>9, <1>10, <1>11, <1>12,
     <1>13, <1>14, <1>15, <1>16, <1>17, <1>18, <1>19
     DEF Next, StartUp, ButtonBlocks, Handlers

-----------------------------------------------------------------------------
(* The theorems.                                                           *)

LEMMA InitIndInv == Init => IndInv
<1> SUFFICES ASSUME Init PROVE IndInv
  OBVIOUS
<1> USE DEF Init, Stream!NoFrame
<1>1. RampInv
  BY DEF RampInv, RampFollowsFrame, WalkHoldsRamp
<1>2. StopInv
  BY DEF StopInv, DefaultIsStopped, StopStands, DampStands,
     StopObeyedWithoutKey11, LateSteps
<1>3. WalkInv
  BY DEF WalkInv, NoWalkBeforeLoad, WalkVectors, UncomputedBeforeFirst,
     StaleFramesBounded, NeverUncomputed
<1>4. PoseInv
  BY DEF PoseInv, StandsOnlyStarted, OldPoseFromKey11, NoPoseBeforeLoad
<1> QED
  BY <1>1, <1>2, <1>3, <1>4, InitTypeOK DEF IndInv

LEMMA NextIndInv == IndInv /\ [Next]_vars => IndInv'
  BY NextTypeOK, NextRampInv, NextPoseInv, NextStopInv, NextWalkInv
     DEF IndInv

THEOREM Inductive == Spec => []IndInv
  BY InitIndInv, NextIndInv, PTL DEF Spec

THEOREM TypeCorrect == Spec => []TypeOK
<1>1. IndInv => TypeOK
  BY DEF IndInv
<1> QED
  BY <1>1, Inductive, PTL

\* However often the robot walks, stands, stops and starts, the policy never
\* sees an observation of an earlier walk after its first inference.
THEOREM PolicyHistory == Spec => []HistoryOfThisVisit
<1>1. IndInv => HistoryOfThisVisit
  BY DEF IndInv, WalkInv, WalkVectors, HistoryOfThisVisit
<1> QED
  BY <1>1, Inductive, PTL

\* Leg targets of an earlier walk are sent for less than one inference period.
THEOREM StaleFrames == Spec => []StaleFramesBounded
<1>1. IndInv => StaleFramesBounded
  BY DEF IndInv, WalkInv
<1> QED
  BY <1>1, Inductive, PTL

\* No frame carries an output of a policy that has not run.
THEOREM Computed == Spec => []NeverUncomputed
<1>1. IndInv => NeverUncomputed
  BY DEF IndInv, WalkInv
<1> QED
  BY <1>1, Inductive, PTL

\* A stop is obeyed in its own tick unless key 11 is held.
THEOREM StopWins == Spec => []StopObeyedWithoutKey11
<1>1. IndInv => StopObeyedWithoutKey11
  BY DEF IndInv, StopInv
<1> QED
  BY <1>1, Inductive, PTL

\* After a damping frame only key 9 or key 11 drives the joints again.
THEOREM StopHolds == Spec => StopLatches
<1>1. IndInv /\ [Next]_vars
      => [sent.kind = "damp" /\ sent'.kind # "damp" => Down(9) \/ Down(11)]_sent
  <2> SUFFICES ASSUME IndInv, [Next]_vars, sent' # sent,
                      sent.kind = "damp", sent'.kind # "damp"
               PROVE  Down(9) \/ Down(11)
    OBVIOUS
  <2>1. HandleStand \/ HandleLie \/ HandleDefault \/ UserModeInfer \/ UserModeHold
    BY DEF Next, StartUp, ButtonBlocks, Handlers, vars, SubscribeAndInit,
       LoadModel, LoadThrows, ReadStatus, StartControl, StopControl, Key9Idle,
       StandKey, StandUp, Key10Idle, ToUserMode, EnterUserMode, Key5Idle,
       WalkToStand, DefaultToLie, Key11Idle
  <2>2. mode_ # "DEFAULT"
    BY <2>1 DEF HandleStand, HandleLie, HandleDefault, UserModeInfer, UserModeHold
  <2> QED
    BY <2>2 DEF IndInv, StopInv, DampStands
<1> QED
  BY <1>1, Inductive, PTL DEF Spec, StopLatches

\* Once control was started, the robot stands or walks only while it is.
THEOREM StandsStarted == Spec => []StandsOnlyStarted
<1>1. IndInv => StandsOnlyStarted
  BY DEF IndInv, PoseInv
<1> QED
  BY <1>1, Inductive, PTL

\* Only key 11 starts a ramp at a pose captured in an earlier mode.
THEOREM FreshPose == Spec => OldPoseNeedsKey11
<1>1. IndInv /\ [Next]_vars
      => [sent'.kind \in {"stand", "lie"} /\ sent'.percent = 0 /\ sent'.age = "earlier"
            => Down(11)]_sent
  <2> SUFFICES ASSUME IndInv, [Next]_vars, sent' # sent,
                      sent'.kind \in {"stand", "lie"},
                      sent'.percent = 0, sent'.age = "earlier"
               PROVE  Down(11)
    OBVIOUS
  <2>1. HandleStand \/ HandleLie \/ HandleDefault \/ UserModeInfer \/ UserModeHold
    BY DEF Next, StartUp, ButtonBlocks, Handlers, vars, SubscribeAndInit,
       LoadModel, LoadThrows, ReadStatus, StartControl, StopControl, Key9Idle,
       StandKey, StandUp, Key10Idle, ToUserMode, EnterUserMode, Key5Idle,
       WalkToStand, DefaultToLie, Key11Idle
  <2>2. HandleStand \/ HandleLie
    BY <2>1 DEF HandleDefault, UserModeInfer, UserModeHold, SendPolicyFrame
  <2>3. /\ mode_ \in {"STAND", "LIE"}
        /\ standPercent = 0
        /\ currentJointAngles_ = "earlier"
    BY <2>2 DEF HandleStand, HandleLie, RampTo
  <2> QED
    BY <2>3 DEF IndInv, PoseInv, OldPoseFromKey11
<1> QED
  BY <1>1, Inductive, PTL DEF Spec, OldPoseNeedsKey11

\* LowControl implements FrameStream.
THEOREM Refinement == Spec => RefinesFrameStream
<1>1. Init => Stream!Init
  BY DEF Init, Stream!Init
<1>2. IndInv /\ [Next]_vars => [Stream!Next]_sent
  <2> SUFFICES ASSUME IndInv, [Next]_vars PROVE [Stream!Next]_sent
    OBVIOUS
  <2>1. ASSUME NEW kind \in Stream!PoseKind,
               mode_ \in {"STAND", "LIE"},
               kind = PoseKindOf(mode_),
               RampTo(kind)
        PROVE  Stream!Next
    <3>1. CASE standPercent = 0
      <4>1. Stream!BeginRamp(kind, currentJointAngles_)
        BY <2>1, <3>1 DEF RampTo, Stream!BeginRamp
      <4> QED
        BY <4>1 DEF Stream!Next, IndInv, TypeOK, Age, Stream!Age
    <3>2. CASE standPercent # 0
      <4>1. /\ sent.kind = kind
            /\ sent.age = currentJointAngles_
            /\ standPercent = RampFrom(sent.percent)
        BY <2>1, <3>2 DEF IndInv, RampInv, RampFollowsFrame
      <4>2. sent \in Stream!Frame /\ standPercent \in 0 .. StandDuration
        BY DEF IndInv, TypeOK
      <4>3. sent.percent \in 0 .. StandDuration
        BY <4>2 DEF Stream!Frame
      <4>4. PICK step \in {0, 1} :
              /\ standPercent = sent.percent + step
              /\ step = 0 => sent.percent = StandDuration
        BY <4>1, <4>3, RampFromRange
      <4>5. sent' = [sent EXCEPT !.percent = @ + step]
        BY <2>1, <4>1, <4>2, <4>4 DEF RampTo, Stream!Frame
      <4>6. Stream!ContinueRamp(kind)
        BY <4>1, <4>2, <4>4, <4>5 DEF Stream!ContinueRamp
      <4> QED
        BY <4>6 DEF Stream!Next
    <3> QED
      BY <3>1, <3>2
  <2>2. CASE HandleStand
    BY <2>1, <2>2 DEF HandleStand, PoseKindOf, Stream!PoseKind
  <2>3. CASE HandleLie
    BY <2>1, <2>3 DEF HandleLie, PoseKindOf, Stream!PoseKind
  <2>4. CASE HandleDefault
    BY <2>4 DEF HandleDefault, Stream!Damp, Stream!Next
  <2>5. CASE UserModeInfer \/ UserModeHold
    <3>1. sent' = [kind |-> "policy", percent |-> 0, age |-> actions_']
      BY <2>5 DEF UserModeInfer, UserModeHold, SendPolicyFrame
    <3>2. actions_' \in Age
      BY NextTypeOK DEF IndInv, TypeOK
    <3>3. actions_' # "none"
      <4>1. NeverUncomputed'
        BY NextIndInv DEF IndInv, WalkInv
      <4> QED
        BY <3>1, <4>1 DEF NeverUncomputed
    <3>4. Stream!Policy(actions_')
      BY <3>1, <3>3 DEF Stream!Policy
    <3> QED
      BY <3>2, <3>4 DEF Stream!Next, Age, Stream!Age
  <2>6. CASE UNCHANGED sent
    BY <2>6
  <2> QED
    BY <2>2, <2>3, <2>4, <2>5, <2>6 DEF Next, StartUp, ButtonBlocks, Handlers,
       vars, SubscribeAndInit, LoadModel, LoadThrows, ReadStatus, StartControl,
       StopControl, Key9Idle, StandKey, StandUp, Key10Idle, ToUserMode,
       EnterUserMode, Key5Idle, WalkToStand, DefaultToLie, Key11Idle
<1> QED
  BY <1>1, <1>2, Inductive, PTL DEF Spec, RefinesFrameStream, Stream!Spec
==============================================================================
