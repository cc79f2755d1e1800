-------------------------- MODULE LowControlHeldProofs --------------------------
(***************************************************************************)
(* That held buttons act in two ticks and no more, for every ramp          *)
(* duration, decimation and stack size.                                    *)
(***************************************************************************)
EXTENDS LowControlHeld, LowControlProofs

\* The history variable does not constrain the controller.
LEMMA HeldImplementsSpec == HeldSpec => Spec
<1>1. HeldInit => Init
  BY DEF HeldInit
<1>2. [HeldNext]_heldVars => [Next]_vars
  BY DEF HeldNext, heldVars
<1> QED
  BY <1>1, <1>2, PTL DEF HeldSpec, Spec

LEMMA HeldTypeCorrect == HeldSpec => []TypeOK
  BY HeldImplementsSpec, TypeCorrect, PTL

-----------------------------------------------------------------------------
(* The count of the ticks.                                                 *)

LEMMA RecountedRange ==
  ASSUME heldTicks \in 0 .. Enough
  PROVE  /\ Recounted \in 0 .. Enough
         /\ Recounted <= heldTicks + 1
         /\ Recounted >= 1 => remote_data' = remote_data
         /\ Recounted >= 2 => heldTicks >= 1
  BY StandDurationAssumption, DecimationAssumption DEF Recounted, Enough

LEMMA InitHeldInv == HeldInit => HeldInv
<1> SUFFICES ASSUME HeldInit PROVE HeldInv
  OBVIOUS
<1> USE DEF HeldInit, Init, Down, FlagKey
<1>1. heldTicks \in 0 .. Enough
  BY StandDurationAssumption, DecimationAssumption DEF Enough
<1>2. LatchesKept
  BY DEF LatchesKept, Key9Quiet
<1>3. BlocksDone
  BY DEF BlocksDone, TickOver, NotBegun, Key11Quiet, Key5Spent, PoseMode
<1>4. RampKeepsUp
  BY DEF RampKeepsUp
<1>5. WalkKeepsUp
  BY DEF WalkKeepsUp
<1> QED
  BY <1>1, <1>2, <1>3, <1>4, <1>5 DEF HeldInv

-----------------------------------------------------------------------------
(* Each step keeps the invariant.                                          *)

\* What a block finds is what it left in the tick before.
LEMMA TickBegins ==
  ASSUME TypeOK, HeldInv, ReadStatus, heldTicks' = Recounted
  PROVE  HeldInv'
<1> USE DEF ReadStatus, Goto, modeVars
<1>1. pc = "idle" /\ pc' = "key9" /\ heldTicks \in 0 .. Enough
  BY DEF HeldInv
<1>2. /\ heldTicks' \in 0 .. Enough
      /\ heldTicks' <= heldTicks + 1
      /\ heldTicks' >= 1 => remote_data' = remote_data
      /\ heldTicks' >= 2 => heldTicks >= 1
  BY <1>1, RecountedRange
<1>3. LatchesKept'
  BY <1>1, <1>2 DEF HeldInv, LatchesKept, Key9Quiet, Down
<1>4. BlocksDone'
  BY <1>1, <1>2 DEF HeldInv, BlocksDone, TickOver, NotBegun, Key11Quiet,
     Key5Spent, Down
<1>5. heldTicks' >= 2 => Settled'
  BY <1>1, <1>2 DEF HeldInv, LatchesKept, BlocksDone, Settled, TickOver,
     Key9Quiet, Key10Quiet, Key5Quiet, Key11Quiet, Down
<1>6. RampKeepsUp'
  BY <1>1, <1>2 DEF HeldInv, RampKeepsUp, TypeOK, Enough
<1>7. WalkKeepsUp'
  BY <1>1, <1>2 DEF HeldInv, WalkKeepsUp, TypeOK, Enough, policyVars
<1> QED
  BY <1>1, <1>2, <1>3, <1>4, <1>5, <1>6, <1>7 DEF HeldInv, NotBegun

\* A block that acts leaves nothing to do for it, and nothing that the blocks
\* after it undo in the next tick.
LEMMA BlocksKeepHeldInv ==
  ASSUME TypeOK, HeldInv, ButtonBlocks, UNCHANGED heldTicks
  PROVE  HeldInv'
<1> USE StandDurationAssumption, DecimationAssumption
    DEF HeldInv, LatchesKept, BlocksDone, Settled, RampKeepsUp, WalkKeepsUp, TickOver,
        NotBegun, PoseMode, Key9Quiet, Key10Quiet, Key5Quiet, Key11Quiet,
        Key5Spent, Down, Up, Goto, modeVars, policyVars, Aged, FlagKey, TypeOK, Enough
<1>1. CASE StartControl
  BY <1>1 DEF StartControl, Key9Pressed
<1>2. CASE StopControl
  BY <1>2 DEF StopControl, Key9Pressed
<1>3. CASE Key9Idle
  BY <1>3 DEF Key9Idle, Key9Pressed, Rearm
<1>4. CASE StandKey
  BY <1>4 DEF StandKey, StandUp, Key10Pressed
<1>5. CASE Key10Idle
  BY <1>5 DEF Key10Idle, Key10Pressed, Rearm, WorkMode
<1>6. CASE ToUserMode
  BY <1>6 DEF ToUserMode, EnterUserMode, Key5Pressed
<1>7. CASE Key5Idle
  BY <1>7 DEF Key5Idle, Key5Pressed, Rearm, WorkMode
<1>8. CASE WalkToStand
  BY <1>8 DEF WalkToStand, Key11Pressed
<1>9. CASE DefaultToLie
  BY <1>9 DEF DefaultToLie, Key11Pressed
<1>10. CASE Key11Idle
  BY <1>10 DEF Key11Idle, Key11Pressed, WorkMode
<1> QED
  BY <1>1, <1>2, <1>3, <1>4, <1>5, <1>6, <1>7, <1>8, <1>9, <1>10
     DEF ButtonBlocks

\* A handler ends the tick: a pose handler with one more step of its ramp.
LEMMA HandlersKeepHeldInv ==
  ASSUME TypeOK, HeldInv, Handlers, UNCHANGED heldTicks
  PROVE  HeldInv'
<1> USE StandDurationAssumption, DecimationAssumption
    DEF HeldInv, LatchesKept, BlocksDone, Settled, RampKeepsUp, WalkKeepsUp, TickOver,
        NotBegun, PoseMode, Key9Quiet, Key10Quiet, Key5Quiet, Key11Quiet,
        Key5Spent, Down, Goto, modeVars, policyVars, Aged, FlagKey, TypeOK, Enough
<1>1. CASE HandleStand \/ HandleLie
  BY <1>1 DEF HandleStand, HandleLie, RampTo, RampFrom
<1>2. CASE HandleDefault
  BY <1>2 DEF HandleDefault
<1>3. CASE UserModeInfer
  BY <1>3 DEF UserModeInfer, SendPolicyFrame
<1>4. CASE UserModeHold
  BY <1>4 DEF UserModeHold, SendPolicyFrame
<1> QED
  BY <1>1, <1>2, <1>3, <1>4 DEF Handlers

LEMMA StartUpKeepsHeldInv ==
  ASSUME TypeOK, HeldInv, StartUp, UNCHANGED heldTicks
  PROVE  HeldInv'
<1> USE StandDurationAssumption, DecimationAssumption
    DEF HeldInv, LatchesKept, BlocksDone, RampKeepsUp, WalkKeepsUp, TickOver, NotBegun,
        PoseMode, Key9Quiet, Key10Quiet, Key5Quiet, Key11Quiet, Key5Spent,
        Down, Goto, modeVars, policyVars, Aged, FlagKey, TypeOK, Enough
<1>1. CASE SubscribeAndInit
  BY <1>1 DEF SubscribeAndInit
<1>2. CASE LoadModel
  BY <1>2 DEF LoadModel
<1>3. CASE LoadThrows
  BY <1>3 DEF LoadThrows
<1> QED
  BY <1>1, <1>2, <1>3 DEF StartUp

\* Only ReadStatus begins a tick.
LEMMA OthersNotIdle ==
  ASSUME StartUp \/ ButtonBlocks \/ Handlers
  PROVE  pc # "idle"
  BY DEF StartUp, SubscribeAndInit, LoadModel, LoadThrows, ButtonBlocks,
     StartControl, StopControl, Key9Idle, StandKey, StandUp, Key10Idle,
     ToUserMode, EnterUserMode, Key5Idle, WalkToStand, DefaultToLie, Key11Idle,
     Handlers, HandleStand, HandleLie, HandleDefault, UserModeInfer,
     UserModeHold

LEMMA NextHeldInv == TypeOK /\ HeldInv /\ [HeldNext]_heldVars => HeldInv'
<1> SUFFICES ASSUME TypeOK, HeldInv, [HeldNext]_heldVars
             PROVE  HeldInv'
  OBVIOUS
<1>1. CASE HeldNext /\ ReadStatus
  BY <1>1, TickBegins DEF HeldNext, ReadStatus
<1>2. CASE HeldNext /\ (StartUp \/ ButtonBlocks \/ Handlers)
  <2>1. UNCHANGED heldTicks
    BY <1>2, OthersNotIdle DEF HeldNext
  <2> QED
    BY <1>2, <2>1, StartUpKeepsHeldInv, BlocksKeepHeldInv, HandlersKeepHeldInv
<1>3. CASE UNCHANGED heldVars
  BY <1>3 DEF heldVars, vars, modeVars, policyVars, HeldInv, LatchesKept, BlocksDone,
     Settled, RampKeepsUp, WalkKeepsUp, Key9Quiet, Key10Quiet, Key5Quiet, Key11Quiet,
     Key5Spent, Down, Enough
<1> QED
  BY <1>1, <1>2, <1>3 DEF HeldNext, Next

-----------------------------------------------------------------------------
(* The theorems.                                                           *)

\* After one tick of holding the blocks have nothing left to do, and the ramp
\* gains a step with every tick.
THEOREM HeldInductive == HeldSpec => []HeldInv
<1>1. HeldInit => HeldInv
  BY InitHeldInv
<1>2. TypeOK /\ HeldInv /\ [HeldNext]_heldVars => HeldInv'
  BY NextHeldInv
<1> QED
  BY <1>1, <1>2, HeldTypeCorrect, PTL DEF HeldSpec

\* In a settled state no block has anything to do.
LEMMA SettledStep ==
  ASSUME TypeOK, HeldInv, heldTicks >= 2, [HeldNext]_heldVars
  PROVE  /\ UNCHANGED <<mode_, startcontrol, keyflag, currentJointAngles_>>
         /\ standPercent' >= standPercent
<1> USE DEF HeldInv, LatchesKept, Settled, NotBegun, PoseMode, Key9Quiet,
            Key10Quiet, Key5Quiet, Key11Quiet, Down, Up, modeVars, TypeOK,
            FlagKey
<1>1. CASE StartUp
  BY <1>1 DEF StartUp, SubscribeAndInit, LoadModel, LoadThrows
<1>2. CASE ReadStatus
  BY <1>2 DEF ReadStatus
<1>3. CASE StartControl \/ StopControl
  BY <1>3 DEF StartControl, StopControl, Key9Pressed
<1>4. CASE StandKey \/ ToUserMode
  BY <1>4 DEF StandKey, StandUp, Key10Pressed, ToUserMode, EnterUserMode,
     Key5Pressed
<1>5. CASE WalkToStand \/ DefaultToLie
  BY <1>5 DEF WalkToStand, DefaultToLie, Key11Pressed
<1>6. CASE Key9Idle \/ Key10Idle \/ Key5Idle \/ Key11Idle
  <2>1. \A k \in FlagKey : ~keyflag[k] => [keyflag EXCEPT ![k] = FALSE] = keyflag
    OBVIOUS
  <2>2. CASE Key9Idle
    BY <2>1, <2>2 DEF Key9Idle, Rearm
  <2>3. CASE Key10Idle
    BY <2>1, <2>3 DEF Key10Idle, Rearm
  <2>4. CASE Key5Idle
    BY <2>1, <2>4 DEF Key5Idle, Rearm
  <2>5. CASE Key11Idle
    BY <2>5 DEF Key11Idle
  <2> QED
    BY <1>6, <2>2, <2>3, <2>4, <2>5
<1>7. CASE HandleStand \/ HandleLie
  BY <1>7, RampFromRange DEF HandleStand, HandleLie, RampTo
<1>8. CASE HandleDefault
  BY <1>8 DEF HandleDefault
<1>9. CASE UserModeInfer \/ UserModeHold
  BY <1>9 DEF UserModeInfer, UserModeHold, SendPolicyFrame
<1>10. CASE UNCHANGED heldVars
  BY <1>10 DEF heldVars, vars
<1> QED
  BY <1>1, <1>2, <1>3, <1>4, <1>5, <1>6, <1>7, <1>8, <1>9, <1>10
     DEF HeldNext, Next, ButtonBlocks, Handlers

\* Held buttons act in two ticks and no more, whatever they are.
THEOREM HeldSettles == HeldSpec => HeldButtonsSettle
<1>1. TypeOK /\ HeldInv /\ [HeldNext]_heldVars =>
        [heldTicks >= 2 =>
           /\ UNCHANGED <<mode_, startcontrol, keyflag, currentJointAngles_>>
           /\ standPercent' >= standPercent]_heldVars
  BY SettledStep
<1> QED
  BY <1>1, HeldInductive, HeldTypeCorrect, PTL DEF HeldSpec, HeldButtonsSettle

\* A ramp makes a step for every tick of holding after the first.
THEOREM RampsOnTime == HeldSpec => []RampsInTime
<1>1. TypeOK /\ HeldInv => RampsInTime
  BY StandDurationAssumption, DecimationAssumption
     DEF TypeOK, HeldInv, RampKeepsUp, RampsInTime, Enough
<1> QED
  BY <1>1, HeldInductive, HeldTypeCorrect, PTL

\* A walk runs its own policy within a decimation period of holding.
THEOREM InfersOnTime == HeldSpec => []InfersInTime
<1>1. TypeOK /\ IndInv /\ HeldInv => InfersInTime
  BY StandDurationAssumption, DecimationAssumption
     DEF TypeOK, IndInv, WalkInv, StaleFramesBounded, HeldInv, WalkKeepsUp,
         InfersInTime, Enough
<1>2. HeldSpec => []IndInv
  BY HeldImplementsSpec, Inductive, PTL
<1> QED
  BY <1>1, <1>2, HeldInductive, HeldTypeCorrect, PTL
===============================================================================
