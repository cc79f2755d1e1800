-------------------------- MODULE ObservationProofs --------------------------
(***************************************************************************)
(* The properties of Observation for every stack, clip, set of sensor      *)
(* values and network.                                                     *)
(***************************************************************************)
EXTENDS Observation, TLAPS

USE StackSizeAssumption, ClipAssumption

\* Clipping makes a number within the range of anything, NaN included.
LEMMA ClippedInClip ==
  ASSUME NEW x \in Value
  PROVE  Clipped(x) \in InClip /\ Clipped(x) \in Number
<1>1. x = NaN \/ (x \in Number /\ x \in Int /\ x # NaN)
  BY NumbersAssumption DEF Value
<1>2. /\ NaN \in Int /\ NaN # Clip /\ NaN # -Clip
      /\ Clip \in Number /\ -Clip \in Number
  BY NumbersAssumption DEF Number
<1> QED
  BY <1>1, <1>2 DEF Clipped, StdMax, StdMin, Less, InClip

\* The gravity component is a number the quaternion gives, .999.. or NaN.
LEMMA GravityValue ==
  ASSUME NEW s \in Sine \cup {NaN}
  PROVE  Gravity(s) \in Value
  BY NumbersAssumption DEF Gravity, StdMin, Less, Value, Number

LEMMA NumberIsValue == Number \subseteq Value /\ 0 \in Number /\ NaN \in Value
  BY DEF Value, Number

\* An axis times a scale is one of the numbers, or the NaN it was.
LEMMA ScaledValue ==
  ASSUME NEW a \in Axis, NEW scale \in {scalex, scalez}
  PROVE  /\ Scaled(a, scale) \in Value
         /\ a # NaN => Scaled(a, scale) \in Number
<1>1. CASE a = NaN
  BY <1>1 DEF Scaled, Value
<1>2. CASE a # NaN /\ a \in Stick
  <2>1. a * scale \in Number
    BY <1>2 DEF Number
  <2> QED
    BY <1>2, <2>1 DEF Scaled, Value
<1>3. CASE a # NaN /\ a = 0
  <2>1. 0 * scale = 0
    BY DEF scalex, scalez
  <2> QED
    BY <1>3, <2>1, NumberIsValue DEF Scaled
<1> QED
  BY <1>1, <1>2, <1>3 DEF Axis

\* The shaped command is made of numbers wherever the axes are, and keeps the
\* turn unless the dead band or walking backwards takes it away.
LEMMA ShapedCommand ==
  ASSUME NEW c \in Axes
  PROVE  LET x == Scaled(c.x, scalex)
             turn == Scaled(c.yaw, scalez)
         IN  /\ Shaped(c) \in [x : Value, y : {0}, z : Value]
             /\ c.x # NaN => Shaped(c).x \in Number
             /\ ~Less(Abs(turn), 300) /\ ~(Less(x, 0) /\ ~Less(Abs(x), 300))
                  => Shaped(c).z = turn
<1> DEFINE x == Scaled(c.x, scalex)
           turn == Scaled(c.yaw, scalez)
           ahead == DeadBand(x)
           z == IF Less(ahead, 0) THEN 0 ELSE DeadBand(turn)
<1>1. x \in Value /\ turn \in Value /\ (c.x # NaN => x \in Number)
  BY ScaledValue DEF Axes
<1>2. Value \subseteq Int /\ NaN # 0 /\ 0 \in Number /\ -1000 \in Number
  BY NumbersAssumption DEF Value, Number
<1>3. DeadBand(Scaled(c.y, scaley)) = 0
  BY <1>2 DEF Axes, Scaled, scaley, DeadBand, Abs, Less
<1>4. Shaped(c) = Excluded(ahead, 0, z)
  BY <1>3 DEF Shaped
<1> HIDE DEF x, turn
<1>5. ahead \in {0, x} /\ z \in {0, turn}
  BY DEF DeadBand
<1>6. ~Less(Abs(turn), 300) /\ ~(Less(x, 0) /\ ~Less(Abs(x), 300)) => z = turn
  BY <1>2 DEF DeadBand, Less
<1> HIDE DEF ahead, z
<1>7. Shaped(c) = [x |-> IF Less(ahead, -1000) THEN -1000 ELSE ahead,
                   y |-> 0, z |-> z]
  BY <1>4 DEF Excluded, Less, Abs
<1>8. Shaped(c).x \in {-1000, 0, x}
  BY <1>5, <1>7
<1>9. Shaped(c) \in [x : Value, y : {0}, z : Value]
  BY <1>1, <1>2, <1>5, <1>7 DEF Value
<1>10. c.x # NaN => Shaped(c).x \in Number
  BY <1>1, <1>2, <1>8
<1> QED
  BY <1>6, <1>7, <1>9, <1>10 DEF x, turn

LEMMA NaNNotNumber == NaN \notin Number
  BY NumbersAssumption

-----------------------------------------------------------------------------

LEMMA InitIndInv == Init => IndInv
<1> SUFFICES ASSUME Init PROVE IndInv
  OBVIOUS
<1> USE DEF Init
<1>1. TypeOK
  BY NumberIsValue
     DEF TypeOK, ObservationOf, Axes, Axis, NoAxes, NoCommand
<1>2. FeedbackClipped /\ PolicySeesNumbers
  BY NumberIsValue DEF FeedbackClipped, LegTargetsBounded, PolicySeesNumbers,
     InClip, ObservationOf
<1>3. BadSamplesDrain /\ CommandIsShaped
  BY DEF BadSamplesDrain, CommandIsShaped, Slot
<1> QED
  BY <1>1, <1>2, <1>3 DEF IndInv

LEMMA EstimateStep ==
  ASSUME IndInv, UpdateStateEstimation
  PROVE  IndInv'
<1> USE DEF IndInv, UpdateStateEstimation
<1>1. TypeOK'
  <2>1. sensed' \in [gravity : Value, velocity : Value]
    BY GravityValue DEF Value, Number
  <2>2. axes' \in Axes
    BY DEF Axes, Axis
  <2> QED
    BY <2>1, <2>2 DEF TypeOK
<1>2. FeedbackClipped' /\ PolicySeesNumbers'
  BY DEF FeedbackClipped, LegTargetsBounded, PolicySeesNumbers
<1>3. BadSamplesDrain' /\ CommandIsShaped'
  BY DEF BadSamplesDrain, CommandIsShaped
<1> QED
  BY <1>1, <1>2, <1>3

LEMMA ObserveStep ==
  ASSUME IndInv, ComputeObservation
  PROVE  IndInv'
<1> USE DEF IndInv, ComputeObservation
<1>1. Observed \in ObservationOf(Value)
  BY ShapedCommand, NumberIsValue DEF Observed, ObservationOf, TypeOK
<1>2. SampledNumbers => Observed \in ObservationOf(Number)
  BY ShapedCommand, NumberIsValue DEF SampledNumbers, Observed, ObservationOf,
     TypeOK, Value, FeedbackClipped
<1>3. proprioHistoryBuffer_' \in [Slot -> ObservationOf(Value)]
  BY <1>1 DEF TypeOK, Slot
<1>4. policyObservations_' \in [Slot -> ObservationOf(InClip \cap Number)]
  BY <1>3, ClippedInClip DEF ClippedObservation, ObservationOf
<1>5. TypeOK'
  <2>1. command' \in [x : Value, y : {0}, z : Value]
    BY ShapedCommand DEF TypeOK
  <2>2. clean' \in 0 .. StackSize
    BY DEF TypeOK
  <2>3. policyObservations_' \in [Slot -> ObservationOf(Value)]
    BY <1>4, NumberIsValue DEF ObservationOf
  <2> QED
    BY <1>3, <2>1, <2>2, <2>3 DEF TypeOK
<1>6. FeedbackClipped' /\ PolicySeesNumbers'
  BY <1>4 DEF FeedbackClipped, LegTargetsBounded, PolicySeesNumbers,
     ObservationOf
<1>7. BadSamplesDrain'
  <2> SUFFICES ASSUME NEW i \in Slot, i > StackSize - clean'
               PROVE  proprioHistoryBuffer_'[i] \in ObservationOf(Number)
    BY DEF BadSamplesDrain
  <2>1. SampledNumbers
    BY DEF Slot
  <2>2. CASE isfirstRecObs_ \/ i = StackSize
    BY <1>2, <2>1, <2>2
  <2>3. CASE ~isfirstRecObs_ /\ i # StackSize
    <3>1. i + 1 \in Slot /\ i + 1 > StackSize - clean
      BY <2>1, <2>3 DEF Slot, TypeOK
    <3> QED
      BY <2>3, <3>1 DEF BadSamplesDrain
  <2> QED
    BY <2>2, <2>3
<1>8. CommandIsShaped'
  BY DEF CommandIsShaped
<1> QED
  BY <1>5, <1>6, <1>7, <1>8

LEMMA ActStep ==
  ASSUME IndInv, ComputeActions
  PROVE  IndInv'
<1> USE DEF IndInv, ComputeActions
<1>1. actions_' \in InClip \cap Number
  BY ClippedInClip DEF Value, Number
<1>2. TypeOK'
  BY <1>1, NumberIsValue DEF TypeOK, Axes, Axis, NoAxes, NoCommand
<1>3. FeedbackClipped' /\ PolicySeesNumbers'
  BY <1>1 DEF FeedbackClipped, LegTargetsBounded, PolicySeesNumbers
<1>4. BadSamplesDrain' /\ CommandIsShaped'
  BY DEF BadSamplesDrain, CommandIsShaped
<1> QED
  BY <1>2, <1>3, <1>4

LEMMA StutterStep ==
  ASSUME IndInv, UNCHANGED vars
  PROVE  IndInv'
  BY DEF IndInv, vars, TypeOK, FeedbackClipped, LegTargetsBounded,
     PolicySeesNumbers, BadSamplesDrain, CommandIsShaped

-----------------------------------------------------------------------------
(* The theorems.                                                           *)

\* The clipping closes the loop over the actions.
THEOREM Inductive == Spec => []IndInv
<1>1. IndInv /\ [Next]_vars => IndInv'
  BY EstimateStep, ObserveStep, ActStep, StutterStep DEF Next
<1> QED
  BY <1>1, InitIndInv, PTL DEF Spec

\* The network never sees a NaN or a number beyond the clip.
THEOREM SeesNumbers == Spec => []PolicySeesNumbers
<1>1. IndInv => PolicySeesNumbers
  BY DEF IndInv
<1> QED
  BY <1>1, Inductive, PTL

\* No leg is sent to a NaN or beyond the clip.
THEOREM LegsBounded == Spec => []LegTargetsBounded
<1>1. IndInv => LegTargetsBounded
  BY DEF IndInv, FeedbackClipped
<1> QED
  BY <1>1, Inductive, PTL

\* A NaN leaves the stack with the last observation that holds it.
THEOREM NaNDrains == Spec => []BadSamplesDrain
<1>1. IndInv => BadSamplesDrain
  BY DEF IndInv
<1> QED
  BY <1>1, Inductive, PTL

\* Only the dead band and walking backwards take a turn away.
THEOREM TurnsKept == Spec => []TurnKept
<1>1. IndInv => TurnKept
  BY ShapedCommand DEF IndInv, TypeOK, CommandIsShaped, TurnKept
<1> QED
  BY <1>1, Inductive, PTL
==============================================================================
