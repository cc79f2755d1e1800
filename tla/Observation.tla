----------------------------- MODULE Observation -----------------------------
(***************************************************************************)
(* The numbers of the walking policy of src/examples/cpp/example_low.cpp:  *)
(* the command shaped from the sticks, the stack of observations, the      *)
(* clipping of what goes into the network and of what comes out of it, and *)
(* the way of a NaN through all of them.                                   *)
(*                                                                         *)
(* Numbers are in thousandths.  NaN is a value below all the others that   *)
(* no comparison of C++ finds in order.  Of an observation, the command's  *)
(* forward part, one gravity component, one joint velocity and one action  *)
(* stand for their kind.                                                   *)
(***************************************************************************)
EXTENDS Integers

CONSTANTS StackSize,         \* stackSize_
          Clip,              \* clip_observations and clip_actions
          Stick,             \* values of an axis, in hundredths, save NaN
          Sine,              \* values of -2 (xz - wy) of the quaternion
          Velocity,          \* joint velocities
          Output,            \* outputs of the network
          NaN

\* axis_mappings of the walk in e1_ac.yaml, in tenths.
scalex == 10
scaley == 5
scalez == 8

\* The numbers that can turn up in an observation, a command or an action.
Number ==
  Sine \cup Velocity \cup Output
    \cup {a * scale : a \in Stick, scale \in {scalex, scalez}}
    \cup {-Clip, -1000, 0, 999, Clip}

\* Nothing in the source bounds an axis: it is a double of the status.
ASSUME StackSizeAssumption == StackSize \in Nat \ {0}
ASSUME ClipAssumption == Clip \in Nat \ {0}
ASSUME StickAssumption == Stick \subseteq Int
ASSUME NumbersAssumption ==
  Number \subseteq Int /\ NaN \in Int \ Number /\ NaN < -Clip

\* C++: a comparison with NaN is false; std::min and std::max return their
\* first argument unless the second is found to be less or greater.
Less(a, b) == a # NaN /\ b # NaN /\ a < b
StdMin(a, b) == IF Less(b, a) THEN b ELSE a
StdMax(a, b) == IF Less(a, b) THEN b ELSE a

\* Mutant: std::clamp, which hands a NaN on.
ClippedStdClamp(x) ==
  IF Less(x, -Clip) THEN -Clip ELSE IF Less(Clip, x) THEN Clip ELSE x

Clipped(x) == StdMax(-Clip, StdMin(Clip, x))

-----------------------------------------------------------------------------
(* The command: dead band, exclusions, clamp.                              *)

Scaled(a, scale) == IF a = NaN THEN NaN ELSE a * scale
Abs(a) == IF Less(a, 0) THEN -a ELSE a
DeadBand(a) == IF Less(Abs(a), 300) THEN 0 ELSE a

Excluded(x, y, z) ==
  LET aside == Less(300, Abs(y))
      ahead == IF aside THEN 0 ELSE x
      turn == IF aside THEN 0 ELSE z
  IN  [x |-> IF Less(ahead, -1000) THEN -1000 ELSE ahead,
       y |-> IF Less(300, Abs(ahead)) /\ Less(300, Abs(turn)) THEN 0 ELSE y,
       z |-> turn]

\* Mutant: backwards is tested before the dead band.
ShapedEarlyBackwards(axes) ==
  LET x == Scaled(axes.x, scalex)
      z == DeadBand(Scaled(axes.yaw, scalez))
  IN  Excluded(DeadBand(x), DeadBand(Scaled(axes.y, scaley)),
               IF Less(x, 0) THEN 0 ELSE z)

Shaped(axes) ==
  LET x == DeadBand(Scaled(axes.x, scalex))
      z == DeadBand(Scaled(axes.yaw, scalez))
  IN  Excluded(x, DeadBand(Scaled(axes.y, scaley)),
               IF Less(x, 0) THEN 0 ELSE z)

-----------------------------------------------------------------------------

VARIABLES
  pc,                        \* the next function of handleUserMode
  axes,                      \* the Command of this tick, in hundredths
  sensed,                    \* what updateStateEstimation left in propri_
  isfirstRecObs_,
  command,                   \* the shaped command, in this tick only
  proprioHistoryBuffer_,     \* stacked observations, oldest first
  policyObservations_,       \* the network's input
  actions_,                  \* the network's output, clipped
  lastActions_,
  clean                      \* ghost: inferences in a row whose samples were
                             \* numbers, up to StackSize

vars == <<pc, axes, sensed, isfirstRecObs_, command, proprioHistoryBuffer_,
          policyObservations_, actions_, lastActions_, clean>>

Slot == 1 .. StackSize

\* quatToZyx clamps the sine from above only; asin of less than -1 is NaN, and
\* a NaN angle spoils the projected gravity.
Gravity(sine) ==
  LET as == StdMin(sine, 999) IN IF as = NaN \/ as < -1000 THEN NaN ELSE as

\* The locals of a tick, between ticks.
NoAxes == [x |-> 0, y |-> 0, yaw |-> 0]
NoCommand == [x |-> 0, y |-> 0, z |-> 0]

\* A second walk finds everything as the first left it; before the first, the
\* history is whatever the memory held.
Init ==
  /\ pc = "estimate"
  /\ axes = NoAxes
  /\ sensed = [gravity |-> 0, velocity |-> 0]
  /\ isfirstRecObs_ = TRUE
  /\ command = NoCommand
  /\ proprioHistoryBuffer_ =
       [i \in Slot |-> [command |-> NaN, gravity |-> NaN, velocity |-> NaN,
                    action |-> NaN]]
  /\ policyObservations_ =
       [i \in Slot |-> [command |-> 0, gravity |-> 0, velocity |-> 0,
                    action |-> 0]]
  /\ actions_ = 0
  /\ lastActions_ = 0
  /\ clean = 0

\* setparameter() and updateStateEstimation(), in this walk or a new one.
\* process() leaves cmd.y at 0.
UpdateStateEstimation ==
  /\ pc = "estimate"
  /\ pc' = "observe"
  /\ \E x, yaw \in Stick \cup {NaN} : axes' = [x |-> x, y |-> 0, yaw |-> yaw]
  /\ \E s \in Sine \cup {NaN}, v \in Velocity \cup {NaN} :
       sensed' = [gravity |-> Gravity(s), velocity |-> v]
  /\ isfirstRecObs_' \in {TRUE, isfirstRecObs_}
  /\ UNCHANGED <<command, proprioHistoryBuffer_, policyObservations_, actions_,
                 lastActions_, clean>>

SampledNumbers ==
  axes.x # NaN /\ sensed.gravity # NaN /\ sensed.velocity # NaN

Observed ==
  [command |-> Shaped(axes).x,
   gravity |-> sensed.gravity, velocity |-> sensed.velocity,
   action |-> IF isfirstRecObs_ THEN 0 ELSE lastActions_]

ClippedObservation(o) ==
  [command |-> Clipped(o.command), gravity |-> Clipped(o.gravity),
   velocity |-> Clipped(o.velocity), action |-> Clipped(o.action)]

ComputeObservation ==
  /\ pc = "observe"
  /\ pc' = "infer"
  /\ command' = Shaped(axes)
  /\ proprioHistoryBuffer_' =
       [i \in Slot |-> IF isfirstRecObs_ \/ i = StackSize
                       THEN Observed
                       ELSE proprioHistoryBuffer_[i + 1]]
  /\ policyObservations_' =
       [i \in Slot |-> ClippedObservation(proprioHistoryBuffer_'[i])]
  /\ isfirstRecObs_' = FALSE
  /\ clean' = IF ~SampledNumbers THEN 0
              ELSE IF isfirstRecObs_ \/ clean = StackSize THEN StackSize
              ELSE clean + 1
  /\ UNCHANGED <<axes, sensed, actions_, lastActions_>>

\* Mutant: lastActions_ keeps the network's output as it came.
ComputeActionsRawLast ==
  /\ pc = "infer"
  /\ pc' = "estimate"
  /\ \E o \in Output \cup {NaN} : actions_' = Clipped(o) /\ lastActions_' = o
  /\ axes' = NoAxes
  /\ command' = NoCommand
  /\ UNCHANGED <<sensed, isfirstRecObs_, proprioHistoryBuffer_,
                 policyObservations_, clean>>

\* computeActions(), the clipping after it and the copy to lastActions_.  The
\* network may answer anything.
ComputeActions ==
  /\ pc = "infer"
  /\ pc' = "estimate"
  /\ \E o \in Output \cup {NaN} : actions_' = Clipped(o)
  /\ lastActions_' = actions_'
  /\ axes' = NoAxes
  /\ command' = NoCommand
  /\ UNCHANGED <<sensed, isfirstRecObs_, proprioHistoryBuffer_,
                 policyObservations_, clean>>

Next == UpdateStateEstimation \/ ComputeObservation \/ ComputeActions

Spec == Init /\ [][Next]_vars

-----------------------------------------------------------------------------
(* Properties.                                                             *)

InClip == -Clip .. Clip

Value == Number \cup {NaN}
ObservationOf(S) == [command : S, gravity : S, velocity : S, action : S]
Axis == Stick \cup {0, NaN}
Axes == [x : Axis, y : {0}, yaw : Axis]

TypeOK ==
  /\ pc \in {"estimate", "observe", "infer"}
  /\ axes \in Axes
  /\ sensed \in [gravity : Value, velocity : Value]
  /\ isfirstRecObs_ \in BOOLEAN
  /\ command \in [x : Value, y : {0}, z : Value]
  /\ proprioHistoryBuffer_ \in [Slot -> ObservationOf(Value)]
  /\ policyObservations_ \in [Slot -> ObservationOf(Value)]
  /\ actions_ \in Value
  /\ lastActions_ \in Value
  /\ clean \in 0 .. StackSize

\* The network is shown numbers within the clipping range only, although a
\* quaternion just short of a pole (or torn) makes the gravity NaN and NaNs
\* stay in the stack.
PolicySeesNumbers ==
  \A i \in Slot : policyObservations_[i] \in ObservationOf(InClip)

\* Whatever the network answers, NaN included, a leg is sent to a number no
\* more than clip_actions times its scale from its default angle.
LegTargetsBounded == actions_ \in InClip

\* A NaN of the sensors or the sticks is shown to the network (as the upper
\* clip) in the next StackSize inferences and in none after: the feedback of
\* the actions into the observations does not keep it alive.
BadSamplesDrain ==
  \A i \in Slot : i > StackSize - clean =>
    proprioHistoryBuffer_[i] \in ObservationOf(Number)

\* What the comment says and the code does not keep: "x is limited to -1.0 ..
\* 1.2" (line 224).  The upper clamp (line 227) is commented out.
CommandInRange ==
  pc = "infer" /\ command.x # NaN => command.x \in -1000 .. 1200

\* A turn the driver asks for is not lost unless it is within the dead band or
\* the robot walks backwards, to which a stick a little behind its centre does
\* not amount, nor one that gives no number.
TurnKept ==
  LET x == Scaled(axes.x, scalex)
      turn == Scaled(axes.yaw, scalez)
      backwards == Less(x, 0) /\ ~Less(Abs(x), 300)
  IN  pc = "infer" /\ ~Less(Abs(turn), 300) /\ ~backwards => command.z = turn

-----------------------------------------------------------------------------
(* The inductive invariant behind them.                                    *)

\* What is fed back is clipped, the last actions included.
FeedbackClipped ==
  actions_ \in Number /\ lastActions_ \in Number /\ LegTargetsBounded

CommandIsShaped == pc = "infer" => command = Shaped(axes)

IndInv ==
  /\ TypeOK
  /\ FeedbackClipped
  /\ PolicySeesNumbers
  /\ BadSamplesDrain
  /\ CommandIsShaped
===============================================================================
