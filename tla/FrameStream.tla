------------------------------ MODULE FrameStream ------------------------------
(***************************************************************************)
(* What the motor side may rely on about the sequence of 24-joint command  *)
(* frames that example_low hands to LowController::set_joint, one per      *)
(* control tick.  A frame holds a pose ramp (to the standing or to the     *)
(* lying pose), pure damping, or the output of the walking policy.  A pose *)
(* ramp is never entered part-way, never skips ahead, and never changes    *)
(* the pose it started from while it runs; it may only be restarted.       *)
(***************************************************************************)
EXTENDS Naturals

CONSTANT StandDuration       \* ticks of one pose ramp

VARIABLE sent                \* the frame given to set_joint last

Age == {"none", "earlier", "current"}
PoseKind == {"stand", "lie"}
Kind == PoseKind \cup {"none", "damp", "policy"}

Frame == [kind : Kind, percent : 0 .. StandDuration, age : Age]

NoFrame == [kind |-> "none", percent |-> 0, age |-> "none"]

Init == sent = NoFrame

\* A frame of pure damping: kp = 0, kd = 0.1 on every joint.
Damp == sent' = [kind |-> "damp", percent |-> 0, age |-> "none"]

\* A frame of the walking policy.  There is none before the first inference.
Policy(age) ==
  /\ age # "none"
  /\ sent' = [kind |-> "policy", percent |-> 0, age |-> age]

\* The first frame of a ramp: the interpolation is at its start pose.
BeginRamp(kind, age) == sent' = [kind |-> kind, percent |-> 0, age |-> age]

\* The next frame of the ramp that is under way, or its last frame again.
ContinueRamp(kind) ==
  /\ sent.kind = kind
  /\ \E step \in {0, 1} :
       /\ sent.percent + step <= StandDuration
       /\ step = 0 => sent.percent = StandDuration
       /\ sent' = [sent EXCEPT !.percent = @ + step]

Next ==
  \/ Damp
  \/ \E age \in Age : Policy(age)
  \/ \E kind \in PoseKind : \E age \in Age : BeginRamp(kind, age)
  \/ \E kind \in PoseKind : ContinueRamp(kind)

Spec == Init /\ [][Next]_sent
================================================================================
