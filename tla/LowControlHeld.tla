---------------------------- MODULE LowControlHeld ----------------------------
(***************************************************************************)
(* LowControl with a history variable: for how many ticks the buttons have *)
(* been held as they are.  It states as bounds what the mode control of    *)
(* src/examples/cpp/example_low.cpp does when the hands on the remote      *)
(* control keep still.                                                     *)
(***************************************************************************)
EXTENDS LowControl

VARIABLE heldTicks           \* ticks begun with the buttons of the tick
                             \* before it, up to Enough

heldVars == <<vars, heldTicks>>

\* Bound: past it all that holding buttons can do has been done.
Enough == StandDuration + Decimation

\* The count of a tick that begins with the buttons it finds.
Recounted ==
  CASE remote_data' # remote_data -> 0
    [] remote_data' = remote_data /\ heldTicks < Enough -> heldTicks + 1
    [] OTHER -> heldTicks

HeldInit == Init /\ heldTicks = 0

HeldNext ==
  /\ Next
  /\ heldTicks' = IF pc = "idle" THEN Recounted ELSE heldTicks

HeldSpec == HeldInit /\ [][HeldNext]_heldVars

\* heldTicks constrains no step, so that it is fair to HeldNext as to Next.
HeldFairSpec == HeldSpec /\ LoopFairness

-----------------------------------------------------------------------------
(* Properties.                                                             *)

PoseMode == {"STAND", "LIE"}

\* Buttons held as they are act in two ticks and no more: from the third on
\* no block changes the mode, the start, a latch or the start pose, and none
\* sets a ramp back, although 10 + 2 and 11 act in every tick and the blocks
\* enter each other's modes.
HeldButtonsSettle ==
  [][heldTicks >= 2 =>
       /\ UNCHANGED <<mode_, startcontrol, keyflag, currentJointAngles_>>
       /\ standPercent' >= standPercent]_heldVars

\* A ramp is not set back by buttons that are held: in a pose mode it has made
\* a step for every tick of holding after the first, until it is over, however
\* the mode was reached.
RampsInTime ==
  pc = "idle" /\ mode_ \in PoseMode =>
    standPercent = StandDuration \/ heldTicks <= standPercent

\* With the buttons held, a walk runs its own policy within one decimation
\* period, wherever the last walk left count and whichever key led to it.
InfersInTime ==
  pc = "idle" /\ mode_ = "USERMODE" /\ heldTicks >= Decimation => ~isChangeMode_

-----------------------------------------------------------------------------
(* The inductive invariant behind them.                                    *)

\* That the block of a key would do nothing, were it run now.
Key9Quiet == keyflag[9] <=> Down(9)
Key10Quiet == Down(10) /\ Down(2) /\ startcontrol => mode_ = "STAND"
Key5Quiet ==
  /\ Down(5) /\ Down(2) /\ ~keyflag[5] => mode_ # "STAND"
  /\ keyflag[5] => Down(5)
Key11Quiet == Down(11) => mode_ \in PoseMode

\* Key 5 is not left to undo in a later tick what 10 + 2 do in it.
Key5Spent ==
  Down(5) /\ Down(2) /\ Down(10) /\ startcontrol => keyflag[5]

NotBegun == {"init", "load", "terminated"}
TickOver == {"mode", "idle"} \cup NotBegun

LatchesKept ==
  /\ ~keyflag[10] /\ ~keyflag[11]
  /\ pc # "key9" \/ heldTicks >= 1 => Key9Quiet

\* What each block leaves behind, and what of it the second tick still finds.
BlocksDone ==
  /\ pc = "key5" => Key10Quiet
  /\ pc \in {"key11"} \cup TickOver \/ heldTicks >= 1 => Key5Spent
  /\ pc \in TickOver => Key11Quiet
  /\ heldTicks >= 1 =>
       /\ pc \in {"key9", "key10", "key5"} => Key11Quiet
       /\ pc \in {"key11"} \cup TickOver => Key10Quiet
       /\ pc = "key11" => Key5Quiet /\ (Down(11) => mode_ # "DEFAULT")
       /\ pc = "key11" /\ Down(11) /\ Down(5) /\ Down(2) /\ ~keyflag[5] =>
            mode_ = "LIE"
       /\ pc \in TickOver => Key5Quiet

Settled == Key9Quiet /\ Key10Quiet /\ Key5Quiet /\ Key11Quiet

RampKeepsUp ==
  mode_ \in PoseMode /\ (heldTicks >= 2 \/ pc = "idle") =>
    \/ standPercent = StandDuration
    \/ heldTicks <= standPercent + IF pc = "idle" THEN 0 ELSE 1

\* Before the first inference of a walk every tick sends a frame of the last.
WalkKeepsUp ==
  mode_ = "USERMODE" /\ isChangeMode_ =>
    /\ actions_ # "current"
    /\ heldTicks >= 2 \/ pc = "idle" =>
         heldTicks <= staleTicks + IF pc = "idle" THEN 0 ELSE 1

\* After one tick of holding the blocks have nothing left to do, and from then
\* on the ramp gains a step, or the walk a tick, with every tick of holding.
HeldInv ==
  /\ heldTicks \in 0 .. Enough
  /\ pc \in NotBegun => heldTicks = 0
  /\ LatchesKept
  /\ BlocksDone
  /\ heldTicks >= 2 => Settled
  /\ RampKeepsUp
  /\ WalkKeepsUp
===============================================================================
