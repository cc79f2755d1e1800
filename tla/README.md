# Verification of the Noetix E1 SDK

TLA+ modules, TLC configurations and TLAPS proofs for the control programs of
this repository. Every definition is translated from the source under `src/`;
`PROJECT.json` names the lines of each. This file says what the system is, what
is modelled and how, what the runs and the proofs show, and what is left.

## 1. The system

The SDK lets a program on the robot's computer drive the E1 humanoid over DDS.
The library proper (`HighController`, `LowController`, the DDS wrapper, the
serial driver) is delivered as headers and a binary archive. The control logic
the repository holds as source is in the two C++ examples, their Python twins,
the shared `common.h` and the pybind11 modules.

| part | source | state it keeps | operations |
| --- | --- | --- | --- |
| joint-level controller | `examples/cpp/example_low.cpp` | `mode_`, `startcontrol`, `standPercent`, `keyflag`, `isChangeMode_`, `count`, start pose, policy vectors | `init`, `loadModel`, `process` with its four button blocks and four mode handlers |
| policy pipeline | same file, `updateStateEstimation`, `computeObservation`, `computeActions` | stack of observations, `actions_`, `lastActions_` | shift or reset the stack, infer every `decimation` ticks |
| joint frames | same file, `handle*Mode`; name, index and angle tables; `e1_ac.yaml` | none (a 24-slot array per tick) | fill the slots by joint name, pick the policy's joints |
| status feed | same file, `init`; `example_high.cpp` callback | `latest_hw_status`, `remote_data` | assigned by a library thread, copied without a lock |
| remote-control loop | `examples/cpp/example_high.cpp`, `examples/py/test_high.py` | `key_updown`, `key_inuse`, `fileindex` | scan 14 buttons, choose a command, publish |
| `DataBuffer` | `include/common.h` | a `shared_ptr` under a `shared_mutex` | `SetData`, `GetData`, `Clear` |
| command path | `include/lowcontroller.h` (binary) | the last frame | `set_joint`, `send_thread_func` |
| Python bindings | `pybind/*.cpp` | none | conversions, GIL handling in callbacks |
| the rest | `aolion_driver.h`, `RotationTools.h`, `Types.h`, `dds/`, build files | | section 7 |

How they interact. A DDS reader thread calls the status callback, which
replaces a shared status with no lock. The control loop reads parts of it, runs
its handlers to completion and calls `set_joint`, which leaves the frame in a
`DataBuffer` (the archive's symbols name
`DataBuffer<std::array<MotorCmd, 24>>`, its `SetData` and `GetData`); the
library's send thread gets it from there. The remote-control
loop is a second, independent program: callback thread and main loop share
`remote_data`, and the loop publishes one command every 2 ms.

What is hard. (a) In one tick the four button blocks run one after the other
and each may change the mode, so any combination of held keys is a path through
four modes' worth of shared ramp, pose and policy variables that each block
resets differently. (b) Of the four latches in `keyflag`, two are never set, so
keys 10 and 11 act in every tick they are held. (c) Vectors of one walk survive
into the next. (d) The remote-control scan reads each button up to twice while
the callback may replace it, and starts, in C++, from uninitialised arrays.
(e) The frame handed over is replaced while another thread may be using it.
(f) The status is copied up to six times a tick, without a lock, while the
callback replaces it. (g) The joint's slot, motor, position and policy index go
through five index lists and name tables in four orders, some of them written
twice. (h) One NaN of a sensor or of the network meets clamps that treat it
differently, and is fed back.

What makes each part correct:

- *joint-level controller*: a pose ramp starts at its start, advances a step a
  tick and is not rebased under way; a stop is obeyed and lasts; held keys do
  not make modes chase each other, and a ramp ends.
- *policy pipeline*: after the first inference of a walk the policy sees no
  observation of another walk; targets of another walk are sent for less than a
  decimation period; none is sent that was never computed; inference goes on.
  Only numbers in range go into the network or from it to the legs, a bad
  sample drains from the stack, and a command is shaped as meant.
- *status feed*: no two copies of a tick are more than a status apart in the
  wrong direction, none is older than what was complete when the tick began.
- *remote-control loop*: one command per press; a command only for keys that
  were so during the scan; a press that is held is answered.
- *DataBuffer*: calls are atomic; objects live exactly as long as they are held.
- *joint frames*: every joint is commanded, in its own slot; every motor is
  named once; the policy sees the joints it drives, around the standing pose.
- *command path*: no older frame after a newer; the last is sent on. What can be
  stated of it without the binary is `DataBuffer`'s atomicity.

## 2. The modules

| module | what it is |
| --- | --- |
| `FrameStream` | abstract: the sequence of joint frames a robot may be sent |
| `LowControl` | `example_low.cpp`: start-up and `process()`, block by block |
| `LowControlProofs` | theorems about `LowControl` |
| `LowControlHeld`, `LowControlHeldProofs` | `LowControl` with a count of the ticks the buttons have been held: bounds in ticks, and their proofs |
| `HighTeleop` | the remote-control loop, C++ and Python |
| `HighTeleopProofs` | theorems about `HighTeleop` |
| `HighTeleopRest`, `HighTeleopRestProofs` | `HighTeleop` with a count of the turns the hands have rested: bounds in turns, and their proofs |
| `LatestValue` | abstract: an atomic register with concurrent callers |
| `DataBuffer` | `common.h`: locks, pointers and reference counts |
| `DataBufferProofs` | theorems about `DataBuffer`, the refinement included |
| `StatusFeed` | the status callback against the copies of a tick |
| `StatusFeedProofs` | theorems about `StatusFeed` |
| `MotorFrame` | the 24-slot arrays and the tables they are filled through |
| `MotorFrameProofs` | theorems about `MotorFrame` |
| `Observation` | the numbers of the policy: command, stack, clips, NaNs |
| `ObservationProofs` | theorems about `Observation` |
| `MCLowControl`, `MCLowControlHeld`, `MCHighTeleop`, `MCHighTeleopRest`, `MCDataBuffer`, `MCStatusFeed`, `MCMotorFrame`, `MCObservation` | the instances TLC checks |

They divide the controller by question. `LowControl` has all of its control and
abstracts a value to its age; `Observation` has the policy's values and one
walk, entered any number of times; `MotorFrame` has the place of each value and
one frame; `StatusFeed` has the age of each word read and nothing of what is
done with it. `LowControl` takes any set of buttons in every tick, so it
includes every mixture `StatusFeed` shows a tick can read.

Operators whose comment begins with "Mutant" are not part of a model. Each is a
plausible wrong version of the definition after it; with it in place TLC finds
the property named in `PROJECT.json` violated, so the property does depend on
that piece of code.

### LowControl

`pc` is the next block of the control thread: `init`, `load`, then per tick
`idle` (copy the buttons), `key9`, `key10`, `key5`, `key11`, `mode`. A block is
one action per branch: key 9 is `StartControl`, `StopControl` or `Key9Idle`, and
so on; `RampTo`, `HandleDefault`, `UserModeInfer` and `UserModeHold` are the
handlers, each with its `set_joint`. The variables have the names of the code.

*Data.* Floating-point values are abstracted to their provenance. The start
pose, `actions_`, `lastActions_` and each slot of the observation stack have an
age: `"none"` (never computed), `"earlier"` (from before the current mode was
entered) or `"current"`. An action vector is as old as the oldest observation
the policy was shown; the first observation after a mode change carries no
actions, a later one carries `lastActions_`. Every entry to a mode turns
`"current"` poses (and on entering `USERMODE` the policy's vectors) into
`"earlier"`. `sent` is the last frame: its kind, the point of the ramp, the age
of what it is computed from. `announced` holds what the tick has printed,
`staleTicks` counts the policy frames of this walk not computed in it; both are
observers the actions never read, except to count on.

*Inputs.* Any of the 32 sets of the buttons 2, 5, 9, 10, 11 in every tick. A
button is 0 or 1. As the callback may assign the status while the tick copies
it, a copy may mix two statuses; as any set is allowed, the mixture is covered.

*Judgement calls.* The pose handlers send nothing once `standPercent` exceeds 1,
which `RampTo` has and `std::min` keeps from happening. `standPercent` counts in exact steps of `1/standDuration`;
with `float` rounding the clamp can take one tick more or less. `initfinish` is
never 0 once the loop of `main` runs, so its early return is not an action. The
branch that prints `LIE2STAND` cannot be reached and is no action. Loading can
throw at any missing file or malformed key; all these end in `LoadThrows`.

`FrameStream` promises what the frames look like to the robot: a `stand` or
`lie` ramp begins at 0 (`BeginRamp`), goes on by one step with the same start
pose (`ContinueRamp`), or a `damp` or `policy` frame is sent. `LowControl`
implements it with the identity on `sent`: `Stream!Spec` is the property
`RefinesFrameStream`.

### LowControlHeld

`LowControl` and one history variable. `heldTicks` counts the ticks that began
with the buttons the tick before it found, and falls to 0 in a tick that finds
others. It follows every step and constrains none, so the controller is that of
`LowControl` (`HeldImplementsSpec` proves it). Its bound `Enough` is
`StandDuration + Decimation`, beyond which no property tells values apart. With
the count, what liveness says as "in the end" is said in ticks, as an invariant
or an action property.

### HighTeleop

A turn of the loop is: `ReadUp` (first read finds the button 0), or `ReadNotUp`
then `ReadAgain` (the second read), for each key in ascending order; then
`SendCommand`, `SendDefault` or, in Python, `PublishRaises`; then `NextTurn`.
`StatusArrives` may come between any two. A status copied half-way is a
succession of `StatusArrives` steps, so torn copies are covered. `Chain` is the
if-chain as a table: command, key marked in use, keys down, keys up; `Taken` is
the first arm that is `Ready`. Only `RUN` ignores `key_inuse`.

`Program` selects the differences: in C++ the arrays and `fileindex` start with
any value (`"junk"` in `key_updown` is a value that is neither 0 nor 1) and the
index is narrowed to `uint16_t`; in Python they start at zero, the loop waits
for a first status, and pybind11 raises for an index that does not fit.

`Key` is the set of buttons in use; the others are up for good, as a button
nobody touches is. `curmode` feeds a debug print and the axes are passed
through; both are left out. `seenDown`, `seenUp` and `press` are observers: how
each key has been since the scan began, and what the present press of a key has
sent. A press begins with a rising edge at the callback, whether or not the
loop ever sees it.

### HighTeleopRest

`HighTeleop` and one history variable. `restTurns` counts the turns of the loop
begun since the buttons changed last, so turn 1 is the first whose whole scan
sees the buttons as they are. Its bound `Enough` is one more than the number of
keys in use that an arm of the chain answers. "Answered" means in use: a key
whose release and new press the loop does not see, or that C++'s uninitialised
array has in use from the start, counts as answered although this press has sent
nothing, as it is for the code.

### DataBuffer

One action per step a thread can be preempted at: the call, taking the lock,
`make_shared`, the move assignment, releasing the lock; in `GetData` the null
test and the copy are two reads. `heap` gives each object's value and
`use_count`; `Unref` and `Ref` are the library's `shared_ptr`, modelled from its
use here. Threads hold the returned pointer until `DropResult`. Every thread
may make every call. `LatestValue` is the register its callers assume, with
the effect of a call at one moment between its beginning and its return; the
refinement mapping reads the register off `data` and the heap.

### StatusFeed

`StatusArrives` and `StoreWord` are the callback: `latest_hw_status = *status`,
word by word in any order, as the compiler may copy it. `BeginTick`, `CopyWord`
and `NextCopy` are the copies a tick makes, in program order: the buttons
(`remote_data`), the start pose in the blocks of key 9 and key 10, then in
`USERMODE` the joints and the IMU in `updateStateEstimation` and the arms'
positions in `handleUserMode`. `After` has which copy may follow which. A word
is the number of the status that stored it; `copied` has the numbers each copy
saw. `floor` and `quiet` are observers: the last status that was whole as the
tick began, and whether the callback has stored nothing since.

An unlocked read during a write is undefined; the outcomes modelled are those a
build produces that moves whole words, each old or new. Copies are not reordered
with one another (calls and the network's inference lie between most of them).
The twelve copies of the arms' loop read the same member and are one pass.

### MotorFrame

One action per loop body of the handlers: `DefaultJoint`; `PoseMotorId` and
`PoseJoint`, the two loops of `handleStandMode` and `handleLieMode`; in
`USERMODE` `EstimateJoint` (positions in walking order), `SelectJoint` (the
legs' among them, for the observation), `ArmJoint` and `LegJoint`. `SetJoint`
hands the array over and starts another handler. A joint is its index in
`jointNames`, the other name table and the index lists are sequences of such
indices.
`motor_id` is that member of the array and `drive` all the others: which joint's
target they follow, braking (`Damp`: kd without kp), zero, or never written.
`getJointsIndex` is in the binary; it is any one-to-one table. An observation is
made in the first tick of `USERMODE` and in some later ones, so `EstimateJoint`
may skip the selection once one has been made. The angle tables of `STAND` and
of the walk are in tenths of a milliradian.

### Observation

One action per function of a tick that infers: `UpdateStateEstimation` (any
axes and sensor values, NaN among them, as nothing in the source bounds a double
of the status; a walk may begin anew), `ComputeObservation`
(`Shaped`, the shift or reset of the stack, the clip), `ComputeActions` (any
output, clipped and kept). Numbers are thousandths; `NaN` is a value no
comparison finds in order, and `StdMin`, `StdMax` return what the C++ functions
return for it. `Gravity` follows the sine of the pitch through `quatToZyx`. Of
each kind of component of an observation one is kept, as the code treats the
components of a kind alike: the forward command, one gravity component, one
joint velocity, one action. The axes and the shaped command are locals of a tick
and are forgotten at its end. Before the first walk the stack holds NaNs, as its
memory may. `clean` is an observer. The run uses the walking model's scales.

## 3. What the runs check

| run | module, config | bounds | result |
| --- | --- | --- | --- |
| `low_safety` | `MCLowControl.cfg` | ramp 3, decimation 3, stack 2, all 32 button sets | 219,989 states, holds |
| `low_held` | `MCLowControlHeld.cfg` | ramp 2, decimation 2, stack 1 | 161,717 states, holds |
| `low_log_stand2lie` | `MCLowControl_Stand2LieGoesToLie.cfg` | ramp 2, decimation 2, stack 1 | violated: section 5 |
| `low_log_stop` | `MCLowControl_StopObeyed.cfg` | ramp 2, decimation 2, stack 1 | violated: section 5 |
| `high_cpp` | `MCHighTeleopCpp.cfg` | C++, keys 1, 2, 6, index range 3 | 239,376 states, holds |
| `high_live` | `MCHighTeleopLive.cfg` | Python, keys 1, 6, 9, index range 2 | 35,219 states, holds |
| `high_rest` | `MCHighTeleopRest.cfg` | Python, keys 1, 2, 5, 6, index range 2 | 415,238 states, holds |
| `buffer` | `MCDataBuffer.cfg` | 3 threads, 2 values, 4 objects, with symmetry | 921 states, holds, no deadlock |
| `status_feed` | `MCStatusFeed.cfg` | 1 word of buttons, 2 of motors, 2 of IMU, 3 statuses | 797,544 states, holds |
| `motor_frame` | `MCMotorFrame.cfg` | 24 joints, three lookup tables | 1,029 states, holds |
| `observation` | `MCObservation.cfg` | stack 2, clip 18, 4 positions of an axis, values at and beyond each edge, NaN | 2,930,961 states, holds |
| `low_command_range` | `MCObservation_CommandInRange.cfg` | as `observation` | violated: section 5 |

Questions and answers:

- `low_safety`. *Can a walk be fed another walk?* `HistoryOfThisVisit`: no slot
  of the stack, after the first inference. *Before it?* `StaleFramesBounded`:
  targets of the last walk are sent for fewer than `decimation` ticks (they
  are sent, as `count` is not reset), and `NeverUncomputed`: never targets of no
  policy at all. *Can keys overtake a stop?* `StopObeyedWithoutKey11`,
  `StopLatches`: only key 11 in the same tick; later only 9 or 11 start the
  joints again. *Can the robot stand or walk without having been started?*
  `StandsOnlyStarted`: no, once a pose has been captured (before, it does).
  *Can a ramp jump?* `RefinesFrameStream`: not within a ramp, although
  `WALK2STAND` does not reset `standPercent`; `OldPoseNeedsKey11`: its start is
  the pose of an earlier key press only in a tick with key 11 down.
- `low_held`. *Does holding keys stop anything?* `RampCompletes`: with the
  buttons still, a pose mode reaches its pose. `PolicyKeepsInferring`: a walk
  goes on inferring. *How soon?* `HeldButtonsSettle`: whatever is held acts in the tick
  that finds it and, at most, in the next; from then on no block changes the
  mode, the start, a latch or the start pose, and no ramp is set back. Two ticks
  are needed: 2 + 5 + 10, once started, is in `USERMODE` after the first tick and
  back in `STAND` after the second. `RampsInTime`: in a pose mode the ramp has
  made a step for every tick of holding after the first. `InfersInTime`: a walk
  held for one decimation period runs its own policy. A mode cannot then change
  for ever with the buttons still, and a pose takes `standDuration` ticks of
  holding and one more at most.
- `high_cpp`. `OneCommandPerPress`: a press of a key sends at most
  one command other than `RUN`, and nothing follows `RUN` but `RUN`, whatever
  other keys do during it. `CommandWasOnKeys`: each key of the command chosen
  was as the arm wants it at some moment of the scan that chose it, although the
  scan reads twice and may keep an old value.
- `high_live`. `HeldPressAnswered`: for keys 5, 6, 9 and 10, a key held for good
  gets in use once the hands rest, unless an index that does not fit ends the
  program before: no arm starves another.
  Keys 7 and 8 are excluded on purpose: held with 2 and without 1 they match no
  arm, and fire when 2 is let go.
- `high_rest`. *How soon?* `AnsweredInTime`: a held key among 5, 6, 9 and 10
  waits for at most as many turns as there are held keys that arms answer, so
  `RUN`, sent in every turn, delays no other arm.
  `OnlyRunRepeats`: one turn later only `RUN` is sent, or nothing, so no two arms
  free each other's key and fire in turns.
- `buffer`. `UsesAreHolders`: no object is freed while held, and none leaks.
  `CopyFindsData`: `GetData` never copies null after testing non-null.
  `RefinesLatestValue`: the calls are atomic.
- `status_feed`. *How mixed is what a tick reads?* `LaterReadsNotOlder`: a later
  copy is at most one status behind an earlier one, so a start pose is not from
  before the status that precedes the press. `ReadsAreFresh`: no word is older
  than the last status whole as the tick began. `QuietTickIsWhole`: a tick the
  callback does not meet sees one status. `LastStatusTakesOver`: if the stream
  stops, the loop goes on with the last status, whole, for ever.
- `motor_frame`. *Is a joint left out, or driven as another?*
  `EveryJointCommanded`, `EachMotorOnce`: no, whatever the lookup is. *Do the
  modes agree on ids?* `IdsAgree`: if the lookup follows `jointNames`; they do
  not otherwise. `PolicySeesWhatItDrives`, `WalkMeetsStand`: a zero action holds
  the joint it is shown where `STAND` left it, to half a milliradian.
- `observation`. `PolicySeesNumbers`, `LegTargetsBounded`: a NaN reaches neither
  the network nor a leg. `BadSamplesDrain`: it is out of the stack after
  as many good samples as the stack has slots, whether a sensor or an axis gave
  it. `TurnKept`: no turn is lost but within the dead band or backwards, whatever
  the axes are.

*Why the bounds are enough.* A ramp of 3 ticks has a first, an inner and a last
frame; a decimation of 3 has the inferring tick, a held one, and one whose
successor infers; `count` at every residue meets a new walk. A stack of 2 shows
a shift that leaves something behind. The theorems of section 4 hold for all
values of these. The keys 1, 2, 6 hold three arms that share key 6 (`SWING`,
`SAVETEACH`, `RUN`); 5 adds `STARTTEACH` and `WALK`, 9 adds `START`. The arms of
7, 8 and 10 are in no run: all but one have the form of those that are, and the
one that resets the index (`PLAYTEACH`) is, like them, covered by the theorems,
which are for every set of keys. An index range of 3 in place of 65536 wraps
after two saves, one of 2 raises after one. A ramp and a decimation of 2 let
`heldTicks` reach 4, past every bound the properties name. Three threads give
two readers and a writer, or two writers and a reader; each thread can hold one
object and the buffer one more, so four objects mean `make_shared` never lacks
one. Two words let a member be torn, three statuses let a callback begin and end
within a copy and another follow. The frames' size is the code's own. The axes
are at 1.3 either way, beyond the clamp that is left and the one commented out,
just inside the dead band, exactly at 0.3, and NaN; the sines lie a thousandth beyond each pole; the velocity and one output exceed the
clip. A stack of 2 keeps a bad sample for one inference more.

*Deadlock.* Checked in all runs but those of `LowControl`, where `LoadThrows`
really ends the program. In `HighTeleop` the callback can always come.

*Fairness.* `LowControl!LoopFairness`, which `LowControlHeld!HeldFairSpec`
adds to its specification, is `WF_vars(Next)`: the loop of `main` never blocks on
anything. `HighTeleop!FairSpec` is `WF_vars(Turn)`: the loop thread
goes on (`sleep_ms` returns, `publish_cmd` too), while the callback promises
nothing. `StatusFeed!FairSpec` is `WF_vars(StoreWord) /\ WF_vars(Loop)`: a
callback once begun returns, and the loop goes on; that a status arrives is
promised by nobody. `DataBuffer` has no fairness: the C++ standard does not
promise a `shared_mutex` to be fair, so no call is claimed to return.

## 4. What is proved

With TLAPS, for every value of the constants that satisfies their assumptions
(`standDuration`, `decimation` and `stackSize_` positive; any `Key` among the 14
buttons; index range at least 2, either program; members of the status not
empty; a lookup that is one-to-one; a NaN apart from the numbers, and nothing of the
axes but that in hundredths they are integers; finitely many threads).

`LowControlProofs`: `TypeCorrect`, `PolicyHistory`, `StaleFrames`, `Computed`,
`StopWins`, `StopHolds`, `StandsStarted`, `FreshPose`, `Refinement`. They rest
on `Inductive`: `Spec => []IndInv`, where `IndInv` is `TypeOK` and four groups,
each preserved given `TypeOK` and, where stated, the others:

- `RampInv`. In a pose mode, either the ramp is at 0 or the last frame was of
  this mode, with this start pose, one step back (`RampFollowsFrame`); and
  `WalkHoldsRamp`: walking keeps `standPercent` at 0. The second is why
  `WALK2STAND` need not reset it, and why the property is not inductive alone.
- `PoseInv`. `StandsOnlyStarted`; a pose mode about to begin its ramp at an old
  start pose was entered by key 11 in this tick (`OldPoseFromKey11`); no pose is
  captured before loading.
- `StopInv`. `DEFAULT` implies not started, so key 10 cannot leave it
  (`DefaultIsStopped`); a stop given in this tick stands until key 11 is looked
  at (`StopStands`); a damping frame means `DEFAULT`, or 9 or 11 is down in this
  tick (`DampStands`).
- `WalkInv`. Until the first inference `count` is ahead of the stale frames, so
  it reaches a multiple of the decimation first; after it all vectors are
  current (`WalkVectors`). Actions never computed mean `count = 0`, so the first
  tick of the first walk infers (`UncomputedBeforeFirst`).

`Refinement` maps `Init` to `FrameStream`'s `Init` and each step, under
`IndInv`, to a frame of `FrameStream` or a stutter. `StopHolds` is an action
property from the same invariant.

`HighTeleopProofs`: `TypeCorrect`, `OneShot`, `CommandSeen`, on `Inductive`
with two strengthenings. `SpentUntilUp`: a key that has sent something and is
not in use is up, both in `key_updown` and in the status, so a new command needs
a new press. `ScannedWasSeen`: a key the scan has passed has a value it had at
some moment since the scan began; the status itself is always among what has
been seen. These hold from the garbage initial states of C++ as well, as the
first scan visits every key.

`StatusFeedProofs`: `ReadsInOrder`, `FreshReads`, `QuietTicks`. `WordsInStep`
carries them: every stored word is of the last status or, if the callback has
yet to store it, of the one before. So what a copy reads next is at most one
behind anything read before it, and at least the floor.

`MotorFrameProofs`: `Commanded`, `MotorsOnce`, `IdsAgreement`,
`SeesWhatItDrives`, `MeetsStand`, for every one-to-one lookup. `IndInv` says
what the loops have filled so far; that a later turn spoils no slot of an
earlier one is where one-to-one is needed, and that every slot of `USERMODE` is
written is that the arms' and legs' lists, through `walkjointNames`, reach all
24 joints.

`ObservationProofs`: `SeesNumbers`, `LegsBounded`, `NaNDrains`, `TurnsKept`, for
every stack size, clip and set of axis values. `FeedbackClipped` is the
strengthening: what is fed back is a number, so only the sensors and the axes
put NaNs on the stack, and `clean` counts them out. `ShapedCommand` is what the
shaping does to any three axes, NaN included.

`DataBufferProofs`: `ExactCounts`, `TestThenCopy`, `Refinement`, for any finite
set of threads. `LocksHeld` is mutual exclusion; `NewIsOwn` says that the object
`make_shared` returned is its maker's alone; the counts are cardinalities of
the sets of holders, changed by one with the library's finite-set theorems.
`Refinement` maps the assignment, the reset and the copy to the moments a call
of `LatestValue` takes effect, and all other steps to calls, returns or
stutters.

`LowControlHeldProofs`: `HeldSettles`, `RampsOnTime`, `InfersOnTime`, on
`HeldInductive`: `HeldSpec => []HeldInv`. Whether a block would do anything if it
were run now is a state predicate: `Key9Quiet`, `Key10Quiet`, `Key5Quiet`,
`Key11Quiet`. A block leaves its own predicate true, but the blocks after it may
falsify it, so `BlocksDone` says block by block what is left quiet in the first
tick and what of that the second still finds. Two facts carry the argument:
`Key5Spent`, that what 10 + 2 do in a tick is not undone by key 5 in a later one,
as key 5 is latched by then; and that 2 + 5 + 11, not latched, can only be held
in `LIE` by the time key 11 is looked at. From the second tick of holding on all
four are quiet (`Settled`), whence `HeldButtonsSettle`; `RampKeepsUp` and
`WalkKeepsUp` compare the count with the ramp and with `staleTicks`, and `IndInv`
of `LowControl` bounds the latter by the decimation.

`HighTeleopRestProofs`: `AnswersInTime`, `RunAloneRepeats`, on `RestInductive`:
`RestSpec => []RestInv`. `KnownAtRest`: in the first turn of a rest each key the
scan has passed has its true value and is in use only if down, from the second
on all have. `OneMoreInUse` counts: after n turns of a rest at least n of the
held keys are in use, or the chain is `Spent`, that is only `RUN` is ready and
its key is in use. A command other than `RUN` adds a key to the set
(`CommandAddsKey`, with the library's theorems on cardinality); `RUN` is the last
arm (`RunIsLast`), so when it is taken no other is ready (`RunSpends`). The set
cannot outgrow the keys held (`InUseBound`), and a spent chain has answered every
key of `Answered` (`SpentIsAnswered`, from the arms of these keys). Both hold
from C++'s garbage, as the first turn of a rest reads every key.

TLC has checked `HeldInv` and `RestInv` as invariants on the instances of
`low_held` and `high_rest`, and `RestInv` on the C++ program with keys 2, 5, 6.

*Only model-checked.* The liveness properties `RampCompletes`,
`PolicyKeepsInferring`, `HeldPressAnswered` and `LastStatusTakesOver`: fairness
and `ENABLED` are outside the prover's reach. Of the first three the safety part
is proved, as the bounds in ticks and turns above, and that of the last is
`QuietTickIsWhole`; what TLC adds is that the ticks and turns come.

## 5. Where the program and its words disagree

- `example_low.cpp:559` prints `STAND2LIE` when the robot goes to `STAND`, from
  `LIE` or any other mode. The branch meant for `LIE` (line 560, `LIE2STAND`)
  is the `else` of `mode_ != STAND` and so is never reached. Run
  `low_log_stand2lie`.
- `example_low.cpp:540` prints `stop control` and goes to `DEFAULT`, but with
  key 11 held too the block at line 587 goes on to `LIE` in the same tick and
  the frame sent drives the joints. Run `low_log_stop`; `StopObeyedWithoutKey11`
  is what does hold.
- `example_low.cpp:224` says that the command of x is limited to -1.0 .. 1.2
  ("x的command限定在-1.0-1.2"). Of the two clamps below it the upper one, line
  227, is commented out, so an axis of 1.3 is a command of 1.3. Run
  `low_command_range`. If the library's sticks end at 1 the walk's `scalex` of 1.0
  keeps the command in range all the same, but nothing in the source says that
  they do. The clamp that is left lets a NaN axis pass as well; the network is
  then shown the upper clip (`PolicySeesNumbers`).

Noted while reading, and not claimed by any document of the repository: before
the first key press the controller, with `startcontrol` false, already sends
`STAND` ramp frames from a start pose of zeros; the ramps after
`WALK2STAND` and `deftolie` start from the pose captured at an earlier key
press; 2 + 5 at power-up walks without a start having been given; a joint's
`motor_id` is stored at slot `j`, the rest of its command at the slot looked up
by name, so ids in `STAND` and `LIE` differ from those in `DEFAULT` and
`USERMODE` if the lookup is not in the order of `jointNames`; `joint_names` of
`e1_ac.yaml` is read and compared with nothing; `quatToZyx` clamps the sine of
the pitch from above only, so rounding below -1 makes the gravity NaN; a NaN
that reaches a clip becomes the upper clip, so a NaN of the network sends a
leg to the end of its range of actions (no build file asks for `-ffast-math`,
under which nothing could be said); the arms' targets are a step from the
measured position and pass no clip, so a NaN measured there is sent on.

## 6. Plan

Done, in this order: `FrameStream` and `LowControl` with proofs; `HighTeleop`
with proofs; `LatestValue` and `DataBuffer`; then the start poses and the start
in `LowControl`, `StatusFeed`, `MotorFrame`, `Observation` and the proofs of
these and of `DataBuffer`; then `LowControlHeld` and `HighTeleopRest` with
proofs.

Dropped from the plan, with the reason:

- the command path from `set_joint` to the robot: when the send thread reads
  the buffer, how often it publishes and with what quality of service is in the
  binary archive (built for link-time optimisation, so not even its calls can be
  read). A model would check guesses;
- the Python bindings' locks: whether a callback waiting for the GIL can block
  a publishing thread depends on the locks the archive holds around callbacks;
- an abstract automaton per key: `OneCommandPerPress` says all that it would.

Left, should the sources become available: those first two, and `HighTeleop`
composed with a DDS writer that may lose a publication. Of the sources present
the smoothing of the arms' targets (a first-order step towards constants) and
the other models of `e1_ac.yaml` remain.

## 7. Not modelled

- `HighController`, `LowController`, `AoLionDriver` and the DDS wrapper: only
  headers and a binary archive are in the repository. `HighTeleop` ends at
  `publish_cmd` and `LowControl` at `set_joint`. `test_low.py` is one call of
  `set_joint` and idling: what follows is the archive's doing.
- The policy network, joint arithmetic and filters: floating point, out of TLC's
  reach. What matters for control is modelled: where a value comes from, whether
  it is a number and in range, and whose joint it is.
- `RotationTools.h`, `Types.h`: stateless geometry, but for the clamp that
  `Observation` has.
- Hand data: opaque bytes passed to the binary library.
- `src/dds`, onnxruntime, yaml-cpp: third party. Build files: no behaviour.

Nearly all of the repository's 176,000 lines are the vendored headers of
CycloneDDS, twice, once for each architecture. The project's own C++ and Python
is some 1,700 lines; the share of all lines that the modules stand for is
therefore small, and cannot be otherwise without modelling third-party code this
program merely calls.

## 8. Running

    tlc -workers 2 -config MCLowControl.cfg MCLowControl
    tlc -workers 2 -config MCStatusFeed.cfg MCStatusFeed
    tlc -workers 2 -config MCMotorFrame.cfg MCMotorFrame
    tlc -workers 2 -config MCObservation.cfg MCObservation
    tlc -workers 2 -config MCHighTeleopRest.cfg MCHighTeleopRest
    tlapm LowControlProofs.tla

and likewise for the other configurations of section 3 and the other modules
named `...Proofs`. Each run takes about a minute or less, `observation`
and `status_feed` the longest; the proofs a few minutes each.
