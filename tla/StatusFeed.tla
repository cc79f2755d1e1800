------------------------------ MODULE StatusFeed ------------------------------
(***************************************************************************)
(* The hardware status shared without a lock between the status callback   *)
(* of src/examples/cpp/example_low.cpp and its control loop.  The callback *)
(* assigns the struct latest_hw_status, the loop copies members of it      *)
(* several times a tick; both go word by word, in whatever order the       *)
(* compiler's copy loop takes.                                             *)
(*                                                                         *)
(* A word is abstracted to the number of the status that stored it.  The   *)
(* copies of a tick happen in program order.                               *)
(***************************************************************************)
EXTENDS Integers

CONSTANTS Remote, Motor, Imu,  \* the words of the three members in use
          MaxStatus            \* bound: statuses that arrive

ASSUME MembersAssumption == Remote # {} /\ Motor # {} /\ Imu # {}
ASSUME MaxStatusAssumption == MaxStatus \in Nat

Word == Remote \cup Motor \cup Imu

\* The copies a tick may make, by the variable or the block they are for.
Copy == {"remote_data", "key9_pose", "key10_pose", "joint_state", "imudata",
         "arm_pose"}

\* Their order in the tick.
Turn == [c \in Copy |->
           CASE c = "remote_data" -> 1
             [] c = "key9_pose" -> 2
             [] c = "key10_pose" -> 3
             [] c = "joint_state" -> 4
             [] c = "imudata" -> 5
             [] c = "arm_pose" -> 6]

VARIABLES
  latest_hw_status,            \* for each word the status it is of
  status,                      \* the number of the last status that arrived
  unwritten,                   \* what the callback has yet to assign of it
  pc,                          \* the copy the control thread is making
  uncopied,                    \* the words that copy still lacks
  copied,                      \* the statuses seen in each copy of the tick
  floor,                       \* ghost: last whole status as the tick began
  quiet                        \* ghost: no word was stored in this tick so far

callbackVars == <<latest_hw_status, status, unwritten>>
loopVars == <<pc, uncopied, copied, floor>>
vars == <<callbackVars, loopVars, quiet>>

WordsOf(copy) ==
  CASE copy = "remote_data" -> Remote
    [] copy = "imudata" -> Imu
    [] copy = "idle" -> {}
    [] OTHER -> Motor

\* What may follow a copy in the tick.  Key 9 takes a pose on entering LIE,
\* 10 + 2 on entering STAND, perhaps both; USERMODE is not reached from LIE.
After(copy) ==
  CASE copy = "remote_data" -> {"key9_pose", "key10_pose", "joint_state", "idle"}
    [] copy = "key9_pose" -> {"key10_pose", "idle"}
    [] copy = "key10_pose" -> {"joint_state", "idle"}
    [] copy = "joint_state" -> {"imudata"}
    [] copy = "imudata" -> {"arm_pose"}
    [] OTHER -> {"idle"}

\* The last status stored as a whole.
WholeStatus == IF unwritten = {} THEN status ELSE status - 1

Init ==
  /\ latest_hw_status = [w \in Word |-> 0]
  /\ status = 0
  /\ unwritten = {}
  /\ pc = "idle"
  /\ uncopied = {}
  /\ copied = [c \in Copy |-> {}]
  /\ floor = 0
  /\ quiet = FALSE

-----------------------------------------------------------------------------
(* The callback, one status at a time.                                     *)

Arrives(members) ==
  /\ status < MaxStatus
  /\ status' = status + 1
  /\ unwritten' = members
  /\ UNCHANGED <<latest_hw_status, loopVars, quiet>>

\* Mutants: the next status comes before the last is stored; the members are
\* assigned one by one and imu_data is forgotten.
StatusArrivesAtOnce == Arrives(Word)
StatusArrivesWithoutImu == unwritten = {} /\ Arrives(Word \ Imu)

StatusArrives == unwritten = {} /\ Arrives(Word)

StoreWord ==
  \E w \in unwritten :
    /\ latest_hw_status' = [latest_hw_status EXCEPT ![w] = status]
    /\ unwritten' = unwritten \ {w}
    /\ quiet' = FALSE
    /\ UNCHANGED <<status, loopVars>>

-----------------------------------------------------------------------------
(* The control thread.                                                     *)

\* Mutant: the buttons are the ones copied in the tick before.
BeginTickOldButtons ==
  /\ pc = "idle"
  /\ pc' = "remote_data"
  /\ uncopied' = IF copied["remote_data"] = {} THEN Remote ELSE {}
  /\ copied' = [c \in Copy |-> IF c = "remote_data" THEN copied[c] ELSE {}]
  /\ floor' = WholeStatus
  /\ quiet' = (unwritten = {})
  /\ UNCHANGED callbackVars

BeginTick ==
  /\ pc = "idle"
  /\ pc' = "remote_data"
  /\ uncopied' = Remote
  /\ copied' = [c \in Copy |-> {}]
  /\ floor' = WholeStatus
  /\ quiet' = (unwritten = {})
  /\ UNCHANGED callbackVars

CopyWord ==
  \E w \in uncopied :
    /\ copied' = [copied EXCEPT ![pc] = @ \cup {latest_hw_status[w]}]
    /\ uncopied' = uncopied \ {w}
    /\ UNCHANGED <<callbackVars, pc, floor, quiet>>

\* The next copy or, if there is none left, the end of the tick.
NextCopy ==
  /\ pc # "idle"
  /\ uncopied = {}
  /\ \E copy \in After(pc) : pc' = copy /\ uncopied' = WordsOf(copy)
  /\ UNCHANGED <<callbackVars, copied, floor, quiet>>

-----------------------------------------------------------------------------

Callback == StatusArrives \/ StoreWord
Loop == BeginTick \/ CopyWord \/ NextCopy

Next == Callback \/ Loop

Spec == Init /\ [][Next]_vars

\* A callback once begun returns, and the loop of main() goes on; that a
\* status arrives is promised by nobody.
FairSpec == Spec /\ WF_vars(StoreWord) /\ WF_vars(Loop)

-----------------------------------------------------------------------------
(* Properties.                                                             *)

TypeOK ==
  /\ latest_hw_status \in [Word -> 0 .. MaxStatus]
  /\ status \in 0 .. MaxStatus
  /\ unwritten \in SUBSET Word
  /\ pc \in Copy \cup {"idle"}
  /\ uncopied \in SUBSET WordsOf(pc)
  /\ copied \in [Copy -> SUBSET (0 .. MaxStatus)]
  /\ floor \in 0 .. MaxStatus
  /\ quiet \in BOOLEAN

\* Torn copies or not, what a tick reads later is at most one status behind
\* what it read before: a start pose is not older than the status before the
\* press it answers, the IMU's data not than the one before the joints'.
LaterReadsNotOlder ==
  \A c, d \in Copy : Turn[c] < Turn[d] =>
    \A v \in copied[c], w \in copied[d] : v <= w + 1

\* No word used in a tick is older than the last status that was stored whole
\* when the tick began, however long the tick and the callback take.
ReadsAreFresh == \A c \in Copy : \A v \in copied[c] : v >= floor

\* A tick the callback does not meet uses one and the same status throughout.
QuietTickIsWhole == quiet => \A c \in Copy : copied[c] \subseteq {floor}

\* When statuses stop coming, the loop goes on for ever with the last one,
\* whole: nothing in it notices, and no older word stays behind.
LastStatusTakesOver ==
  \/ []<><<StatusArrives>>_vars
  \/ <>[](\A c \in Copy : copied[c] \subseteq {status})

-----------------------------------------------------------------------------
(* The inductive invariant behind the safety properties.                   *)

\* A word is of the last status, or of the one before if it is not stored yet.
WordsInStep ==
  \A w \in Word :
    latest_hw_status[w] = IF w \in unwritten THEN status - 1 ELSE status

\* Only a whole status is the floor of a tick, and in a quiet tick it is the
\* one that all words are of.
FloorIsWhole ==
  /\ floor <= WholeStatus
  /\ quiet => floor = WholeStatus /\ unwritten \in {{}, Word}

NothingFromTheFuture == \A c \in Copy : \A v \in copied[c] : v <= status

\* The copies a tick has yet to make are empty.
LaterCopiesEmpty ==
  pc # "idle" => \A c \in Copy : Turn[pc] < Turn[c] => copied[c] = {}

\* The safety invariants with what makes them inductive: what is stored is
\* never more than one status behind what any copy has seen.
IndInv ==
  /\ TypeOK
  /\ WordsInStep
  /\ FloorIsWhole
  /\ NothingFromTheFuture
  /\ LaterCopiesEmpty
  /\ LaterReadsNotOlder
  /\ ReadsAreFresh
  /\ QuietTickIsWhole
===============================================================================
