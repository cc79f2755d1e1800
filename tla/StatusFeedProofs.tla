--------------------------- MODULE StatusFeedProofs ---------------------------
(***************************************************************************)
(* The safety properties of StatusFeed for members of any size and any     *)
(* number of statuses.                                                     *)
(***************************************************************************)
EXTENDS StatusFeed, TLAPS

USE MembersAssumption, MaxStatusAssumption

\* A tick makes its copies in their order.
LEMMA AfterIsLater ==
  ASSUME NEW c \in Copy, NEW d \in After(c)
  PROVE  d \in Copy \cup {"idle"} /\ (d # "idle" => Turn[c] < Turn[d])
  BY DEF After, Copy, Turn

LEMMA TurnInt == \A c \in Copy : Turn[c] \in Int
  BY DEF Copy, Turn

-----------------------------------------------------------------------------

LEMMA InitIndInv == Init => IndInv
<1> SUFFICES ASSUME Init PROVE IndInv
  OBVIOUS
<1> USE DEF Init
<1>1. TypeOK
  <2>1. latest_hw_status \in [Word -> 0 .. MaxStatus]
    OBVIOUS
  <2>2. copied \in [Copy -> SUBSET (0 .. MaxStatus)]
    OBVIOUS
  <2>3. unwritten \in SUBSET Word /\ uncopied \in SUBSET WordsOf(pc)
    OBVIOUS
  <2>4. status \in 0 .. MaxStatus /\ floor \in 0 .. MaxStatus
    OBVIOUS
  <2>5. pc \in Copy \cup {"idle"} /\ quiet \in BOOLEAN
    OBVIOUS
  <2> QED
    BY ONLY <2>1, <2>2, <2>3, <2>4, <2>5 DEF TypeOK
<1>2. WordsInStep /\ FloorIsWhole
  BY DEF WordsInStep, FloorIsWhole, WholeStatus
<1>3. NothingFromTheFuture /\ LaterCopiesEmpty
  BY DEF NothingFromTheFuture, LaterCopiesEmpty
<1>4. LaterReadsNotOlder /\ ReadsAreFresh /\ QuietTickIsWhole
  BY DEF LaterReadsNotOlder, ReadsAreFresh, QuietTickIsWhole
<1> QED
  BY <1>1, <1>2, <1>3, <1>4 DEF IndInv

LEMMA NextTypeOK ==
  ASSUME IndInv, [Next]_vars
  PROVE  TypeOK'
<1> USE DEF IndInv, TypeOK, callbackVars, loopVars
<1>1. CASE StatusArrives
  BY <1>1 DEF StatusArrives, Arrives
<1>2. CASE StoreWord
  BY <1>2 DEF StoreWord
<1>3. CASE BeginTick
  <2>1. WholeStatus \in 0 .. MaxStatus
    BY DEF WholeStatus, FloorIsWhole
  <2> QED
    BY <1>3, <2>1 DEF BeginTick, WordsOf, Copy
<1>4. CASE CopyWord
  <2>1. PICK w \in uncopied :
          /\ copied' = [copied EXCEPT ![pc] = @ \cup {latest_hw_status[w]}]
          /\ uncopied' = uncopied \ {w}
          /\ UNCHANGED <<callbackVars, pc, floor, quiet>>
    BY <1>4 DEF CopyWord
  <2>2. w \in Word
    BY <2>1 DEF WordsOf, Word
  <2> QED
    BY <2>1, <2>2
<1>5. CASE NextCopy
  BY <1>5, AfterIsLater DEF NextCopy
<1>6. CASE UNCHANGED vars
  BY <1>6 DEF vars
<1> QED
  BY <1>1, <1>2, <1>3, <1>4, <1>5, <1>6 DEF Next, Callback, Loop

\* The callback's side: the words stay in step with the status.
LEMMA NextWordsInStep ==
  ASSUME IndInv, [Next]_vars
  PROVE  WordsInStep' /\ FloorIsWhole'
<1> USE DEF IndInv, TypeOK, WordsInStep, FloorIsWhole, WholeStatus,
            callbackVars, loopVars
<1>1. CASE StatusArrives
  BY <1>1 DEF StatusArrives, Arrives, Word
<1>2. CASE StoreWord
  <2>1. PICK w \in unwritten :
          /\ latest_hw_status' = [latest_hw_status EXCEPT ![w] = status]
          /\ unwritten' = unwritten \ {w}
          /\ quiet' = FALSE
          /\ UNCHANGED <<status, loopVars>>
    BY <1>2 DEF StoreWord
  <2>2. WordsInStep'
    BY <2>1
  <2>3. FloorIsWhole'
    BY <2>1
  <2> QED
    BY <2>2, <2>3
<1>3. CASE BeginTick
  BY <1>3 DEF BeginTick
<1>4. CASE CopyWord
  BY <1>4 DEF CopyWord
<1>5. CASE NextCopy
  BY <1>5 DEF NextCopy
<1>6. CASE UNCHANGED vars
  BY <1>6 DEF vars
<1> QED
  BY <1>1, <1>2, <1>3, <1>4, <1>5, <1>6 DEF Next, Callback, Loop

\* The loop's side: what the copies hold.
LEMMA NextCopies ==
  ASSUME IndInv, [Next]_vars
  PROVE  /\ NothingFromTheFuture'
         /\ LaterCopiesEmpty'
         /\ LaterReadsNotOlder'
         /\ ReadsAreFresh'
         /\ QuietTickIsWhole'
<1> USE DEF IndInv, NothingFromTheFuture, LaterCopiesEmpty,
            LaterReadsNotOlder, ReadsAreFresh, QuietTickIsWhole, callbackVars,
            loopVars
<1>1. CASE StatusArrives
  BY <1>1 DEF StatusArrives, Arrives, TypeOK
<1>2. CASE StoreWord
  BY <1>2 DEF StoreWord
<1>3. CASE BeginTick
  BY <1>3 DEF BeginTick
<1>4. CASE CopyWord
  <2>1. PICK w \in uncopied :
          /\ copied' = [copied EXCEPT ![pc] = @ \cup {latest_hw_status[w]}]
          /\ UNCHANGED <<callbackVars, pc, floor, quiet>>
    BY <1>4 DEF CopyWord
  <2> DEFINE new == latest_hw_status[w]
  <2>2. pc \in Copy /\ w \in Word
    BY DEF TypeOK, WordsOf, Word
  <2>3. /\ new \in 0 .. MaxStatus
        /\ new <= status
        /\ status <= new + 1
        /\ floor <= new
        /\ quiet => new = floor
    BY <2>2 DEF TypeOK, WordsInStep, FloorIsWhole, WholeStatus
  <2>4. /\ copied'[pc] = copied[pc] \cup {new}
        /\ \A c \in Copy \ {pc} : copied'[c] = copied[c]
    BY <2>1, <2>2 DEF TypeOK
  <2> HIDE DEF new
  <2>5. NothingFromTheFuture'
    BY <2>1, <2>2, <2>3, <2>4
  <2>6. LaterCopiesEmpty'
    BY <2>1, <2>2, <2>4, TurnInt
  <2>7. LaterReadsNotOlder'
    <3> SUFFICES ASSUME NEW c \in Copy, NEW d \in Copy, Turn[c] < Turn[d],
                        NEW v \in copied'[c], NEW u \in copied'[d]
                 PROVE  v <= u + 1
      OBVIOUS
    <3>1. v \in Int /\ v <= status /\ u \in Int /\ status \in Int
      BY <2>1, <2>3, <2>4 DEF TypeOK
    <3>2. CASE d = pc
      BY <2>3, <2>4, <3>1, <3>2, TurnInt
    <3>3. CASE c = pc /\ d # pc
      BY <2>2, <2>4, <3>3 DEF Copy
    <3>4. CASE c # pc /\ d # pc
      BY <2>4, <3>4
    <3> QED
      BY <3>2, <3>3, <3>4
  <2>8. ReadsAreFresh'
    BY <2>1, <2>2, <2>3, <2>4 DEF TypeOK
  <2>9. QuietTickIsWhole'
    BY <2>1, <2>2, <2>3, <2>4
  <2> QED
    BY <2>5, <2>6, <2>7, <2>8, <2>9
<1>5. CASE NextCopy
  <2>1. PICK copy \in After(pc) : pc' = copy
    BY <1>5 DEF NextCopy
  <2>2. LaterCopiesEmpty'
    BY <1>5, <2>1, AfterIsLater, TurnInt DEF NextCopy, TypeOK
  <2> QED
    BY <1>5, <2>2 DEF NextCopy
<1>6. CASE UNCHANGED vars
  BY <1>6 DEF vars
<1> QED
  BY <1>1, <1>2, <1>3, <1>4, <1>5, <1>6 DEF Next, Callback, Loop

-----------------------------------------------------------------------------
(* The theorems.                                                           *)

\* What is stored is never more than one status behind what a copy has seen.
THEOREM Inductive == Spec => []IndInv
<1>1. IndInv /\ [Next]_vars => IndInv'
  BY NextTypeOK, NextWordsInStep, NextCopies DEF IndInv
<1> QED
  BY <1>1, InitIndInv, PTL DEF Spec

\* Later reads of a tick are at most one status behind its earlier ones.
THEOREM ReadsInOrder == Spec => []LaterReadsNotOlder
<1>1. IndInv => LaterReadsNotOlder
  BY DEF IndInv
<1> QED
  BY <1>1, Inductive, PTL

\* No word a tick uses is older than the last whole status it began with.
THEOREM FreshReads == Spec => []ReadsAreFresh
<1>1. IndInv => ReadsAreFresh
  BY DEF IndInv
<1> QED
  BY <1>1, Inductive, PTL

\* Without a callback in between a tick sees one status.
THEOREM QuietTicks == Spec => []QuietTickIsWhole
<1>1. IndInv => QuietTickIsWhole
  BY DEF IndInv
<1> QED
  BY <1>1, Inductive, PTL
===============================================================================
