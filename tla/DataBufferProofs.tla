--------------------------- MODULE DataBufferProofs ---------------------------
(***************************************************************************)
(* DataBuffer for any finite set of threads and any sets of values and     *)
(* objects: objects are counted exactly, and the calls are atomic.         *)
(***************************************************************************)
EXTENDS DataBuffer, FiniteSetTheorems, TLAPS

USE ThreadAssumption, ObjectAssumption, ValueAssumption

Record == [value : Value \cup {NoValue}, uses : Nat]

-----------------------------------------------------------------------------
(* Reference counts.                                                       *)

LEMMA HoldersFinite == \A o \in Object : IsFiniteSet(Holders(o))
<1> TAKE o \in Object
<1>1. IsFiniteSet({t \in Thread : ptr[t] = o})
  BY FS_Subset
<1> QED
  BY <1>1, FS_AddElement, FS_EmptySet DEF Holders

\* Giving up a counted object lowers its count by one, and nothing else's.
LEMMA UnrefOne ==
  ASSUME NEW h \in [Object -> Record], NEW o \in Object, h[o].uses > 0
  PROVE  /\ Unref(h, o) \in [Object -> Record]
         /\ Unref(h, o)[o].uses = h[o].uses - 1
         /\ h[o].uses # 1 => Unref(h, o)[o].value = h[o].value
         /\ \A x \in Object \ {o} : Unref(h, o)[x] = h[x]
<1> DEFINE r == IF h[o].uses = 1 THEN Freed
                ELSE [value |-> h[o].value, uses |-> h[o].uses - 1]
<1>1. h[o] \in Record
  OBVIOUS
<1>2. /\ r \in Record
      /\ r.uses = h[o].uses - 1
      /\ h[o].uses # 1 => r.value = h[o].value
  BY <1>1 DEF Record, Freed
<1>3. Unref(h, o) = [h EXCEPT ![o] = r]
  BY DEF Unref
<1> HIDE DEF r
<1> QED
  BY <1>2, <1>3

\* Copying a pointer raises its object's count by one, and nothing else.
LEMMA RefOne ==
  ASSUME NEW h \in [Object -> Record], NEW o \in Object
  PROVE  /\ Ref(h, o) \in [Object -> Record]
         /\ Ref(h, o)[o].uses = h[o].uses + 1
         /\ Ref(h, o)[o].value = h[o].value
         /\ \A x \in Object \ {o} : Ref(h, o)[x] = h[x]
  BY DEF Ref, Record

\* A held object has a count, and more than one if two hold it.
LEMMA HeldIsCounted ==
  ASSUME IndInv, NEW o \in Object, NEW x \in Holders(o)
  PROVE  /\ heap[o].uses \in Nat
         /\ heap[o].uses > 0
         /\ \A y \in Holders(o) : y # x => heap[o].uses # 1
<1>1. /\ heap[o].uses = Cardinality(Holders(o))
      /\ IsFiniteSet(Holders(o))
  BY HoldersFinite DEF IndInv, UsesAreHolders
<1>2. heap[o].uses \in Nat
  BY <1>1, FS_CardinalityType
<1>3. heap[o].uses # 0
  BY <1>1, FS_EmptySet
<1>4. heap[o].uses = 1 => \E z : Holders(o) = {z}
  BY <1>1, FS_Singleton
<1> QED
  BY <1>2, <1>3, <1>4

\* An object with no count has no holder.
LEMMA FreeIsUnheld ==
  ASSUME IndInv, NEW o \in Object, heap[o].uses = 0
  PROVE  Holders(o) = {}
  BY HoldersFinite, FS_EmptySet DEF IndInv, UsesAreHolders

-----------------------------------------------------------------------------

LEMMA InitIndInv == Init => IndInv
<1> SUFFICES ASSUME Init PROVE IndInv
  OBVIOUS
<1> USE DEF Init
<1>1. TypeOK
  BY DEF TypeOK, Freed, Step
<1>2. LocksHeld /\ PointersHeld /\ NewIsOwn /\ CopyFindsData
  BY DEF LocksHeld, PointersHeld, NewIsOwn, CopyFindsData
<1>3. UsesAreHolders
  <2> SUFFICES ASSUME NEW o \in Object
               PROVE  heap[o].uses = Cardinality(Holders(o))
    BY DEF UsesAreHolders
  <2>1. Holders(o) = {}
    BY DEF Holders
  <2> QED
    BY <2>1, FS_EmptySet DEF Freed
<1> QED
  BY <1>1, <1>2, <1>3 DEF IndInv

\* Steps of a thread that touch neither a pointer nor an object.
Control(t) ==
  \/ \E v \in Value : CallSetData(t, v)
  \/ CallClear(t) \/ CallGetData(t) \/ LockUnique(t) \/ UnlockUnique(t)
  \/ LockShared(t) \/ TestData(t) \/ UnlockShared(t)

LEMMA NextTypeOK ==
  ASSUME IndInv, [Next]_vars
  PROVE  TypeOK'
<1> USE DEF IndInv, TypeOK
<1>1. CASE UNCHANGED vars
  BY <1>1 DEF vars
<1>2. ASSUME NEW t \in Thread, Control(t)
      PROVE  TypeOK'
  BY <1>2 DEF Control, CallSetData, CallClear, CallGetData, LockUnique,
     UnlockUnique, LockShared, TestData, UnlockShared, Goto, Step
<1>3. ASSUME NEW t \in Thread, MakeShared(t)
      PROVE  TypeOK'
  BY <1>3 DEF MakeShared, Goto, Step
<1>4. heap \in [Object -> Record]
  BY DEF Record
<1>5. data # Null => NoThread \in Holders(data)
  BY DEF Holders
<1>6. data # Null => Unref(heap, data) \in [Object -> Record]
  BY <1>4, <1>5, UnrefOne, HeldIsCounted
<1>7. Unref(heap, Null) = heap
  BY DEF Unref
<1>8. ASSUME NEW t \in Thread, AssignData(t) \/ ResetData(t)
      PROVE  TypeOK'
  BY <1>4, <1>6, <1>7, <1>8 DEF AssignData, ResetData, Goto, Step, Record
<1>9. ASSUME NEW t \in Thread, CopyData(t)
      PROVE  TypeOK'
  <2>1. heap' \in [Object -> Record]
    BY <1>4, <1>9, RefOne DEF CopyData
  <2> QED
    BY <1>9, <2>1 DEF CopyData, Goto, Step, Record
<1>10. ASSUME NEW t \in Thread, DropResult(t)
       PROVE  TypeOK'
  <2>1. ptr[t] # Null => t \in Holders(ptr[t])
    BY DEF Holders
  <2>2. heap' \in [Object -> Record]
    BY <1>4, <1>7, <1>10, <2>1, UnrefOne, HeldIsCounted DEF DropResult
  <2> QED
    BY <1>10, <2>2 DEF DropResult, Goto, Step, Record
<1> QED
  BY <1>1, <1>2, <1>3, <1>8, <1>9, <1>10 DEF Next, Control

\* The locks go with the steps, and no pointer outlives its call.
LEMMA NextLocks ==
  ASSUME IndInv, [Next]_vars
  PROVE  LocksHeld' /\ PointersHeld' /\ CopyFindsData'
<1> USE DEF IndInv, TypeOK, LocksHeld, PointersHeld, CopyFindsData
<1>1. CASE UNCHANGED vars
  BY <1>1 DEF vars
<1>2. ASSUME NEW t \in Thread, Control(t)
      PROVE  LocksHeld' /\ PointersHeld' /\ CopyFindsData'
  BY <1>2 DEF Control, CallSetData, CallClear, CallGetData, LockUnique,
     UnlockUnique, LockShared, TestData, UnlockShared, Goto
<1>3. ASSUME NEW t \in Thread, MakeShared(t)
      PROVE  LocksHeld' /\ PointersHeld' /\ CopyFindsData'
  BY <1>3 DEF MakeShared, Goto
<1>4. ASSUME NEW t \in Thread, AssignData(t) \/ ResetData(t)
      PROVE  LocksHeld' /\ PointersHeld' /\ CopyFindsData'
  BY <1>4 DEF AssignData, ResetData, Goto
<1>5. ASSUME NEW t \in Thread, CopyData(t) \/ DropResult(t)
      PROVE  LocksHeld' /\ PointersHeld' /\ CopyFindsData'
  BY <1>5 DEF CopyData, DropResult, Goto
<1> QED
  BY <1>1, <1>2, <1>3, <1>4, <1>5 DEF Next, Control

\* What another holder keeps stays as it is when t gives up its pointer.
LEMMA OthersKeepValue ==
  ASSUME IndInv, NEW o \in Object, NEW x \in Holders(o),
         NEW u \in Object, NEW y \in Holders(u), y # x
  PROVE  Unref(heap, o)[u].value = heap[u].value
<1>1. heap \in [Object -> Record]
  BY DEF IndInv, TypeOK, Record
<1>2. heap[o].uses > 0 /\ (u = o => heap[o].uses # 1)
  BY HeldIsCounted
<1> QED
  BY <1>1, <1>2, UnrefOne

LEMMA OneLess ==
  ASSUME NEW S, IsFiniteSet(S), NEW x \in S
  PROVE  Cardinality(S \ {x}) = Cardinality(S) - 1
  BY FS_RemoveElement

LEMMA NextUsesAreHolders ==
  ASSUME IndInv, [Next]_vars
  PROVE  UsesAreHolders'
<1> SUFFICES ASSUME NEW o \in Object
             PROVE  heap'[o].uses = Cardinality(Holders(o)')
  BY DEF UsesAreHolders
<1> USE DEF IndInv, TypeOK
<1>0. /\ heap \in [Object -> Record]
      /\ heap[o].uses = Cardinality(Holders(o))
      /\ IsFiniteSet(Holders(o))
  BY HoldersFinite DEF UsesAreHolders, Record
<1>1. CASE UNCHANGED <<ptr, data, heap>>
  <2>1. Holders(o)' = Holders(o)
    BY <1>1 DEF Holders
  <2> QED
    BY <1>0, <1>1, <2>1
<1>2. ASSUME NEW t \in Thread, MakeShared(t)
      PROVE  heap'[o].uses = Cardinality(Holders(o)')
  <2>1. PICK n \in Object :
          /\ heap[n].uses = 0
          /\ heap' = [heap EXCEPT ![n] = [value |-> arg[t], uses |-> 1]]
          /\ ptr' = [ptr EXCEPT ![t] = n]
    BY <1>2 DEF MakeShared
  <2>2. ptr[t] = Null /\ UNCHANGED data
    BY <1>2 DEF MakeShared, PointersHeld
  <2>3. CASE o = n
    <3>1. Holders(o) = {}
      BY <2>1, <2>3, FreeIsUnheld
    <3>2. Holders(o)' = {t}
      BY <2>1, <2>2, <2>3, <3>1 DEF Holders
    <3> QED
      BY <1>0, <2>1, <2>3, <3>2, FS_Singleton
  <2>4. CASE o # n
    <3>1. Holders(o)' = Holders(o)
      BY <2>1, <2>2, <2>4 DEF Holders
    <3> QED
      BY <1>0, <2>1, <2>4, <3>1
  <2> QED
    BY <2>3, <2>4
<1>3. ASSUME NEW t \in Thread, AssignData(t)
      PROVE  heap'[o].uses = Cardinality(Holders(o)')
  <2>1. /\ ptr[t] \in Object
        /\ Holders(ptr[t]) = {t}
        /\ data' = ptr[t]
        /\ ptr' = [ptr EXCEPT ![t] = Null]
        /\ heap' = Unref(heap, data)
    BY <1>3 DEF AssignData, NewIsOwn
  <2>2. ptr[t] # data
    BY <2>1 DEF Holders
  <2>3. o # data => heap'[o] = heap[o]
    BY <1>0, <2>1, UnrefOne, HeldIsCounted DEF Unref, Holders
  <2>4. CASE o = ptr[t]
    <3>1. Holders(o)' = {NoThread}
      BY <2>1, <2>4 DEF Holders
    <3> QED
      BY <1>0, <2>1, <2>2, <2>3, <2>4, <3>1, FS_Singleton
  <2>5. CASE o = data
    <3>1. NoThread \in Holders(o) /\ Holders(o)' = Holders(o) \ {NoThread}
      BY <2>1, <2>2, <2>5 DEF Holders
    <3>2. heap'[o].uses = heap[o].uses - 1
      BY <1>0, <2>1, <2>5, <3>1, UnrefOne, HeldIsCounted
    <3>3. Cardinality(Holders(o) \ {NoThread}) = Cardinality(Holders(o)) - 1
      BY <1>0, <3>1, OneLess
    <3> QED
      BY <1>0, <3>1, <3>2, <3>3
  <2>6. CASE o # ptr[t] /\ o # data
    <3>1. Holders(o)' = Holders(o)
      BY <2>1, <2>6 DEF Holders
    <3> QED
      BY <1>0, <2>3, <2>6, <3>1
  <2> QED
    BY <2>4, <2>5, <2>6
<1>4. ASSUME NEW t \in Thread, ResetData(t)
      PROVE  heap'[o].uses = Cardinality(Holders(o)')
  <2>1. data' = Null /\ ptr' = ptr /\ heap' = Unref(heap, data)
    BY <1>4 DEF ResetData
  <2>2. CASE o = data
    <3>1. NoThread \in Holders(o) /\ Holders(o)' = Holders(o) \ {NoThread}
      BY <2>1, <2>2 DEF Holders
    <3>2. heap'[o].uses = heap[o].uses - 1
      BY <1>0, <2>1, <2>2, <3>1, UnrefOne, HeldIsCounted
    <3>3. Cardinality(Holders(o) \ {NoThread}) = Cardinality(Holders(o)) - 1
      BY <1>0, <3>1, OneLess
    <3> QED
      BY <1>0, <3>1, <3>2, <3>3
  <2>3. CASE o # data
    <3>1. Holders(o)' = Holders(o)
      BY <2>1, <2>3 DEF Holders
    <3>2. heap'[o] = heap[o]
      BY <1>0, <2>1, <2>3, UnrefOne, HeldIsCounted DEF Unref, Holders
    <3> QED
      BY <1>0, <3>1, <3>2
  <2> QED
    BY <2>2, <2>3
<1>5. ASSUME NEW t \in Thread, CopyData(t)
      PROVE  heap'[o].uses = Cardinality(Holders(o)')
  <2>1. /\ ptr[t] = Null
        /\ data \in Object
        /\ data' = data
        /\ ptr' = [ptr EXCEPT ![t] = data]
        /\ heap' = Ref(heap, data)
    BY <1>5 DEF CopyData, PointersHeld, CopyFindsData
  <2>2. CASE o = data
    <3>1. t \notin Holders(o) /\ Holders(o)' = Holders(o) \cup {t}
      BY <2>1, <2>2 DEF Holders
    <3>2. heap'[o].uses = heap[o].uses + 1
      BY <1>0, <2>1, <2>2, RefOne
    <3> QED
      BY <1>0, <3>1, <3>2, FS_AddElement
  <2>3. CASE o # data
    <3>1. Holders(o)' = Holders(o)
      BY <2>1, <2>3 DEF Holders
    <3>2. heap'[o] = heap[o]
      BY <1>0, <2>1, <2>3, RefOne
    <3> QED
      BY <1>0, <3>1, <3>2
  <2> QED
    BY <2>2, <2>3
<1>6. ASSUME NEW t \in Thread, DropResult(t)
      PROVE  heap'[o].uses = Cardinality(Holders(o)')
  <2>1. /\ data' = data
        /\ ptr' = [ptr EXCEPT ![t] = Null]
        /\ heap' = Unref(heap, ptr[t])
    BY <1>6 DEF DropResult
  <2>2. CASE o = ptr[t]
    <3>1. t \in Holders(o) /\ Holders(o)' = Holders(o) \ {t}
      BY <2>1, <2>2 DEF Holders
    <3>2. heap'[o].uses = heap[o].uses - 1
      BY <1>0, <2>1, <2>2, <3>1, UnrefOne, HeldIsCounted
    <3>3. Cardinality(Holders(o) \ {t}) = Cardinality(Holders(o)) - 1
      BY <1>0, <3>1, OneLess
    <3> QED
      BY <1>0, <3>1, <3>2, <3>3
  <2>3. CASE o # ptr[t]
    <3>1. Holders(o)' = Holders(o)
      BY <2>1, <2>3 DEF Holders
    <3>2. heap'[o] = heap[o]
      BY <1>0, <2>1, <2>3, UnrefOne, HeldIsCounted DEF Unref, Holders
    <3> QED
      BY <1>0, <3>1, <3>2
  <2> QED
    BY <2>2, <2>3
<1> QED
  BY <1>1, <1>2, <1>3, <1>4, <1>5, <1>6 DEF Next, vars, CallSetData,
     CallClear, CallGetData, LockUnique, UnlockUnique, LockShared, TestData,
     UnlockShared

LEMMA NextNewIsOwn ==
  ASSUME IndInv, [Next]_vars
  PROVE  NewIsOwn'
<1> SUFFICES ASSUME NEW u \in Thread, pc'[u] = "assign"
             PROVE  /\ ptr'[u] \in Object
                    /\ heap'[ptr'[u]].value = arg'[u]
                    /\ Holders(ptr[u])' = {u}
  BY DEF NewIsOwn
<1> DEFINE Own == /\ ptr'[u] \in Object
                  /\ heap'[ptr'[u]].value = arg'[u]
                  /\ Holders(ptr[u])' = {u}
<1> USE DEF IndInv, TypeOK
<1>1. CASE UNCHANGED vars
  BY <1>1 DEF vars, NewIsOwn, Holders
<1>2. ASSUME NEW t \in Thread, Control(t)
      PROVE  Own
  <2>1. /\ UNCHANGED <<ptr, data, heap>>
        /\ pc[u] = "assign"
        /\ arg'[u] = arg[u]
    BY <1>2 DEF Control, CallSetData, CallClear, CallGetData, LockUnique,
       UnlockUnique, LockShared, TestData, UnlockShared, Goto
  <2>2. Holders(ptr[u])' = Holders(ptr[u])
    BY <2>1 DEF Holders
  <2> QED
    BY <2>1, <2>2 DEF NewIsOwn
<1>3. ASSUME NEW t \in Thread, MakeShared(t)
      PROVE  Own
  <2>1. u = t
    BY <1>3 DEF MakeShared, Goto, LocksHeld
  <2>2. PICK n \in Object :
          /\ heap[n].uses = 0
          /\ heap' = [heap EXCEPT ![n] = [value |-> arg[t], uses |-> 1]]
          /\ ptr' = [ptr EXCEPT ![t] = n]
    BY <1>3 DEF MakeShared
  <2>3. UNCHANGED <<data, arg>>
    BY <1>3 DEF MakeShared
  <2>4. Holders(n) = {}
    BY <2>2, FreeIsUnheld
  <2>5. Holders(ptr[u])' = {u}
    BY <2>1, <2>2, <2>3, <2>4 DEF Holders
  <2> QED
    BY <2>1, <2>2, <2>3, <2>5
<1>4. ASSUME NEW t \in Thread, AssignData(t) \/ ResetData(t) \/ CopyData(t)
      PROVE  FALSE
  BY <1>4 DEF AssignData, ResetData, CopyData, Goto, LocksHeld
<1>5. ASSUME NEW t \in Thread, DropResult(t)
      PROVE  Own
  <2>1. /\ data' = data
        /\ arg' = arg
        /\ ptr' = [ptr EXCEPT ![t] = Null]
        /\ heap' = Unref(heap, ptr[t])
        /\ pc[u] = "assign" /\ u # t
    BY <1>5 DEF DropResult, Goto
  <2>2. /\ ptr[u] \in Object
        /\ heap[ptr[u]].value = arg[u]
        /\ Holders(ptr[u]) = {u}
    BY <2>1 DEF NewIsOwn
  <2>3. Holders(ptr[u])' = {u}
    BY <2>1, <2>2 DEF Holders
  <2>4. ptr[t] # Null => t \in Holders(ptr[t])
    BY DEF Holders
  <2>5. heap'[ptr[u]].value = heap[ptr[u]].value
    BY <2>1, <2>2, <2>4, OthersKeepValue DEF Unref
  <2> QED
    BY <2>1, <2>2, <2>3, <2>5
<1> QED
  BY <1>1, <1>2, <1>3, <1>4, <1>5 DEF Next, Control

\* The locks exclude each other, a new object is its maker's alone, and every
\* object is counted exactly, in every reachable state.
THEOREM Inductive == Spec => []IndInv
<1>1. IndInv /\ [Next]_vars => IndInv'
  BY NextTypeOK, NextLocks, NextUsesAreHolders, NextNewIsOwn DEF IndInv
<1> QED
  BY InitIndInv, <1>1, PTL DEF Spec

\* Every variable stays in its range; no count falls below zero.
THEOREM TypeCorrect == Spec => []TypeOK
BY Inductive, PTL DEF IndInv

\* An object lives exactly as long as somebody holds it: SetData and Clear
\* neither free the frame the send thread works on nor leak it.
THEOREM ExactCounts == Spec => []UsesAreHolders
BY Inductive, PTL DEF IndInv

\* Between GetData's null test and its copy nothing comes.
THEOREM TestThenCopy == Spec => []CopyFindsData
BY Inductive, PTL DEF IndInv

-----------------------------------------------------------------------------
(* The refinement.                                                         *)

LEMMA Stages ==
  /\ \A step \in {"set", "make", "assign"} : StageOf(step) = "set"
  /\ \A step \in {"clear", "reset"} : StageOf(step) = "clear"
  /\ \A step \in {"get", "test", "copy"} : StageOf(step) = "get"
  /\ \A step \in {"release", "got"} : StageOf(step) = "got"
  /\ StageOf("unlock") = "done"
  /\ StageOf("idle") = "idle"
  BY DEF StageOf

\* A step of t leaves the other threads' pointers and their objects alone.
OthersKeep(t) ==
  \A u \in Thread \ {t} :
    /\ arg'[u] = arg[u]
    /\ ptr'[u] = ptr[u]
    /\ ptr[u] # Null => heap'[ptr[u]].value = heap[ptr[u]].value

\* The register sees t alone move, to a stage.
Moves(t, stage) ==
  /\ [u \in Thread |-> StageOf(pc[u])]' =
       [[u \in Thread |-> StageOf(pc[u])] EXCEPT ![t] = stage]
  /\ \A u \in Thread \ {t} : ItemOf(u)' = ItemOf(u)

LEMMA StepMoves ==
  ASSUME IndInv, NEW t \in Thread, NEW step \in Step, Goto(t, step),
         OthersKeep(t)
  PROVE  /\ Moves(t, StageOf(step))
         /\ pc'[t] = step
<1>1. pc' = [pc EXCEPT ![t] = step] /\ pc \in [Thread -> Step]
  BY DEF Goto, IndInv, TypeOK
<1>2. \A u \in Thread \ {t} : StageOf(pc[u])' = StageOf(pc[u])
  BY <1>1 DEF StageOf
<1>3. StageOf(pc[t])' = StageOf(step)
  BY <1>1 DEF StageOf
<1>4. \A u \in Thread \ {t} : ItemOf(u)' = ItemOf(u)
  BY <1>2 DEF ItemOf, ValueAt, OthersKeep
<1> QED
  BY <1>1, <1>2, <1>3, <1>4 DEF Moves

\* Steps that move no pointer and write no object.
LEMMA ControlKeeps ==
  ASSUME NEW t \in Thread, UNCHANGED <<data, ptr, heap>>
  PROVE  /\ ValueAt(data)' = ValueAt(data)
         /\ ValueAt(ptr[t])' = ValueAt(ptr[t])
         /\ UNCHANGED arg => OthersKeep(t)
  BY DEF ValueAt, OthersKeep

\* What others hold keeps its value when t gives up the object o.
LEMMA UnrefKeeps ==
  ASSUME IndInv, NEW o \in Object \cup {Null}, heap' = Unref(heap, o),
         NEW x, o # Null => x \in Holders(o)
  PROVE  /\ \A u \in Thread : ptr[u] # Null /\ u # x =>
              heap'[ptr[u]].value = heap[ptr[u]].value
         /\ data # Null /\ x # NoThread => heap'[data].value = heap[data].value
<1>1. ASSUME NEW u \in Thread, ptr[u] # Null, u # x
      PROVE  heap'[ptr[u]].value = heap[ptr[u]].value
  <2>1. ptr[u] \in Object /\ u \in Holders(ptr[u])
    BY <1>1 DEF Holders, IndInv, TypeOK
  <2> QED
    BY <1>1, <2>1, OthersKeepValue DEF Unref
<1>2. ASSUME data # Null, x # NoThread
      PROVE  heap'[data].value = heap[data].value
  <2>1. data \in Object /\ NoThread \in Holders(data)
    BY <1>2 DEF Holders, IndInv, TypeOK
  <2> QED
    BY <1>2, <2>1, OthersKeepValue DEF Unref
<1> QED
  BY <1>1, <1>2

\* Calling, locking, testing and returning: the register begins a call,
\* returns from one, gets nothing, or does not move.
LEMMA ControlSteps ==
  ASSUME IndInv, NEW t \in Thread, Control(t)
  PROVE  [Register!Next]_(Register!vars)
<1>0. /\ UNCHANGED <<data, ptr, heap>>
      /\ pc \in [Thread -> Step] /\ pc[t] \in Step
      /\ arg \in [Thread -> Value \cup {NoValue}]
      /\ ptr[t] # Null => pc[t] \in {"assign", "release", "got"}
  BY DEF Control, CallSetData, CallClear, CallGetData, LockUnique,
     UnlockUnique, LockShared, TestData, UnlockShared, IndInv, TypeOK,
     PointersHeld
<1>1. ASSUME NEW v \in Value, CallSetData(t, v)
      PROVE  Register!BeginSet(t, v)
  <2>1. /\ pc[t] = "idle" /\ arg' = [arg EXCEPT ![t] = v]
        /\ Goto(t, "set")
    BY <1>1 DEF CallSetData
  <2>2. OthersKeep(t)
    BY <1>0, <2>1 DEF OthersKeep
  <2>3. Moves(t, "set") /\ pc'[t] = "set"
    BY <2>1, <2>2, StepMoves, Stages DEF Step
  <2>4. ItemOf(t)' = v
    BY <1>0, <2>1, <2>3, Stages DEF ItemOf
  <2>5. ValueAt(data)' = ValueAt(data)
    BY <1>0, ControlKeeps
  <2> QED
    BY <2>1, <2>3, <2>4, <2>5, Stages DEF Moves, Register!BeginSet
<1>2. ASSUME NEW step \in Step, Goto(t, step), UNCHANGED arg
      PROVE  /\ Moves(t, StageOf(step))
             /\ pc'[t] = step
             /\ ValueAt(data)' = ValueAt(data)
             /\ ValueAt(ptr[t])' = ValueAt(ptr[t])
  BY <1>0, <1>2, ControlKeeps, StepMoves
<1>3. ASSUME NEW call \in {"clear", "get"}, pc[t] = "idle", Goto(t, call),
             UNCHANGED arg
      PROVE  Register!Begin(t, call)
  <2>1. StageOf(call) = call
    BY Stages
  <2>2. /\ Moves(t, call)
        /\ pc'[t] = call
        /\ ValueAt(data)' = ValueAt(data)
        /\ ValueAt(ptr[t])' = ValueAt(ptr[t])
    BY <1>2, <1>3, <2>1 DEF Step
  <2>3. ItemOf(t)' = ItemOf(t)
    BY <1>3, <2>1, <2>2, Stages DEF ItemOf
  <2> QED
    BY <1>3, <2>2, <2>3, Stages DEF Moves, Register!Begin
<1>4. ASSUME NEW step \in Step, StageOf(step) = StageOf(pc[t]),
             Goto(t, step), UNCHANGED arg
      PROVE  UNCHANGED Register!vars
  <2>1. ItemOf(t)' = ItemOf(t)
    BY <1>2, <1>4 DEF ItemOf
  <2> QED
    BY <1>2, <1>4, <2>1 DEF Moves, Register!vars
<1>5. CASE UnlockUnique(t)
  <2>1. /\ Moves(t, "idle") /\ pc'[t] = "idle" /\ pc[t] = "unlock"
        /\ ValueAt(data)' = ValueAt(data)
        /\ ValueAt(ptr[t])' = ValueAt(ptr[t])
    BY <1>2, <1>5, Stages DEF UnlockUnique, Step
  <2>2. ItemOf(t)' = NoValue
    BY <1>0, <2>1, Stages DEF ItemOf, ValueAt
  <2>3. Register!Return(t)
    BY <2>1, <2>2, Stages DEF Moves, Register!Return
  <2> QED
    BY <2>3 DEF Register!Next
<1>6. CASE TestData(t) /\ data = Null
  <2>1. /\ Moves(t, "got") /\ pc'[t] = "release" /\ pc[t] = "test"
        /\ ValueAt(data)' = ValueAt(data)
        /\ ValueAt(ptr[t])' = ValueAt(ptr[t])
    BY <1>2, <1>6, Stages DEF TestData, Step
  <2>2. ItemOf(t)' = ValueAt(data)
    BY <1>0, <1>6, <2>1, Stages DEF ItemOf, ValueAt
  <2>3. Register!Get(t)
    BY <2>1, <2>2, Stages DEF Moves, Register!Get
  <2> QED
    BY <2>3 DEF Register!Next
<1>7. CASE CallClear(t) \/ CallGetData(t)
  BY <1>3, <1>7 DEF CallClear, CallGetData, Register!Next
<1>8. CASE LockUnique(t) \/ LockShared(t) \/ UnlockShared(t)
  BY <1>4, <1>8, Stages DEF LockUnique, LockShared, UnlockShared, Step
<1>9. CASE TestData(t) /\ data # Null
  BY <1>4, <1>9, Stages DEF TestData, Step
<1> QED
  BY <1>1, <1>5, <1>6, <1>7, <1>8, <1>9 DEF Control, Register!Next

LEMMA MakeStutters ==
  ASSUME IndInv, NEW t \in Thread, MakeShared(t)
  PROVE  UNCHANGED Register!vars
<1>1. PICK n \in Object :
        /\ heap[n].uses = 0
        /\ heap' = [heap EXCEPT ![n] = [value |-> arg[t], uses |-> 1]]
        /\ ptr' = [ptr EXCEPT ![t] = n]
  BY DEF MakeShared
<1>2. data # n /\ \A u \in Thread : ptr[u] # n
  BY <1>1, FreeIsUnheld DEF Holders
<1>3. /\ pc[t] = "make" /\ Goto(t, "assign") /\ UNCHANGED <<arg, data>>
  BY DEF MakeShared
<1>4. OthersKeep(t) /\ ValueAt(data)' = ValueAt(data)
  BY <1>1, <1>2, <1>3 DEF OthersKeep, ValueAt, IndInv, TypeOK
<1>5. Moves(t, "set") /\ pc'[t] = "assign"
  BY <1>3, <1>4, StepMoves, Stages DEF Step
<1>6. ItemOf(t)' = ItemOf(t)
  BY <1>3, <1>5, Stages DEF ItemOf
<1>7. StageOf(pc[t]) = "set"
  BY <1>3, Stages
<1> QED
  BY <1>4, <1>5, <1>6, <1>7 DEF Moves, Register!vars

LEMMA AssignSets ==
  ASSUME IndInv, NEW t \in Thread, AssignData(t)
  PROVE  Register!Set(t)
<1>1. /\ pc[t] = "assign" /\ Goto(t, "unlock")
      /\ data' = ptr[t] /\ heap' = Unref(heap, data)
      /\ ptr' = [ptr EXCEPT ![t] = Null]
      /\ arg' = [arg EXCEPT ![t] = NoValue]
  BY DEF AssignData
<1>2. /\ ptr[t] \in Object
      /\ heap[ptr[t]].value = arg[t]
  BY <1>1 DEF IndInv, NewIsOwn
<1>3. \A u \in Thread : ptr[u] # Null =>
        heap'[ptr[u]].value = heap[ptr[u]].value
  BY <1>1, UnrefKeeps DEF Holders, IndInv, TypeOK
<1>4. OthersKeep(t) /\ ValueAt(data)' = arg[t]
  BY <1>1, <1>2, <1>3 DEF OthersKeep, ValueAt, IndInv, TypeOK
<1>5. Moves(t, "done") /\ pc'[t] = "unlock"
  BY <1>1, <1>4, StepMoves, Stages DEF Step
<1>6. ItemOf(t)' = NoValue /\ ItemOf(t) = arg[t]
  BY <1>1, <1>5, Stages DEF ItemOf, ValueAt, IndInv, TypeOK
<1>7. StageOf(pc[t]) = "set"
  BY <1>1, Stages
<1> QED
  BY <1>4, <1>5, <1>6, <1>7 DEF Moves, Register!Set

LEMMA ResetClears ==
  ASSUME IndInv, NEW t \in Thread, ResetData(t)
  PROVE  Register!Clear(t)
<1>1. /\ pc[t] = "reset" /\ Goto(t, "unlock")
      /\ data' = Null /\ heap' = Unref(heap, data)
      /\ UNCHANGED <<arg, ptr>>
  BY DEF ResetData
<1>2. ptr[t] = Null
  BY <1>1 DEF IndInv, PointersHeld
<1>3. \A u \in Thread : ptr[u] # Null =>
        heap'[ptr[u]].value = heap[ptr[u]].value
  BY <1>1, UnrefKeeps DEF Holders, IndInv, TypeOK
<1>4. OthersKeep(t) /\ ValueAt(data)' = NoValue
  BY <1>1, <1>3 DEF OthersKeep, ValueAt
<1>5. Moves(t, "done") /\ pc'[t] = "unlock"
  BY <1>1, <1>4, StepMoves, Stages DEF Step
<1>6. ItemOf(t)' = ItemOf(t)
  BY <1>1, <1>2, <1>5, Stages DEF ItemOf, ValueAt
<1>7. StageOf(pc[t]) = "clear"
  BY <1>1, Stages
<1> QED
  BY <1>4, <1>5, <1>6, <1>7 DEF Moves, Register!Clear

LEMMA CopyGets ==
  ASSUME IndInv, NEW t \in Thread, CopyData(t)
  PROVE  Register!Get(t)
<1>1. /\ pc[t] = "copy" /\ Goto(t, "release")
      /\ data \in Object /\ data' = data /\ arg' = arg
      /\ ptr' = [ptr EXCEPT ![t] = data]
      /\ heap' = Ref(heap, data)
  BY DEF CopyData, IndInv, CopyFindsData, TypeOK
<1>2. \A o \in Object : heap'[o].value = heap[o].value
  <2>1. heap \in [Object -> Record]
    BY DEF IndInv, TypeOK, Record
  <2> QED
    BY <1>1, <2>1, RefOne
<1>3. OthersKeep(t) /\ ValueAt(data)' = ValueAt(data)
  BY <1>1, <1>2 DEF OthersKeep, ValueAt, IndInv, TypeOK
<1>4. Moves(t, "got") /\ pc'[t] = "release"
  BY <1>1, <1>3, StepMoves, Stages DEF Step
<1>5. ItemOf(t)' = ValueAt(data)
  BY <1>1, <1>2, <1>4, Stages DEF ItemOf, ValueAt, IndInv, TypeOK
<1>6. StageOf(pc[t]) = "get"
  BY <1>1, Stages
<1> QED
  BY <1>3, <1>4, <1>5, <1>6 DEF Moves, Register!Get

LEMMA DropReturns ==
  ASSUME IndInv, NEW t \in Thread, DropResult(t)
  PROVE  Register!Return(t)
<1>1. /\ pc[t] = "got" /\ Goto(t, "idle")
      /\ data' = data /\ arg' = arg
      /\ ptr' = [ptr EXCEPT ![t] = Null]
      /\ heap' = Unref(heap, ptr[t])
  BY DEF DropResult
<1>2. /\ \A u \in Thread : ptr[u] # Null /\ u # t =>
           heap'[ptr[u]].value = heap[ptr[u]].value
      /\ data # Null => heap'[data].value = heap[data].value
  <2>1. ptr[t] \in Object \cup {Null} /\ (ptr[t] # Null => t \in Holders(ptr[t]))
    BY DEF Holders, IndInv, TypeOK
  <2>2. t # NoThread
    OBVIOUS
  <2> QED
    BY <1>1, <2>1, <2>2, UnrefKeeps
<1>3. OthersKeep(t) /\ ValueAt(data)' = ValueAt(data)
  BY <1>1, <1>2 DEF OthersKeep, ValueAt, IndInv, TypeOK
<1>4. Moves(t, "idle") /\ pc'[t] = "idle"
  BY <1>1, <1>3, StepMoves, Stages DEF Step
<1>5. ItemOf(t)' = NoValue
  BY <1>1, <1>4, Stages DEF ItemOf, ValueAt, IndInv, TypeOK
<1>6. StageOf(pc[t]) = "got"
  BY <1>1, Stages
<1> QED
  BY <1>3, <1>4, <1>5, <1>6 DEF Moves, Register!Return

\* Every SetData, Clear and GetData takes effect at one moment between its
\* call and its return: DataBuffer implements LatestValue.
THEOREM Refinement == Spec => RefinesLatestValue
<1>1. Init => Register!Init
  <2> SUFFICES ASSUME Init PROVE Register!Init
    OBVIOUS
  <2>1. \A t \in Thread : StageOf(pc[t]) = "idle" /\ ItemOf(t) = NoValue
    BY Stages DEF Init, ItemOf, ValueAt
  <2> QED
    BY <2>1 DEF Init, Register!Init, ValueAt
<1>2. IndInv /\ [Next]_vars => [Register!Next]_(Register!vars)
  <2> SUFFICES ASSUME IndInv, [Next]_vars
               PROVE  [Register!Next]_(Register!vars)
    OBVIOUS
  <2>1. CASE UNCHANGED vars
    BY <2>1 DEF vars, Register!vars, ValueAt, ItemOf
  <2>2. ASSUME NEW t \in Thread,
               AssignData(t) \/ ResetData(t) \/ CopyData(t) \/ DropResult(t)
        PROVE  Register!Next
    BY <2>2, AssignSets, ResetClears, CopyGets, DropReturns DEF Register!Next
  <2> QED
    BY <2>1, <2>2, ControlSteps, MakeStutters DEF Next, Control
<1> QED
  BY <1>1, <1>2, Inductive, PTL DEF Spec, RefinesLatestValue, Register!Spec
===============================================================================
