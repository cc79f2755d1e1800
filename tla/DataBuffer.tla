------------------------------ MODULE DataBuffer ------------------------------
(***************************************************************************)
(* The class template DataBuffer of src/include/common.h, through which    *)
(* LowController::set_joint hands a frame to its send thread: a shared_ptr *)
(* under a shared_mutex, with reference-counted objects.                   *)
(***************************************************************************)
EXTENDS Naturals, FiniteSets

CONSTANTS Thread, Value,
          Object,            \* addresses make_shared can return
          NoThread, NoValue, Null

ASSUME ThreadAssumption == IsFiniteSet(Thread) /\ NoThread \notin Thread
ASSUME ObjectAssumption == Null \notin Object
ASSUME ValueAssumption == NoValue \notin Value

VARIABLES
  pc,                        \* the step each thread is at
  arg,                       \* newData of its SetData, NoValue otherwise
  ptr,                       \* the shared_ptr in its hands
  data,                      \* DataBuffer::data
  heap,                      \* what each object holds, and its use_count
  writer,                    \* the thread with the unique_lock, or none
  readers                    \* the threads with a shared_lock

vars == <<pc, arg, ptr, data, heap, writer, readers>>

Step == {"idle",
         "set", "make", "assign",
         "clear", "reset", "unlock",
         "get", "test", "copy", "release", "got"}

Freed == [value |-> NoValue, uses |-> 0]

-----------------------------------------------------------------------------
(* Reference counts.                                                       *)

\* A shared_ptr to object o goes out of scope: the last one frees it.
Unref(h, o) ==
  IF o = Null THEN h
  ELSE [h EXCEPT ![o] = IF h[o].uses = 1 THEN Freed
                        ELSE [value |-> h[o].value, uses |-> h[o].uses - 1]]

\* A shared_ptr to object o is copied.
Ref(h, o) == [h EXCEPT ![o].uses = @ + 1]

Goto(t, step) == pc' = [pc EXCEPT ![t] = step]

-----------------------------------------------------------------------------

Init ==
  /\ pc = [t \in Thread |-> "idle"]
  /\ arg = [t \in Thread |-> NoValue]
  /\ ptr = [t \in Thread |-> Null]
  /\ data = Null
  /\ heap = [o \in Object |-> Freed]
  /\ writer = NoThread
  /\ readers = {}

CallSetData(t, v) ==
  /\ pc[t] = "idle"
  /\ arg' = [arg EXCEPT ![t] = v]
  /\ Goto(t, "set")
  /\ UNCHANGED <<ptr, data, heap, writer, readers>>

CallClear(t) ==
  /\ pc[t] = "idle"
  /\ Goto(t, "clear")
  /\ UNCHANGED <<arg, ptr, data, heap, writer, readers>>

CallGetData(t) ==
  /\ pc[t] = "idle"
  /\ Goto(t, "get")
  /\ UNCHANGED <<arg, ptr, data, heap, writer, readers>>

\* std::unique_lock lock(mutex), in SetData and in Clear
LockUnique(t) ==
  /\ pc[t] \in {"set", "clear"}
  /\ writer = NoThread
  /\ readers = {}
  /\ writer' = t
  /\ Goto(t, IF pc[t] = "set" THEN "make" ELSE "reset")
  /\ UNCHANGED <<arg, ptr, data, heap, readers>>

\* Mutant: newData is written into the object that data points to.
MakeSharedInPlace(t) ==
  /\ pc[t] = "make"
  /\ \E o \in IF data = Null THEN Object ELSE {data} :
       /\ data = Null => heap[o].uses = 0
       /\ heap' = [heap EXCEPT ![o] = [value |-> arg[t], uses |-> @.uses + 1]]
       /\ ptr' = [ptr EXCEPT ![t] = o]
  /\ Goto(t, "assign")
  /\ UNCHANGED <<arg, data, writer, readers>>

\* std::make_shared<T>(newData)
MakeShared(t) ==
  /\ pc[t] = "make"
  /\ \E o \in Object :
       /\ heap[o].uses = 0
       /\ heap' = [heap EXCEPT ![o] = [value |-> arg[t], uses |-> 1]]
       /\ ptr' = [ptr EXCEPT ![t] = o]
  /\ Goto(t, "assign")
  /\ UNCHANGED <<arg, data, writer, readers>>

\* data = std::move(the new pointer), which gives up the old object
AssignData(t) ==
  /\ pc[t] = "assign"
  /\ data' = ptr[t]
  /\ heap' = Unref(heap, data)
  /\ ptr' = [ptr EXCEPT ![t] = Null]
  /\ arg' = [arg EXCEPT ![t] = NoValue]
  /\ Goto(t, "unlock")
  /\ UNCHANGED <<writer, readers>>

\* Mutant: the object is given up and data left pointing to it.
ResetDataKept(t) ==
  /\ pc[t] = "reset"
  /\ heap' = Unref(heap, data)
  /\ Goto(t, "unlock")
  /\ UNCHANGED <<arg, ptr, data, writer, readers>>

\* data = nullptr
ResetData(t) ==
  /\ pc[t] = "reset"
  /\ data' = Null
  /\ heap' = Unref(heap, data)
  /\ Goto(t, "unlock")
  /\ UNCHANGED <<arg, ptr, writer, readers>>

\* ~unique_lock, and the return
UnlockUnique(t) ==
  /\ pc[t] = "unlock"
  /\ writer' = NoThread
  /\ Goto(t, "idle")
  /\ UNCHANGED <<arg, ptr, data, heap, readers>>

\* Mutant: GetData takes no lock.
LockSharedNever(t) ==
  /\ pc[t] = "get"
  /\ Goto(t, "test")
  /\ UNCHANGED <<arg, ptr, data, heap, writer, readers>>

\* std::shared_lock lock(mutex)
LockShared(t) ==
  /\ pc[t] = "get"
  /\ writer = NoThread
  /\ readers' = readers \cup {t}
  /\ Goto(t, "test")
  /\ UNCHANGED <<arg, ptr, data, heap, writer>>

\* `data ? ... : nullptr`, the test
TestData(t) ==
  /\ pc[t] = "test"
  /\ Goto(t, IF data = Null THEN "release" ELSE "copy")
  /\ UNCHANGED <<arg, ptr, data, heap, writer, readers>>

\* Mutant: the result is a plain pointer.
CopyUncounted(t) ==
  /\ pc[t] = "copy"
  /\ ptr' = [ptr EXCEPT ![t] = data]
  /\ Goto(t, "release")
  /\ UNCHANGED <<arg, data, heap, writer, readers>>

\* `data ? data : ...`, the copy that is returned
CopyData(t) ==
  /\ pc[t] = "copy"
  /\ ptr' = [ptr EXCEPT ![t] = data]
  /\ heap' = IF data = Null THEN heap ELSE Ref(heap, data)
  /\ Goto(t, "release")
  /\ UNCHANGED <<arg, data, writer, readers>>

\* ~shared_lock, and the return
UnlockShared(t) ==
  /\ pc[t] = "release"
  /\ readers' = readers \ {t}
  /\ Goto(t, "got")
  /\ UNCHANGED <<arg, ptr, data, heap, writer>>

\* The caller is done with what it got.
DropResult(t) ==
  /\ pc[t] = "got"
  /\ ptr' = [ptr EXCEPT ![t] = Null]
  /\ heap' = Unref(heap, ptr[t])
  /\ Goto(t, "idle")
  /\ UNCHANGED <<arg, data, writer, readers>>

Next ==
  \E t \in Thread :
    \/ \E v \in Value : CallSetData(t, v)
    \/ CallClear(t) \/ CallGetData(t)
    \/ LockUnique(t) \/ MakeShared(t) \/ AssignData(t) \/ ResetData(t)
    \/ UnlockUnique(t)
    \/ LockShared(t) \/ TestData(t) \/ CopyData(t) \/ UnlockShared(t)
    \/ DropResult(t)

Spec == Init /\ [][Next]_vars

-----------------------------------------------------------------------------
(* Properties.                                                             *)

\* Every variable stays in its range.
TypeOK ==
  /\ pc \in [Thread -> Step]
  /\ arg \in [Thread -> Value \cup {NoValue}]
  /\ ptr \in [Thread -> Object \cup {Null}]
  /\ data \in Object \cup {Null}
  /\ heap \in [Object -> [value : Value \cup {NoValue}, uses : Nat]]
  /\ writer \in Thread \cup {NoThread}
  /\ readers \in SUBSET Thread

\* The shared_ptrs that point to an object
Holders(o) ==
  {t \in Thread : ptr[t] = o} \cup (IF data = o THEN {NoThread} ELSE {})

\* An object lives exactly as long as somebody holds it: a frame that is
\* replaced while the send thread works on it is neither freed nor leaked.
UsesAreHolders == \A o \in Object : heap[o].uses = Cardinality(Holders(o))

\* A caller of GetData that found data set gets data, not null: the test and
\* the copy are two reads, and nothing comes between them.
CopyFindsData == \A t \in Thread : pc[t] = "copy" => data # Null

StageOf(step) ==
  CASE step \in {"set", "make", "assign"} -> "set"
    [] step \in {"clear", "reset"} -> "clear"
    [] step = "unlock" -> "done"
    [] step \in {"get", "test", "copy"} -> "get"
    [] step \in {"release", "got"} -> "got"
    [] OTHER -> "idle"

ValueAt(o) == IF o = Null THEN NoValue ELSE heap[o].value

ItemOf(t) == IF StageOf(pc[t]) = "set" THEN arg[t] ELSE ValueAt(ptr[t])

Register == INSTANCE LatestValue WITH
  value <- ValueAt(data),
  stage <- [t \in Thread |-> StageOf(pc[t])],
  item <- [t \in Thread |-> ItemOf(t)]

\* Each SetData, Clear and GetData takes effect at one moment of its call.
RefinesLatestValue == Register!Spec

-----------------------------------------------------------------------------
(* The inductive invariant.                                                *)

\* The locks are held by the threads whose step is under them, and exclude
\* each other.
LocksHeld ==
  /\ \A t \in Thread :
       /\ writer = t <=> pc[t] \in {"make", "assign", "reset", "unlock"}
       /\ t \in readers <=> pc[t] \in {"test", "copy", "release"}
  /\ writer # NoThread => readers = {}

\* A thread holds a pointer only between getting and giving up an object.
PointersHeld ==
  \A t \in Thread : ptr[t] # Null => pc[t] \in {"assign", "release", "got"}

\* What make_shared returned holds newData, and nobody else has it yet.
NewIsOwn ==
  \A t \in Thread :
    pc[t] = "assign" =>
      /\ ptr[t] \in Object
      /\ heap[ptr[t]].value = arg[t]
      /\ Holders(ptr[t]) = {t}

\* The invariant that TLAPS proves inductive: the locks exclude each other,
\* a new object is its maker's alone, and every object is counted exactly.
IndInv ==
  /\ TypeOK
  /\ LocksHeld
  /\ PointersHeld
  /\ NewIsOwn
  /\ CopyFindsData
  /\ UsesAreHolders
===============================================================================
