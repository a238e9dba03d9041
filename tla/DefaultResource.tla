-------------------------- MODULE DefaultResource --------------------------
(***************************************************************************)
(* The default memory resource of polymorphic_allocator.cpp: a static      *)
(* MemoryResourcePtr under resource_mutex, read and replaced by any thread.*)
(* A MemoryResourcePtr is three words, and copying one copies its words    *)
(* one at a time.  The static is dynamically initialised, so the static    *)
(* initialisers of other translation units may come before it.             *)
(***************************************************************************)
EXTENDS Naturals

CONSTANTS
  Threads,
  Main,       \* the thread that runs the static initialisers
  Resources,  \* memory resources
  Mallocator, \* global_mallocator
  NewDelete,  \* std::pmr::new_delete_resource()
  None,       \* null
  MaxCalls    \* bound: calls made by all threads together

ASSUME ThreadsAssumption == Main \in Threads /\ None \notin Threads

ASSUME ResourcesAssumption ==
  /\ Mallocator \in Resources
  /\ NewDelete \in Resources
  /\ None \notin Resources

ASSUME BoundAssumption == MaxCalls \in Nat

VARIABLES
  default_resource, \* its words
  resource_mutex,   \* the thread that holds it
  initialised,      \* default_resource has been initialised
  pc,               \* where each thread is
  op,               \* "get" or "set": its call
  mem_resource,     \* the argument of its call
  result,           \* its local variable result, or previous
  todo,             \* the words it has still to copy
  calls             \* counts the calls

shared == <<default_resource, resource_mutex, initialised>>
local == <<pc, op, mem_resource, result, todo>>
vars == <<shared, local, calls>>

Words == {"type_index_m", "data_p_m", "function_table_m"}

\* The pointer to resource r, or, for None, the empty pointer.
Ptr(r) == [w \in Words |-> r]
Empty == Ptr(None)
Data(p) == p["data_p_m"]
isEmpty(p) == Data(p) = None

Pointers == {Ptr(r) : r \in Resources \cup {None}}

Init ==
  /\ default_resource = Empty
  /\ resource_mutex = None
  /\ initialised = FALSE
  /\ pc = [t \in Threads |-> "idle"]
  /\ op = [t \in Threads |-> "get"]
  /\ mem_resource = [t \in Threads |-> Empty]
  /\ result = [t \in Threads |-> Empty]
  /\ todo = [t \in Threads |-> {}]
  /\ calls = 0

\* The initialiser of default_resource runs between other static initialisers.
Initialise ==
  /\ ~initialised
  /\ pc[Main] = "idle"
  /\ default_resource' = Ptr(Mallocator)
  /\ initialised' = TRUE
  /\ UNCHANGED <<resource_mutex, local, calls>>

\* A call begins; before the initialisation is over only Main is running.
Begin(t, o, p) ==
  /\ initialised \/ t = Main
  /\ pc[t] = "idle"
  /\ calls < MaxCalls
  /\ calls' = calls + 1
  /\ pc' = [pc EXCEPT ![t] = "lock"]
  /\ op' = [op EXCEPT ![t] = o]
  /\ mem_resource' = [mem_resource EXCEPT ![t] = p]
  /\ result' = [result EXCEPT ![t] = Empty]
  /\ UNCHANGED <<shared, todo>>

getDefaultMemoryResource(t) == Begin(t, "get", Empty)
setDefaultMemoryResource(t, p) == Begin(t, "set", p)

\* Slip: the lock is an unnamed temporary, gone at the end of its statement.
LockTemporary(t) ==
  /\ pc[t] = "lock"
  /\ resource_mutex = None
  /\ pc' = [pc EXCEPT ![t] = "read"]
  /\ todo' = [todo EXCEPT ![t] = Words]
  /\ UNCHANGED <<shared, op, mem_resource, result, calls>>

Lock(t) ==
  /\ pc[t] = "lock"
  /\ resource_mutex = None
  /\ resource_mutex' = t
  /\ pc' = [pc EXCEPT ![t] = "read"]
  /\ todo' = [todo EXCEPT ![t] = Words]
  /\ UNCHANGED <<default_resource, initialised, op, mem_resource, result, calls>>

\* Thread t has copied word w and goes on to `next` when it was the last.
Copied(t, w, next, left) ==
  /\ pc' = [pc EXCEPT ![t] = IF todo[t] = {w} THEN next ELSE @]
  /\ todo' = [todo EXCEPT ![t] = IF todo[t] = {w} THEN left ELSE @ \ {w}]

\* Slip: the setter does not read the previous value.
ReadSkipped(t) ==
  /\ pc[t] = "read"
  /\ \E w \in todo[t] :
       /\ result' = IF op[t] = "set" THEN result ELSE [result EXCEPT ![t][w] = default_resource[w]]
       /\ IF op[t] = "set" THEN Copied(t, w, "write", Words) ELSE Copied(t, w, "unlock", {})
  /\ UNCHANGED <<shared, op, mem_resource, calls>>

\* result = default_resource, previous = default_resource.
Read(t) ==
  /\ pc[t] = "read"
  /\ \E w \in todo[t] :
       /\ result' = [result EXCEPT ![t][w] = default_resource[w]]
       /\ IF op[t] = "set" THEN Copied(t, w, "write", Words) ELSE Copied(t, w, "unlock", {})
  /\ UNCHANGED <<shared, op, mem_resource, calls>>

\* Slip: the empty pointer is stored as it is.
StoredAsIs(t) == mem_resource[t]

Stored(t) == IF isEmpty(mem_resource[t]) THEN Ptr(NewDelete) ELSE mem_resource[t]

\* default_resource = mem_resource, or new_delete_resource() for an empty argument.
Write(t) ==
  /\ pc[t] = "write"
  /\ \E w \in todo[t] :
       /\ default_resource' = [default_resource EXCEPT ![w] = Stored(t)[w]]
       /\ Copied(t, w, "unlock", {})
  /\ UNCHANGED <<resource_mutex, initialised, op, mem_resource, result, calls>>

\* Slip: the mutex stays locked.
UnlockForgotten(t) ==
  /\ pc[t] = "unlock"
  /\ pc' = [pc EXCEPT ![t] = "idle"]
  /\ UNCHANGED <<shared, op, mem_resource, result, todo, calls>>

\* The lock goes out of scope and the call returns.
Unlock(t) ==
  /\ pc[t] = "unlock"
  /\ resource_mutex' = None
  /\ pc' = [pc EXCEPT ![t] = "idle"]
  /\ UNCHANGED <<default_resource, initialised, op, mem_resource, result, todo, calls>>

Step(t) == Lock(t) \/ Read(t) \/ Write(t) \/ Unlock(t)

Next ==
  \/ Initialise
  \/ \E t \in Threads :
       \/ getDefaultMemoryResource(t)
       \/ \E p \in Pointers : setDefaultMemoryResource(t, p)
       \/ Step(t)

Spec == Init /\ [][Next]_vars

\* A thread in a call is scheduled again and again.
FairSpec == Spec /\ \A t \in Threads : WF_vars(Step(t))

-----------------------------------------------------------------------------
(* Properties.                                                              *)

Critical == {"read", "write", "unlock"}

\* The state has its types, and the mutex is held by the thread that is in a critical
\* section, by no other.
TypeOK ==
  /\ default_resource \in [Words -> Resources \cup {None}]
  /\ resource_mutex \in Threads \cup {None}
  /\ initialised \in BOOLEAN
  /\ pc \in [Threads -> {"idle", "lock"} \cup Critical]
  /\ op \in [Threads -> {"get", "set"}]
  /\ mem_resource \in [Threads -> Pointers]
  /\ result \in [Threads -> [Words -> Resources \cup {None}]]
  /\ todo \in [Threads -> SUBSET Words]
  /\ calls \in 0 .. MaxCalls
  /\ \A t \in Threads : pc[t] \in Critical <=> resource_mutex = t

\* No thread is ever returned a pointer with words of two resources, however the word by
\* word copies of getters and setters interleave.
NoTornPointer ==
  \A t \in Threads : pc[t] = "idle" => result[t] \in Pointers

\* Once initialised the default is a resource that can be called, also after an empty
\* pointer has been set and whatever was set before the initialisation.
NeverEmpty ==
  initialised /\ resource_mutex = None => default_resource \in Pointers \ {Empty}

\* The register the calls implement: its value changes when a setter has read the
\* previous one.
Value ==
  IF resource_mutex # None /\ pc[resource_mutex] = "write"
  THEN Data(Stored(resource_mutex))
  ELSE Data(default_resource)

CallOf(t) ==
  IF pc[t] = "idle" THEN [phase |-> "idle", resource |-> None]
  ELSE IF pc[t] \in {"lock", "read"} THEN [phase |-> op[t], resource |-> Data(mem_resource[t])]
  ELSE [phase |-> "done", resource |-> Data(result[t])]

Register == INSTANCE ResourceRegister
  WITH value <- Value, call <- [t \in Threads |-> CallOf(t)]

\* getDefaultMemoryResource and setDefaultMemoryResource take effect at one instant of
\* the call each: no set is lost and none is seen twice by the previous values returned.
ImplementsRegister == Register!Spec

\* Every call returns, if only finitely many are made (std::mutex promises no more).
CallsReturn == \A t \in Threads : pc[t] # "idle" ~> pc[t] = "idle"
=============================================================================
