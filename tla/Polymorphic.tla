---------------------------- MODULE Polymorphic ----------------------------
(***************************************************************************)
(* UniqueGenericPolymorphic<size, ...>: a variable that owns one object of *)
(* any type, stored in its own buffer (data_m) when it fits and in a block *)
(* of the default memory resource when it does not.                        *)
(*                                                                         *)
(* A slot is a variable of that class.  An object is an identity: it is    *)
(* constructed once and must be destroyed once.  Moving a Polymorphic      *)
(* copies its bytes, so two slots can come to hold the bytes of one        *)
(* object; the bytes' value is kept with the slot.  The program stops at   *)
(* the first undefined behaviour or termination, and `outcome` names it.   *)
(***************************************************************************)
EXTENDS FiniteSets

CONSTANTS
  Slots,       \* variables of the Polymorphic type
  Types,       \* types of the objects they hold
  Inline,      \* the types with sizeof(T) <= size - 3
  Throwing,    \* the types whose constructors may throw
  Relocatable, \* the types whose bytes may be copied to another address
  Values,      \* values of an object
  Objects,     \* object identities
  Blocks,      \* blocks a memory resource can hand out
  Resources,   \* memory resources
  Mallocator,  \* the resource that is the default at start-up
  None         \* null pointer, empty table, type_id<void>, unbuilt object

ASSUME SetsAssumption ==
  /\ Inline \subseteq Types
  /\ Throwing \subseteq Types
  /\ Relocatable \subseteq Types
  /\ Mallocator \in Resources

ASSUME NoneAssumption ==
  /\ None \notin Slots
  /\ None \notin Types
  /\ None \notin Values
  /\ None \notin Objects
  /\ None \notin Blocks
  /\ None \notin Resources

VARIABLES
  slot,             \* the members of each Polymorphic
  object,           \* the lifetime of each object
  heap,             \* who allocated each block, for which size
  default_resource, \* what a default constructed PolymorphicAllocator uses
  outcome           \* "running", or how the program ended

vars == <<slot, object, heap, default_resource, outcome>>

-----------------------------------------------------------------------------
(* The members of a slot.  `state`, `size` and `val` stand for data_m (the  *)
(* alignment goes with the size), `alloc` and `block` for FallbackAllocData *)
(* and `obj` for the object whose bytes are in the storage.                 *)

Held == {"stack", "fallback"}

Opt(S) == S \cup {None}

SlotType ==
  [state : {"absent", "empty"} \cup Held, table : Opt(Types),
   type : Opt(Types), size : Opt(Types), obj : Opt(Objects),
   val : Opt(Values), block : Opt(Blocks), alloc : Opt(Resources)]

Bare(state, table, type) ==
  [state |-> state, table |-> table, type |-> type, size |-> None,
   obj |-> None, val |-> None, block |-> None, alloc |-> None]

EmptySlot(table, type) == Bare("empty", table, type)
AbsentSlot == Bare("absent", None, None)

Dead == [live |-> FALSE, type |-> None, home |-> None]
Free == [owner |-> None, size |-> None]

Init ==
  /\ slot = [s \in Slots |-> AbsentSlot]
  /\ object = [o \in Objects |-> Dead]
  /\ heap = [b \in Blocks |-> Free]
  /\ default_resource = Mallocator
  /\ outcome = "running"

Exists(s) == slot[s].state # "absent"
Holds(s) == slot[s].state \in Held

\* The program is running, and s is out of its lifetime, or in it.
Unborn(s) == outcome = "running" /\ ~Exists(s)
Ready(s) == outcome = "running" /\ Exists(s)

-----------------------------------------------------------------------------
(* Using the object of a slot through its function table.                   *)

Displaced(s, objs) ==
  LET o == slot[s].obj
  IN  /\ slot[s].state = "stack"
      /\ objs[o].home # s
      /\ objs[o].type \notin Relocatable

\* What call<Tag>() on slot s does when the objects' lifetimes are objs.
UseOutcome(s, objs) ==
  IF slot[s].table = None THEN "null_table"
  ELSE IF ~Holds(s) THEN "null_object"
  ELSE IF slot[s].obj = None THEN "unbuilt"
  ELSE IF ~objs[slot[s].obj].live THEN "dead_object"
  ELSE IF Displaced(s, objs) THEN "displaced"
  ELSE "running"

Stop(how) ==
  /\ outcome' = how
  /\ UNCHANGED <<slot, object, heap, default_resource>>

\* An exception leaves a noexcept function.
Terminate == Stop("terminated")

-----------------------------------------------------------------------------
(* destructAndDeallocate().                                                 *)

DtorOutcome(s) ==
  LET use == UseOutcome(s, object)
  IN  IF ~Holds(s) THEN "running"
      ELSE IF use = "dead_object" THEN "destroyed_twice" ELSE use

DtorFails(s) == DtorOutcome(s) # "running" /\ Stop(DtorOutcome(s))
DtorWorks(s) == DtorOutcome(s) = "running"

\* Slip: the storage is given up without running the destructor.
DestroyedSkipped(s) == object

Destroyed(s) ==
  IF Holds(s) THEN [object EXCEPT ![slot[s].obj] = Dead] ELSE object

Freed(s) ==
  IF slot[s].state = "fallback"
  THEN [heap EXCEPT ![slot[s].block] = Free]
  ELSE heap
-----------------------------------------------------------------------------
(* Storing an object: allocateBasedOnState followed by placement new.  A    *)
(* form says what is stored where.                                          *)

FormOf(t) ==
  [state |-> IF t \in Inline THEN "stack" ELSE "fallback",
   table |-> t, type |-> t, size |-> t]

CopiedForm(r) ==
  [state |-> slot[r].state, table |-> slot[r].table,
   type |-> slot[r].type, size |-> slot[r].size]

Stored(form, o, v, b, a) ==
  [state |-> form.state, table |-> form.table, type |-> form.type,
   size |-> form.size, obj |-> o, val |-> v, block |-> b, alloc |-> a]

\* An identity that no object alive and no slot but s goes by.
Fresh(o, s, objs) == ~objs[o].live /\ \A r \in Slots \ {s} : slot[r].obj # o

\* s gets storage of the given form, and nothing or the object o in it.
Occupy(s, form, o, v, hp) ==
  \/ /\ form.state = "stack"
     /\ slot' = [slot EXCEPT ![s] = Stored(form, o, v, None, None)]
     /\ heap' = hp
  \/ /\ form.state = "fallback"
     /\ \E b \in Blocks :
          /\ hp[b] = Free
          /\ slot' = [slot EXCEPT ![s] = Stored(form, o, v, b, default_resource)]
          /\ heap' = [hp EXCEPT ![b] = [owner |-> default_resource,
                                        size |-> form.size]]

\* s gets a new object of value v; objs and hp are what the step released.
Construct(s, form, v, objs, hp) ==
  /\ \E o \in Objects :
       /\ Fresh(o, s, objs)
       /\ Occupy(s, form, o, v, hp)
       /\ object' = [objs EXCEPT ![o] =
            [live |-> TRUE, type |-> form.table,
             home |-> IF form.state = "stack" THEN s ELSE None]]
  /\ UNCHANGED <<default_resource, outcome>>

\* The allocation, or the constructor of the object, throws.
MayThrow(form) == form.state = "fallback" \/ form.table \in Throwing

-----------------------------------------------------------------------------
(* Constructors.                                                            *)

\* Slip: no setState in the default constructor, the state is whatever data_m held.
DefaultConstructNoState(s) ==
  /\ Unborn(s)
  /\ slot' = [slot EXCEPT ![s] = Bare("indeterminate", None, None)]
  /\ UNCHANGED <<object, heap, default_resource, outcome>>

DefaultConstruct(s) ==
  /\ Unborn(s)
  /\ slot' = [slot EXCEPT ![s] = EmptySlot(None, None)]
  /\ UNCHANGED <<object, heap, default_resource, outcome>>

Convert(s, t, v) ==
  /\ Unborn(s)
  /\ \/ Construct(s, FormOf(t), v, object, heap)
     \/ MayThrow(FormOf(t)) /\ Terminate

\* Slip: an inline object is copied by its bytes, as a move does.
CopyConstructBytes(s, r) ==
  /\ Unborn(s)
  /\ Ready(r)
  /\ slot[r].state = "stack"
  /\ slot' = [slot EXCEPT ![s] = slot[r]]
  /\ UNCHANGED <<object, heap, default_resource, outcome>>

CopyConstruct(s, r) ==
  /\ Unborn(s)
  /\ Ready(r)
  /\ LET source == UseOutcome(r, object)
     IN  \/ source # "running" /\ Stop(source)
         \/ /\ source = "running"
            /\ \/ Construct(s, CopiedForm(r), slot[r].val, object, heap)
               \/ MayThrow(CopiedForm(r)) /\ Terminate

\* Slip: the source is not marked empty.
MovedFromKept(r) == slot[r]

\* What a move leaves of its source: state empty, the table and type as they were.
MovedFrom(r) == EmptySlot(slot[r].table, slot[r].type)

\* Slip: the source is marked empty before its bytes are copied.
MoveConstructLate(s, r) ==
  /\ Unborn(s)
  /\ Ready(r)
  /\ slot' = [slot EXCEPT ![s] = MovedFrom(r), ![r] = MovedFrom(r)]
  /\ UNCHANGED <<object, heap, default_resource, outcome>>

MoveConstruct(s, r) ==
  /\ Unborn(s)
  /\ Ready(r)
  /\ slot' = [slot EXCEPT ![s] = slot[r], ![r] = MovedFrom(r)]
  /\ UNCHANGED <<object, heap, default_resource, outcome>>

-----------------------------------------------------------------------------
(* Assignments.  Assigning a slot to itself returns at once.                *)

CopyAssign(s, r) ==
  /\ s # r
  /\ Ready(s)
  /\ Ready(r)
  /\ LET source == UseOutcome(r, Destroyed(s))
     IN  \/ DtorFails(s)
         \/ DtorWorks(s) /\ source # "running" /\ Stop(source)
         \/ /\ DtorWorks(s)
            /\ source = "running"
            /\ \/ Construct(s, CopiedForm(r), slot[r].val, Destroyed(s), Freed(s))
               \/ MayThrow(CopiedForm(r)) /\ Terminate

\* Slip: no source is marked empty.
AssignedFromKept(r) == slot[r]

\* Only a source that owns a block is marked empty.
AssignedFrom(r) == IF slot[r].state = "fallback" THEN MovedFrom(r) ELSE slot[r]

\* Slip: type_index_m is not assigned.
MoveAssignStaleType(s, r) ==
  /\ s # r
  /\ Ready(s)
  /\ Ready(r)
  /\ DtorWorks(s)
  /\ slot' = [slot EXCEPT ![s] = [slot[r] EXCEPT !.type = slot[s].type],
                          ![r] = AssignedFrom(r)]
  /\ object' = Destroyed(s)
  /\ heap' = Freed(s)
  /\ UNCHANGED <<default_resource, outcome>>

MoveAssign(s, r) ==
  /\ s # r
  /\ Ready(s)
  /\ Ready(r)
  /\ \/ DtorFails(s)
     \/ /\ DtorWorks(s)
        /\ slot' = [slot EXCEPT ![s] = slot[r], ![r] = AssignedFrom(r)]
        /\ object' = Destroyed(s)
        /\ heap' = Freed(s)
        /\ UNCHANGED <<default_resource, outcome>>

\* operator=(T &&) from an object outside every slot.
AssignValue(s, t, v) ==
  /\ Ready(s)
  /\ \/ DtorFails(s)
     \/ /\ DtorWorks(s)
        /\ \/ Construct(s, FormOf(t), v, Destroyed(s), Freed(s))
           \/ MayThrow(FormOf(t)) /\ Terminate

\* operator=(T &&) from the object held by slot r, reached through data():
\* the old object of s is gone before the new one is read.
AssignHeld(s, r) ==
  /\ Ready(s)
  /\ Holds(r)
  /\ LET source == UseOutcome(r, Destroyed(s))
         form == FormOf(slot[r].table)
     IN  \/ DtorFails(s)
         \/ DtorWorks(s) /\ source # "running" /\ Stop(source)
         \/ /\ DtorWorks(s)
            /\ source = "running"
            /\ \/ Construct(s, form, slot[r].val, Destroyed(s), Freed(s))
               \/ MayThrow(form) /\ Terminate

\* Slip: the old content is overwritten without destructAndDeallocate.
EmplaceOver(s, t, v) ==
  /\ Ready(s)
  /\ Construct(s, FormOf(t), v, object, heap)

\* emplace is noexcept exactly when T's constructor is, so for a throwing type
\* both failures reach the caller, with what was done before them done.
Emplace(s, t, v) ==
  /\ Ready(s)
  /\ \/ DtorFails(s)
     \/ /\ DtorWorks(s)
        /\ Construct(s, FormOf(t), v, Destroyed(s), Freed(s))
     \/ /\ DtorWorks(s)
        /\ t \notin Throwing
        /\ t \notin Inline
        /\ Terminate
     \/ /\ DtorWorks(s)
        /\ t \in Throwing \ Inline
        /\ slot' = [slot EXCEPT ![s] = EmptySlot(t, t)]
        /\ object' = Destroyed(s)
        /\ heap' = Freed(s)
        /\ UNCHANGED <<default_resource, outcome>>
     \/ /\ DtorWorks(s)
        /\ t \in Throwing
        /\ Occupy(s, FormOf(t), None, None, Freed(s))
        /\ object' = Destroyed(s)
        /\ UNCHANGED <<default_resource, outcome>>

-----------------------------------------------------------------------------
(* reset(), the destructor, calls, and the default memory resource.         *)

\* The table is reset first, so destructAndDeallocate calls through a null one.
Reset(s) ==
  /\ Ready(s)
  /\ \/ Holds(s) /\ Stop("null_table")
     \/ /\ ~Holds(s)
        /\ slot' = [slot EXCEPT ![s] = EmptySlot(None, None)]
        /\ UNCHANGED <<object, heap, default_resource, outcome>>

Destruct(s) ==
  /\ Ready(s)
  /\ \/ DtorFails(s)
     \/ /\ DtorWorks(s)
        /\ slot' = [slot EXCEPT ![s] = AbsentSlot]
        /\ object' = Destroyed(s)
        /\ heap' = Freed(s)
        /\ UNCHANGED <<default_resource, outcome>>

\* operator[] and call: a function of the object changes its value.
Call(s, v) ==
  /\ Ready(s)
  /\ Holds(s)
  /\ LET use == UseOutcome(s, object)
     IN  \/ use # "running" /\ Stop(use)
         \/ /\ use = "running"
            /\ slot' = [slot EXCEPT ![s].val = v]
            /\ UNCHANGED <<object, heap, default_resource, outcome>>

SetDefaultMemoryResource(res) ==
  /\ outcome = "running"
  /\ default_resource' = res
  /\ UNCHANGED <<slot, object, heap, outcome>>

-----------------------------------------------------------------------------
(* Any client: every operation on every slot, calls only on non-empty ones. *)

Next ==
  \/ \E s \in Slots :
       \/ DefaultConstruct(s)
       \/ Reset(s)
       \/ Destruct(s)
       \/ \E v \in Values : Call(s, v)
       \/ \E t \in Types, v \in Values :
            \/ Convert(s, t, v)
            \/ AssignValue(s, t, v)
            \/ Emplace(s, t, v)
       \/ \E r \in Slots :
            \/ CopyConstruct(s, r)
            \/ MoveConstruct(s, r)
            \/ CopyAssign(s, r)
            \/ MoveAssign(s, r)
            \/ AssignHeld(s, r)
  \/ \E res \in Resources : SetDefaultMemoryResource(res)

Spec == Init /\ [][Next]_vars

(* A tidy client stays clear of six uses: copying an empty slot, assigning  *)
(* a slot its own content, moving an inline object by assignment or, if     *)
(* its type is not relocatable, at all, resetting a slot that holds         *)
(* something, and emplacing a type whose constructor may throw.             *)

Carried(r) == slot[r].state # "stack" \/ slot[r].type \in Relocatable

TidyNext ==
  \/ \E s \in Slots :
       \/ DefaultConstruct(s)
       \/ ~Holds(s) /\ Reset(s)
       \/ Destruct(s)
       \/ \E v \in Values : Call(s, v)
       \/ \E t \in Types, v \in Values :
            \/ Convert(s, t, v)
            \/ AssignValue(s, t, v)
            \/ t \notin Throwing /\ Emplace(s, t, v)
       \/ \E r \in Slots :
            \/ Holds(r) /\ CopyConstruct(s, r)
            \/ Carried(r) /\ MoveConstruct(s, r)
            \/ Holds(r) /\ CopyAssign(s, r)
            \/ slot[r].state # "stack" /\ MoveAssign(s, r)
            \/ s # r /\ AssignHeld(s, r)
  \/ \E res \in Resources : SetDefaultMemoryResource(res)

TidySpec == Init /\ [][TidyNext]_vars

-----------------------------------------------------------------------------
(* Properties of every client.                                              *)

\* The last two only by calls through a PolymorphicPtr.
Outcomes == {"running", "terminated", "null_table", "null_object", "unbuilt",
             "dead_object", "destroyed_twice", "displaced", "dangling", "wrong_function"}

\* The members have their types, and a slot that holds nothing keeps neither an
\* object nor a block (data_m's bytes count only in the states that use them).
TypeOK ==
  /\ slot \in [Slots -> SlotType]
  /\ object \in [Objects -> [live : BOOLEAN, type : Opt(Types), home : Opt(Slots)]]
  /\ heap \in [Blocks -> [owner : Opt(Resources), size : Opt(Types)]]
  /\ default_resource \in Resources
  /\ outcome \in Outcomes
  /\ \A s \in Slots : ~Holds(s) => slot[s].obj = None /\ slot[s].block = None

\* The heap accounts exactly, whatever the client does, throwing constructors and
\* moved-from slots included: each block handed out is owned by exactly one slot,
\* which will give it back to the resource it came from with the size it asked for,
\* even when the default resource has changed in between.
BlocksHeldOnce ==
  /\ \A s \in Slots : slot[s].state = "fallback" =>
       /\ slot[s].block # None
       /\ slot[s].alloc # None
       /\ heap[slot[s].block] = [owner |-> slot[s].alloc, size |-> slot[s].size]
  /\ \A s, r \in Slots :
       /\ s # r
       /\ slot[s].state = "fallback"
       /\ slot[r].state = "fallback"
       => slot[s].block # slot[r].block
  /\ \A b \in Blocks : heap[b] # Free =>
       \E s \in Slots : slot[s].state = "fallback" /\ slot[s].block = b

\* No object is lost, and one that lives in a block is alive and in no other slot:
\* only inline storage is ever duplicated by a move.
ObjectsAccounted ==
  /\ \A o \in Objects : object[o].live => \E s \in Slots : Holds(s) /\ slot[s].obj = o
  /\ \A s \in Slots : slot[s].state = "fallback" /\ slot[s].obj # None =>
       /\ object[slot[s].obj].live
       /\ \A r \in Slots \ {s} : slot[r].obj # slot[s].obj

\* Table, type index, storage class, recorded size and object agree through every
\* sequence of copies, moves and failures, so call<Tag>() and the destructor run the
\* functions of the object's own type.
Coherent ==
  \A s \in Slots :
    /\ slot[s].table = slot[s].type
    /\ Holds(s) =>
         /\ slot[s].table \in Types
         /\ slot[s].size = slot[s].table
         /\ slot[s].state = "stack" <=> slot[s].table \in Inline
    /\ slot[s].obj # None /\ object[slot[s].obj].live =>
         object[slot[s].obj].type = slot[s].table

\* README: "Polymorphics copy the content on copy construction and copy assignment".
\* A copy that returns has the content of its source in an object of its own, and
\* the source is as it was.
ValueSemantics ==
  [][\A s, r \in Slots :
       (CopyConstruct(s, r) \/ CopyAssign(s, r)) /\ outcome' = "running" =>
         /\ slot'[r] = slot[r]
         /\ slot'[s].table = slot[r].table
         /\ slot'[s].val = slot[r].val
         /\ slot'[s].obj # slot[r].obj
         /\ object'[slot'[s].obj].live]_vars

(* Properties of a tidy client.                                             *)

\* The program runs into nothing undefined: every call and every destructor finds a
\* table, and an object that is alive and at the address it was built at.
WellDefined == outcome \in {"running", "terminated"}

\* Slots that hold something and objects alive correspond one to one.
SoleOwner ==
  /\ \A s \in Slots : Holds(s) => slot[s].obj # None /\ object[slot[s].obj].live
  /\ \A s, r \in Slots : s # r /\ Holds(s) /\ Holds(r) => slot[s].obj # slot[r].obj
  /\ \A o \in Objects : object[o].live => \E s \in Slots : Holds(s) /\ slot[s].obj = o

\* The content of a slot as its user sees it.
Content(s) ==
  IF ~Exists(s) THEN [kind |-> "absent", type |-> None, val |-> None]
  ELSE IF ~Holds(s) THEN [kind |-> "empty", type |-> None, val |-> None]
  ELSE [kind |-> "full", type |-> slot[s].type, val |-> slot[s].val]

Holder == INSTANCE ValueHolder WITH hold <- [s \in Slots |-> Content(s)]

\* For a tidy client the buffer, the blocks and the bytewise moves implement plain
\* values: no operation is visible in another slot, a moved-from slot is empty.
ImplementsValueHolder == Holder!Spec

\* Each operation that returns to a tidy client does what the operation of its name
\* does to plain values: a copy duplicates, a move transfers and empties its source, an
\* assignment from the object of another slot copies it.
OperationByOperation ==
  [][outcome' = "running" =>
       \A s \in Slots :
         /\ DefaultConstruct(s) => Holder!Create(s)
         /\ Reset(s) => Holder!Clear(s)
         /\ Destruct(s) => Holder!Drop(s)
         /\ \A v \in Values : Call(s, v) => Holder!Mutate(s, v)
         /\ \A r \in Slots :
              /\ CopyConstruct(s, r) \/ CopyAssign(s, r) \/ AssignHeld(s, r) => Holder!Copy(s, r)
              /\ MoveConstruct(s, r) \/ MoveAssign(s, r) => Holder!Move(s, r)]_vars

(* What the code says of itself, and does not keep.                         *)

\* polymorphic.hpp:133: the source of a move is made empty "to prevent from
\* deallocating/destructing in destructor".
DestroyedOnce == outcome # "destroyed_twice"

=============================================================================
