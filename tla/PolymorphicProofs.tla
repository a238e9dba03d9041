------------------------- MODULE PolymorphicProofs -------------------------
(***************************************************************************)
(* Polymorphic and PolymorphicPtr, for every set of slots, types, blocks,  *)
(* resources, pointers and every client, in three parts.                   *)
(*                                                                         *)
(* Types.  The state of Polymorphic is well typed and its heap accounts    *)
(* exactly.                                                                *)
(*                                                                         *)
(* Ownership.  Who owns the blocks and the objects; table, type, storage   *)
(* and object agree; and, for a tidy client, all of it implements plain    *)
(* values.  Every step of every client has one of six shapes; each         *)
(* invariant is then shown to survive each shape.  ObjectsAccounted needs  *)
(* nothing but TypeOK; it is what makes an object in a block safe, since   *)
(* only inline bytes are ever duplicated.  A tidy client does not          *)
(* duplicate those either, so each slot owns its object, and what is seen  *)
(* of the slots changes as in ValueHolder.                                 *)
(*                                                                         *)
(* Pointers.  Which functions a PolymorphicPtr finds, for any classes of   *)
(* pointers and any Polymorphics they are made from: the members are       *)
(* typed, no position leads beyond the array, the functions are those of   *)
(* the type index, and a pointer made for an object in a block finds it    *)
(* there while it lives.  The Polymorphics keep Ownership whatever is      *)
(* called through the pointers.                                            *)
(***************************************************************************)
EXTENDS PolymorphicPtr, TLAPS

\* The forms in which a step may store something.
FormType == [state : Held, table : Types, type : Opt(Types), size : Opt(Types)]

ObjectType == [live : BOOLEAN, type : Opt(Types), home : Opt(Slots)]
HeapType == [owner : Opt(Resources), size : Opt(Types)]

\* The last conjunct of TypeOK: a slot that holds nothing keeps nothing.
BareOK == \A s \in Slots : ~Holds(s) => slot[s].obj = None /\ slot[s].block = None

-----------------------------------------------------------------------------
(* Lemmas about the helpers.                                                *)

\* A form made for a type is one a step may store.
LEMMA FormOfType == ASSUME NEW t \in Types PROVE FormOf(t) \in FormType
  BY DEF FormOf, FormType, Held, Opt

\* A form copied from a slot whose copy function can be called is one too.
LEMMA CopiedFormType ==
  ASSUME TypeOK, NEW r \in Slots, NEW objs, UseOutcome(r, objs) = "running"
  PROVE  CopiedForm(r) \in FormType
  BY DEF CopiedForm, FormType, UseOutcome, TypeOK, SlotType, Held, Holds, Opt

\* What a release leaves is typed, and when the destructor works it is applied to an
\* object.
LEMMA ReleasedType ==
  ASSUME TypeOK, NEW s \in Slots, DtorWorks(s)
  PROVE  /\ Destroyed(s) \in [Objects -> ObjectType]
         /\ Freed(s) \in [Blocks -> HeapType]
         /\ Holds(s) => slot[s].obj \in Objects
  <1>1. Dead \in ObjectType /\ Free \in HeapType
    BY DEF Dead, Free, ObjectType, HeapType, Opt
  <1>2. Holds(s) => slot[s].obj \in Objects
    BY DEF DtorWorks, DtorOutcome, UseOutcome, TypeOK, SlotType, Opt
  <1>3. Destroyed(s) \in [Objects -> ObjectType]
    BY <1>1, <1>2 DEF Destroyed, TypeOK, ObjectType
  <1>4. Freed(s) \in [Blocks -> HeapType]
    BY <1>1 DEF Freed, TypeOK, HeapType
  <1>. QED BY <1>2, <1>3, <1>4

LEMMA StoredType ==
  ASSUME NEW form \in FormType, NEW o \in Opt(Objects), NEW v \in Opt(Values),
         NEW b \in Opt(Blocks), NEW a \in Opt(Resources)
  PROVE  Stored(form, o, v, b, a) \in SlotType
  BY DEF FormType, Stored, SlotType, Held, Opt

LEMMA EmptySlotType ==
  ASSUME NEW table \in Opt(Types), NEW type \in Opt(Types)
  PROVE  EmptySlot(table, type) \in SlotType
  BY DEF EmptySlot, Bare, SlotType, Held, Opt

LEMMA AbsentSlotType == AbsentSlot \in SlotType
  BY DEF AbsentSlot, Bare, SlotType, Held, Opt

LEMMA OccupyType ==
  ASSUME TypeOK, NEW s \in Slots, NEW form \in FormType, NEW o \in Opt(Objects),
         NEW v \in Opt(Values), NEW hp \in [Blocks -> HeapType],
         Occupy(s, form, o, v, hp)
  PROVE  /\ slot' \in [Slots -> SlotType]
         /\ heap' \in [Blocks -> HeapType]
         /\ BareOK'
  <1>1. CASE form.state = "stack"
    <2>1. Stored(form, o, v, None, None) \in SlotType
      BY StoredType DEF Opt
    <2>2. slot' = [slot EXCEPT ![s] = Stored(form, o, v, None, None)] /\ heap' = hp
      BY <1>1 DEF Occupy
    <2>. QED BY <1>1, <2>1, <2>2 DEF TypeOK, BareOK, Holds, Held, Stored
  <1>2. CASE form.state = "fallback"
    <2>1. PICK b \in Blocks :
             /\ slot' = [slot EXCEPT ![s] = Stored(form, o, v, b, default_resource)]
             /\ heap' = [hp EXCEPT ![b] = [owner |-> default_resource,
                                           size |-> form.size]]
      BY <1>2 DEF Occupy
    <2>2. Stored(form, o, v, b, default_resource) \in SlotType
      BY StoredType DEF Opt, TypeOK
    <2>3. [owner |-> default_resource, size |-> form.size] \in HeapType
      BY DEF HeapType, FormType, TypeOK, Opt
    <2>. QED BY <1>2, <2>1, <2>2, <2>3 DEF TypeOK, BareOK, Holds, Held, Stored
  <1>. QED BY <1>1, <1>2 DEF FormType, Held

LEMMA ConstructType ==
  ASSUME TypeOK, NEW s \in Slots, NEW form \in FormType, NEW v \in Opt(Values),
         NEW objs \in [Objects -> ObjectType], NEW hp \in [Blocks -> HeapType],
         Construct(s, form, v, objs, hp)
  PROVE  TypeOK'
  <1>1. PICK o \in Objects :
           /\ Occupy(s, form, o, v, hp)
           /\ object' = [objs EXCEPT ![o] =
                [live |-> TRUE, type |-> form.table,
                 home |-> IF form.state = "stack" THEN s ELSE None]]
    BY DEF Construct
  <1>2. slot' \in [Slots -> SlotType] /\ heap' \in [Blocks -> HeapType] /\ BareOK'
    BY <1>1, OccupyType DEF Opt
  <1>3. [live |-> TRUE, type |-> form.table,
         home |-> IF form.state = "stack" THEN s ELSE None] \in ObjectType
    BY DEF ObjectType, FormType, Opt
  <1>4. object' \in [Objects -> ObjectType]
    BY <1>1, <1>3
  <1>5. default_resource' \in Resources /\ outcome' \in Outcomes
    BY DEF Construct, TypeOK
  <1>. QED BY <1>2, <1>4, <1>5 DEF TypeOK, BareOK, ObjectType, HeapType

\* Stopping changes nothing but the outcome.
LEMMA StopType ==
  ASSUME TypeOK, NEW how \in Outcomes, Stop(how)
  PROVE  TypeOK'
  BY DEF Stop, TypeOK, Holds

LEMMA TerminateType == ASSUME TypeOK, Terminate PROVE TypeOK'
  BY StopType DEF Terminate, Outcomes

LEMMA UseOutcomeType ==
  ASSUME NEW s, NEW objs
  PROVE  UseOutcome(s, objs) \in Outcomes
  BY DEF UseOutcome, Outcomes

LEMMA DtorFailsType == ASSUME TypeOK, NEW s, DtorFails(s) PROVE TypeOK'
  BY StopType, UseOutcomeType DEF DtorFails, DtorOutcome, Outcomes

\* A slot is replaced by a bare one, after a release of it or in place.
LEMMA BareType ==
  ASSUME TypeOK, NEW s \in Slots, NEW x \in SlotType,
         x.state \notin Held, x.obj = None, x.block = None,
         slot' = [slot EXCEPT ![s] = x],
         object' \in [Objects -> ObjectType], heap' \in [Blocks -> HeapType],
         UNCHANGED <<default_resource, outcome>>
  PROVE  TypeOK'
  BY DEF TypeOK, Holds, ObjectType, HeapType

-----------------------------------------------------------------------------
(* Type correctness, one lemma per group of actions.                        *)

LEMMA TypeConstructors ==
  ASSUME TypeOK, NEW s \in Slots
  PROVE  /\ DefaultConstruct(s) => TypeOK'
         /\ \A t \in Types, v \in Values : Convert(s, t, v) => TypeOK'
         /\ \A r \in Slots : CopyConstruct(s, r) => TypeOK'
         /\ \A r \in Slots : MoveConstruct(s, r) => TypeOK'
  <1>0. object \in [Objects -> ObjectType] /\ heap \in [Blocks -> HeapType]
    BY DEF TypeOK, ObjectType, HeapType
  <1>1. ASSUME DefaultConstruct(s) PROVE TypeOK'
    <2>1. EmptySlot(None, None) \in SlotType
      BY EmptySlotType DEF Opt
    <2>. QED BY <1>0, <1>1, <2>1, BareType DEF DefaultConstruct, EmptySlot, Bare, Held
  <1>2. ASSUME NEW t \in Types, NEW v \in Values, Convert(s, t, v) PROVE TypeOK'
    <2>1. CASE Construct(s, FormOf(t), v, object, heap)
      BY <1>0, <2>1, FormOfType, ConstructType DEF Opt
    <2>. QED BY <1>2, <2>1, TerminateType DEF Convert
  <1>3. ASSUME NEW r \in Slots, CopyConstruct(s, r) PROVE TypeOK'
    <2>1. CASE Stop(UseOutcome(r, object))
      BY <2>1, StopType, UseOutcomeType
    <2>2. CASE /\ UseOutcome(r, object) = "running"
               /\ Construct(s, CopiedForm(r), slot[r].val, object, heap)
      <3>1. CopiedForm(r) \in FormType /\ slot[r].val \in Opt(Values)
        BY <2>2, CopiedFormType DEF TypeOK, SlotType
      <3>. QED BY <1>0, <2>2, <3>1, ConstructType
    <2>. QED BY <1>3, <2>1, <2>2, TerminateType DEF CopyConstruct
  <1>4. ASSUME NEW r \in Slots, MoveConstruct(s, r) PROVE TypeOK'
    <2>1. MovedFrom(r) \in SlotType
      BY EmptySlotType DEF MovedFrom, TypeOK, SlotType
    <2>. QED BY <1>4, <2>1 DEF MoveConstruct, TypeOK, Holds, MovedFrom, EmptySlot, Bare, Held
  <1>. QED BY <1>1, <1>2, <1>3, <1>4

LEMMA TypeAssignments ==
  ASSUME TypeOK, NEW s \in Slots
  PROVE  /\ \A r \in Slots : CopyAssign(s, r) => TypeOK'
         /\ \A r \in Slots : MoveAssign(s, r) => TypeOK'
         /\ \A t \in Types, v \in Values : AssignValue(s, t, v) => TypeOK'
         /\ \A r \in Slots : AssignHeld(s, r) => TypeOK'
  <1>1. ASSUME NEW form \in FormType, NEW v \in Opt(Values), DtorWorks(s),
               Construct(s, form, v, Destroyed(s), Freed(s))
        PROVE  TypeOK'
    BY <1>1, ReleasedType, ConstructType
  <1>2. ASSUME NEW r \in Slots, CopyAssign(s, r) PROVE TypeOK'
    <2>1. CASE Stop(UseOutcome(r, Destroyed(s)))
      BY <2>1, StopType, UseOutcomeType
    <2>2. CASE /\ DtorWorks(s)
               /\ UseOutcome(r, Destroyed(s)) = "running"
               /\ Construct(s, CopiedForm(r), slot[r].val, Destroyed(s), Freed(s))
      <3>1. CopiedForm(r) \in FormType /\ slot[r].val \in Opt(Values)
        BY <2>2, CopiedFormType DEF TypeOK, SlotType
      <3>. QED BY <1>1, <2>2, <3>1
    <2>. QED BY <1>2, <2>1, <2>2, TerminateType, DtorFailsType DEF CopyAssign
  <1>3. ASSUME NEW r \in Slots, MoveAssign(s, r) PROVE TypeOK'
    <2>1. CASE DtorFails(s)
      BY <2>1, DtorFailsType
    <2>2. CASE /\ DtorWorks(s)
               /\ slot' = [slot EXCEPT ![s] = slot[r], ![r] = AssignedFrom(r)]
               /\ object' = Destroyed(s)
               /\ heap' = Freed(s)
               /\ UNCHANGED <<default_resource, outcome>>
      <3>1. /\ AssignedFrom(r) \in SlotType
            /\ AssignedFrom(r).state \notin Held =>
                 AssignedFrom(r).obj = None /\ AssignedFrom(r).block = None
        BY EmptySlotType
           DEF AssignedFrom, MovedFrom, EmptySlot, Bare, TypeOK, SlotType, Holds
      <3>2. slot' \in [Slots -> SlotType] /\ BareOK'
        BY <2>2, <3>1 DEF TypeOK, BareOK, Holds
      <3>3. object' \in [Objects -> ObjectType] /\ heap' \in [Blocks -> HeapType]
        BY <2>2, ReleasedType
      <3>. QED BY <2>2, <3>2, <3>3 DEF TypeOK, BareOK, ObjectType, HeapType
    <2>. QED BY <1>3, <2>1, <2>2 DEF MoveAssign
  <1>4. ASSUME NEW t \in Types, NEW v \in Values, AssignValue(s, t, v) PROVE TypeOK'
    <2>1. FormOf(t) \in FormType /\ v \in Opt(Values)
      BY FormOfType DEF Opt
    <2>. QED BY <1>1, <1>4, <2>1, TerminateType, DtorFailsType DEF AssignValue
  <1>5. ASSUME NEW r \in Slots, AssignHeld(s, r) PROVE TypeOK'
    <2>1. CASE Stop(UseOutcome(r, Destroyed(s)))
      BY <2>1, StopType, UseOutcomeType
    <2>2. CASE /\ DtorWorks(s)
               /\ UseOutcome(r, Destroyed(s)) = "running"
               /\ Construct(s, FormOf(slot[r].table), slot[r].val, Destroyed(s), Freed(s))
      <3>1. slot[r].table \in Types /\ slot[r].val \in Opt(Values)
        BY <2>2 DEF UseOutcome, TypeOK, SlotType, Opt
      <3>. QED BY <1>1, <2>2, <3>1, FormOfType
    <2>. QED BY <1>5, <2>1, <2>2, TerminateType, DtorFailsType DEF AssignHeld
  <1>. QED BY <1>2, <1>3, <1>4, <1>5

LEMMA TypeOthers ==
  ASSUME TypeOK, NEW s \in Slots
  PROVE  /\ \A t \in Types, v \in Values : Emplace(s, t, v) => TypeOK'
         /\ Reset(s) => TypeOK'
         /\ Destruct(s) => TypeOK'
         /\ \A v \in Values : Call(s, v) => TypeOK'
  <1>0. object \in [Objects -> ObjectType] /\ heap \in [Blocks -> HeapType]
    BY DEF TypeOK, ObjectType, HeapType
  <1>1. ASSUME NEW t \in Types, NEW v \in Values, Emplace(s, t, v) PROVE TypeOK'
    <2>0. FormOf(t) \in FormType /\ v \in Opt(Values) /\ None \in Opt(Values)
          /\ None \in Opt(Objects)
      BY FormOfType DEF Opt
    <2>1. CASE DtorFails(s) \/ Terminate
      BY <2>1, TerminateType, DtorFailsType
    <2>2. CASE DtorWorks(s) /\ Construct(s, FormOf(t), v, Destroyed(s), Freed(s))
      BY <2>0, <2>2, ReleasedType, ConstructType
    <2>3. CASE /\ DtorWorks(s)
               /\ slot' = [slot EXCEPT ![s] = EmptySlot(t, t)]
               /\ object' = Destroyed(s)
               /\ heap' = Freed(s)
               /\ UNCHANGED <<default_resource, outcome>>
      <3>1. EmptySlot(t, t) \in SlotType
        BY EmptySlotType DEF Opt
      <3>. QED BY <2>3, <3>1, ReleasedType, BareType DEF EmptySlot, Bare, Held
    <2>4. CASE /\ DtorWorks(s)
               /\ Occupy(s, FormOf(t), None, None, Freed(s))
               /\ object' = Destroyed(s)
               /\ UNCHANGED <<default_resource, outcome>>
      <3>1. slot' \in [Slots -> SlotType] /\ heap' \in [Blocks -> HeapType] /\ BareOK'
        BY <2>0, <2>4, ReleasedType, OccupyType
      <3>2. object' \in [Objects -> ObjectType]
        BY <2>4, ReleasedType
      <3>. QED BY <2>4, <3>1, <3>2 DEF TypeOK, BareOK, ObjectType, HeapType
    <2>. QED BY <1>1, <2>1, <2>2, <2>3, <2>4 DEF Emplace
  <1>2. ASSUME Reset(s) PROVE TypeOK'
    <2>1. EmptySlot(None, None) \in SlotType /\ "null_table" \in Outcomes
      BY EmptySlotType DEF Opt, Outcomes
    <2>2. CASE Stop("null_table")
      BY <2>1, <2>2, StopType
    <2>3. CASE slot' = [slot EXCEPT ![s] = EmptySlot(None, None)]
               /\ UNCHANGED <<object, heap, default_resource, outcome>>
      BY <1>0, <2>1, <2>3, BareType DEF EmptySlot, Bare, Held
    <2>. QED BY <1>2, <2>2, <2>3 DEF Reset
  <1>3. ASSUME Destruct(s) PROVE TypeOK'
    <2>1. CASE /\ DtorWorks(s)
               /\ slot' = [slot EXCEPT ![s] = AbsentSlot]
               /\ object' = Destroyed(s)
               /\ heap' = Freed(s)
               /\ UNCHANGED <<default_resource, outcome>>
      BY <2>1, AbsentSlotType, ReleasedType, BareType DEF AbsentSlot, Bare, Held
    <2>. QED BY <1>3, <2>1, DtorFailsType DEF Destruct
  <1>4. ASSUME NEW v \in Values, Call(s, v) PROVE TypeOK'
    <2>1. CASE Stop(UseOutcome(s, object))
      BY <2>1, StopType, UseOutcomeType
    <2>2. CASE slot' = [slot EXCEPT ![s].val = v]
               /\ UNCHANGED <<object, heap, default_resource, outcome>>
      BY <2>2 DEF TypeOK, SlotType, Opt, Holds
    <2>. QED BY <1>4, <2>1, <2>2 DEF Call
  <1>. QED BY <1>1, <1>2, <1>3, <1>4

LEMMA TypeInit == Init => TypeOK
  BY SetsAssumption, AbsentSlotType
     DEF Init, TypeOK, Outcomes, Dead, Free, Opt, AbsentSlot, Bare

LEMMA TypeStep == TypeOK /\ [Next]_vars => TypeOK'
  <1> SUFFICES ASSUME TypeOK, [Next]_vars PROVE TypeOK'
    OBVIOUS
  <1>1. CASE Next
    <2>1. ASSUME NEW res \in Resources, SetDefaultMemoryResource(res) PROVE TypeOK'
      BY <2>1 DEF SetDefaultMemoryResource, TypeOK, Holds
    <2>. QED BY <1>1, <2>1, TypeConstructors, TypeAssignments, TypeOthers DEF Next
  <1>2. CASE UNCHANGED vars
    BY <1>2 DEF vars, TypeOK, Holds
  <1>. QED BY <1>1, <1>2

\* The members of every slot, the objects, the heap and the outcome have their types
\* in every state of every client (all of polymorphic.hpp).
THEOREM TypeCorrect == Spec => []TypeOK
  BY TypeInit, TypeStep, PTL DEF Spec

-----------------------------------------------------------------------------
(* Ownership.                                                               *)

\* Forms whose members agree, as FormOf makes them.
CoherentForm ==
  {form \in FormType :
     /\ form.type = form.table
     /\ form.size = form.table
     /\ form.state = "stack" <=> form.table \in Inline}

BareSlot == {x \in SlotType : /\ x.state \notin Held
                              /\ x.obj = None
                              /\ x.block = None
                              /\ x.type = x.table}

Release(s) == DtorWorks(s) /\ object' = Destroyed(s) /\ heap' = Freed(s)

\* The six shapes.
Quiet == UNCHANGED <<slot, object, heap>>
Builds(s, form) ==
  /\ DtorWorks(s)
  /\ \E v \in Opt(Values) : Construct(s, form, v, Destroyed(s), Freed(s))
LeavesUnbuilt(s, form) ==
  /\ DtorWorks(s)
  /\ Occupy(s, form, None, None, Freed(s))
  /\ object' = Destroyed(s)
Clears(s, x) == Release(s) /\ slot' = [slot EXCEPT ![s] = x]
Transfers(s, r, x) ==
  /\ s # r
  /\ Release(s)
  /\ slot' = [slot EXCEPT ![s] = slot[r], ![r] = x]
Writes(s, v) ==
  /\ slot' = [slot EXCEPT ![s].val = v]
  /\ UNCHANGED <<object, heap>>

\* What a transfer leaves at its source.
Remains(r) == BareSlot \cup (IF slot[r].state = "fallback" THEN {} ELSE {slot[r]})

Shape ==
  \/ Quiet
  \/ \E s \in Slots, form \in CoherentForm : Builds(s, form) \/ LeavesUnbuilt(s, form)
  \/ \E s \in Slots, x \in BareSlot : Clears(s, x)
  \/ \E s, r \in Slots : \E x \in Remains(r) : Transfers(s, r, x)
  \/ \E s \in Slots, v \in Values : Writes(s, v)

-----------------------------------------------------------------------------
(* Every step has a shape.                                                  *)

LEMMA CoherentFormOf == ASSUME NEW t \in Types PROVE FormOf(t) \in CoherentForm
  BY FormOfType DEF CoherentForm, FormOf

LEMMA CoherentCopiedForm ==
  ASSUME TypeOK, Coherent, NEW r \in Slots, NEW objs, UseOutcome(r, objs) = "running"
  PROVE  CopiedForm(r) \in CoherentForm
  <1>1. CopiedForm(r) \in FormType /\ Holds(r)
    BY CopiedFormType DEF UseOutcome
  <1>. QED BY <1>1 DEF CoherentForm, CopiedForm, Coherent

\* Out of its lifetime or empty, a slot has nothing to release.
LEMMA NothingToRelease ==
  ASSUME TypeOK, NEW s \in Slots, ~Holds(s)
  PROVE  DtorWorks(s) /\ Destroyed(s) = object /\ Freed(s) = heap
  BY DEF DtorWorks, DtorOutcome, Destroyed, Freed, Holds, Held

LEMMA MovedFromBare ==
  ASSUME TypeOK, Coherent, NEW r \in Slots
  PROVE  MovedFrom(r) \in BareSlot
  BY EmptySlotType DEF MovedFrom, BareSlot, EmptySlot, Bare, Held, TypeOK, SlotType, Coherent

LEMMA EmptyBare ==
  ASSUME NEW t \in Opt(Types)
  PROVE  EmptySlot(t, t) \in BareSlot
  BY EmptySlotType DEF BareSlot, EmptySlot, Bare, Held

LEMMA AbsentBare == AbsentSlot \in BareSlot
  BY AbsentSlotType DEF AbsentSlot, BareSlot, Bare, Held

LEMMA ConstructorShape ==
  ASSUME TypeOK, Coherent, NEW s \in Slots,
         \/ DefaultConstruct(s)
         \/ \E t \in Types, v \in Values : Convert(s, t, v)
         \/ \E r \in Slots : CopyConstruct(s, r) \/ MoveConstruct(s, r)
  PROVE  Shape
  <1>0. ~Holds(s)
    BY DEF DefaultConstruct, Convert, CopyConstruct, MoveConstruct, Unborn, Exists, Holds, Held
  <1>1. CASE DefaultConstruct(s)
    <2>1. EmptySlot(None, None) \in BareSlot
      BY EmptyBare DEF Opt
    <2>2. Clears(s, EmptySlot(None, None))
      BY <1>0, <1>1, NothingToRelease DEF DefaultConstruct, Clears, Release
    <2>. QED BY <2>1, <2>2 DEF Shape
  <1>2. ASSUME NEW t \in Types, NEW v \in Values, Convert(s, t, v) PROVE Shape
    <2>1. CASE Construct(s, FormOf(t), v, object, heap)
      <3>1. Builds(s, FormOf(t))
        BY <1>0, <2>1, NothingToRelease DEF Builds, Opt
      <3>. QED BY <3>1, CoherentFormOf DEF Shape
    <2>. QED BY <1>2, <2>1 DEF Convert, Terminate, Stop, Shape, Quiet
  <1>3. ASSUME NEW r \in Slots, CopyConstruct(s, r) PROVE Shape
    <2>1. CASE /\ UseOutcome(r, object) = "running"
               /\ Construct(s, CopiedForm(r), slot[r].val, object, heap)
      <3>1. slot[r].val \in Opt(Values)
        BY DEF TypeOK, SlotType
      <3>2. Builds(s, CopiedForm(r))
        BY <1>0, <2>1, <3>1, NothingToRelease DEF Builds
      <3>. QED BY <2>1, <3>2, CoherentCopiedForm DEF Shape
    <2>. QED BY <1>3, <2>1 DEF CopyConstruct, Terminate, Stop, Shape, Quiet
  <1>4. ASSUME NEW r \in Slots, MoveConstruct(s, r) PROVE Shape
    <2>1. s # r
      BY <1>4 DEF MoveConstruct, Unborn, Ready
    <2>2. Transfers(s, r, MovedFrom(r))
      BY <1>0, <1>4, <2>1, NothingToRelease DEF MoveConstruct, Transfers, Release
    <2>. QED BY <2>2, MovedFromBare DEF Shape, Remains
  <1>. QED BY <1>1, <1>2, <1>3, <1>4

LEMMA AssignmentShape ==
  ASSUME TypeOK, Coherent, NEW s \in Slots,
         \/ \E r \in Slots : CopyAssign(s, r) \/ MoveAssign(s, r) \/ AssignHeld(s, r)
         \/ \E t \in Types, v \in Values : AssignValue(s, t, v)
  PROVE  Shape
  <1>1. ASSUME NEW r \in Slots, CopyAssign(s, r) PROVE Shape
    <2>1. CASE /\ DtorWorks(s)
               /\ UseOutcome(r, Destroyed(s)) = "running"
               /\ Construct(s, CopiedForm(r), slot[r].val, Destroyed(s), Freed(s))
      <3>1. Builds(s, CopiedForm(r))
        BY <2>1 DEF Builds, TypeOK, SlotType
      <3>. QED BY <2>1, <3>1, CoherentCopiedForm DEF Shape
    <2>. QED BY <1>1, <2>1 DEF CopyAssign, DtorFails, Terminate, Stop, Shape, Quiet
  <1>2. ASSUME NEW r \in Slots, MoveAssign(s, r) PROVE Shape
    <2>1. CASE DtorWorks(s)
      <3>1. Transfers(s, r, AssignedFrom(r))
        BY <1>2, <2>1 DEF MoveAssign, Transfers, Release, DtorFails, DtorWorks
      <3>2. AssignedFrom(r) \in Remains(r)
        BY MovedFromBare DEF AssignedFrom, Remains
      <3>. QED BY <3>1, <3>2 DEF Shape
    <2>. QED BY <1>2, <2>1 DEF MoveAssign, DtorFails, Stop, Shape, Quiet
  <1>3. ASSUME NEW r \in Slots, AssignHeld(s, r) PROVE Shape
    <2>1. CASE /\ DtorWorks(s)
               /\ UseOutcome(r, Destroyed(s)) = "running"
               /\ Construct(s, FormOf(slot[r].table), slot[r].val, Destroyed(s), Freed(s))
      <3>1. Builds(s, FormOf(slot[r].table))
        BY <2>1 DEF Builds, TypeOK, SlotType
      <3>2. slot[r].table \in Types
        BY <2>1 DEF UseOutcome, TypeOK, SlotType, Opt
      <3>. QED BY <3>1, <3>2, CoherentFormOf DEF Shape
    <2>. QED BY <1>3, <2>1 DEF AssignHeld, DtorFails, Terminate, Stop, Shape, Quiet
  <1>4. ASSUME NEW t \in Types, NEW v \in Values, AssignValue(s, t, v) PROVE Shape
    <2>1. CASE DtorWorks(s) /\ Construct(s, FormOf(t), v, Destroyed(s), Freed(s))
      <3>1. Builds(s, FormOf(t))
        BY <2>1 DEF Builds, Opt
      <3>. QED BY <3>1, CoherentFormOf DEF Shape
    <2>. QED BY <1>4, <2>1 DEF AssignValue, DtorFails, Terminate, Stop, Shape, Quiet
  <1>. QED BY <1>1, <1>2, <1>3, <1>4

LEMMA OtherShape ==
  ASSUME TypeOK, Coherent, NEW s \in Slots,
         \/ \E t \in Types, v \in Values : Emplace(s, t, v)
         \/ Reset(s)
         \/ Destruct(s)
         \/ \E v \in Values : Call(s, v)
  PROVE  Shape
  <1>1. ASSUME NEW t \in Types, NEW v \in Values, Emplace(s, t, v) PROVE Shape
    <2>1. CASE DtorWorks(s) /\ Construct(s, FormOf(t), v, Destroyed(s), Freed(s))
      <3>1. Builds(s, FormOf(t))
        BY <2>1 DEF Builds, Opt
      <3>. QED BY <3>1, CoherentFormOf DEF Shape
    <2>2. CASE /\ DtorWorks(s)
               /\ slot' = [slot EXCEPT ![s] = EmptySlot(t, t)]
               /\ object' = Destroyed(s)
               /\ heap' = Freed(s)
      <3>1. Clears(s, EmptySlot(t, t)) /\ EmptySlot(t, t) \in BareSlot
        BY <2>2, EmptyBare DEF Clears, Release, Opt
      <3>. QED BY <3>1 DEF Shape
    <2>3. CASE /\ DtorWorks(s)
               /\ Occupy(s, FormOf(t), None, None, Freed(s))
               /\ object' = Destroyed(s)
      <3>1. LeavesUnbuilt(s, FormOf(t))
        BY <2>3 DEF LeavesUnbuilt
      <3>. QED BY <3>1, CoherentFormOf DEF Shape
    <2>. QED BY <1>1, <2>1, <2>2, <2>3 DEF Emplace, DtorFails, Terminate, Stop, Shape, Quiet
  <1>2. ASSUME Reset(s) PROVE Shape
    <2>1. CASE ~Holds(s)
      <3>1. EmptySlot(None, None) \in BareSlot
        BY EmptyBare DEF Opt
      <3>2. Clears(s, EmptySlot(None, None))
        BY <1>2, <2>1, NothingToRelease DEF Reset, Clears, Release
      <3>. QED BY <3>1, <3>2 DEF Shape
    <2>. QED BY <1>2, <2>1 DEF Reset, Stop, Shape, Quiet
  <1>3. ASSUME Destruct(s) PROVE Shape
    <2>1. CASE DtorWorks(s)
      <3>1. Clears(s, AbsentSlot)
        BY <1>3, <2>1 DEF Destruct, Clears, Release, DtorFails, DtorWorks
      <3>. QED BY <3>1, AbsentBare DEF Shape
    <2>. QED BY <1>3, <2>1 DEF Destruct, DtorFails, Stop, Shape, Quiet
  <1>4. ASSUME NEW v \in Values, Call(s, v) PROVE Shape
    BY <1>4 DEF Call, Stop, Shape, Quiet, Writes
  <1>. QED BY <1>1, <1>2, <1>3, <1>4

LEMMA StepShape == ASSUME TypeOK, Coherent, [Next]_vars PROVE Shape
  <1>1. CASE Next
    BY <1>1, ConstructorShape, AssignmentShape, OtherShape
       DEF Next, SetDefaultMemoryResource, Shape, Quiet
  <1>2. CASE UNCHANGED vars
    BY <1>2 DEF vars, Shape, Quiet
  <1>. QED BY <1>1, <1>2

-----------------------------------------------------------------------------
(* What the shapes do to the slots.                                         *)

\* Occupying gives s the form and o, in the buffer or in a block free so far.
LEMMA OccupyEffect ==
  ASSUME TypeOK, NEW s \in Slots, NEW form \in FormType, NEW o, NEW v, NEW hp,
         Occupy(s, form, o, v, hp)
  PROVE  /\ \A r \in Slots \ {s} : slot'[r] = slot[r]
         /\ slot'[s].state = form.state
         /\ slot'[s].table = form.table
         /\ slot'[s].type = form.type
         /\ slot'[s].size = form.size
         /\ slot'[s].obj = o
  <1>1. PICK b, a : slot' = [slot EXCEPT ![s] = Stored(form, o, v, b, a)]
    BY DEF Occupy
  <1>. QED BY <1>1 DEF Stored, TypeOK

\* The heap then records the block and its owner, or is as it was.
LEMMA OccupyHeap ==
  ASSUME TypeOK, NEW s \in Slots, NEW form \in FormType, NEW o, NEW v, NEW hp,
         Occupy(s, form, o, v, hp)
  PROVE  \/ form.state = "stack" /\ heap' = hp
         \/ /\ form.state = "fallback"
            /\ slot'[s].block \in Blocks
            /\ hp[slot'[s].block] = Free
            /\ slot'[s].alloc = default_resource
            /\ heap' = [hp EXCEPT ![slot'[s].block] =
                          [owner |-> default_resource, size |-> form.size]]
  BY DEF Occupy, Stored, TypeOK

-----------------------------------------------------------------------------
(* The blocks.                                                              *)

\* A release of s leaves the blocks of the other slots allocated as they were.
LEMMA FreedKeeps ==
  ASSUME TypeOK, BlocksHeldOnce, NEW s \in Slots, NEW r \in Slots, r # s,
         slot[r].state = "fallback"
  PROVE  /\ slot[r].block \in Blocks
         /\ Freed(s)[slot[r].block] = [owner |-> slot[r].alloc, size |-> slot[r].size]
         /\ Freed(s)[slot[r].block] # Free
  <1>1. slot[r].block \in Blocks
    <2>1. slot[r].block # None
      BY DEF BlocksHeldOnce
    <2>2. slot[r] \in SlotType
      BY DEF TypeOK
    <2>. QED BY <2>1, <2>2 DEF SlotType, Opt
  <1>2. Freed(s)[slot[r].block] = heap[slot[r].block]
    <2>1. CASE slot[s].state = "fallback"
      <3>1. slot[s].block # slot[r].block
        BY <2>1 DEF BlocksHeldOnce
      <3>. QED BY <1>1, <2>1, <3>1 DEF Freed, TypeOK
    <2>2. CASE slot[s].state # "fallback"
      BY <2>2 DEF Freed
    <2>. QED BY <2>1, <2>2
  <1>3. /\ heap[slot[r].block] = [owner |-> slot[r].alloc, size |-> slot[r].size]
        /\ slot[r].alloc # None
    BY DEF BlocksHeldOnce
  <1>4. [owner |-> slot[r].alloc, size |-> slot[r].size] # Free
    BY <1>3 DEF Free
  <1>. QED BY <1>1, <1>2, <1>3, <1>4

LEMMA BlocksOccupied ==
  ASSUME TypeOK, BlocksHeldOnce, NEW s \in Slots, NEW form \in FormType, NEW o, NEW v,
         Occupy(s, form, o, v, Freed(s))
  PROVE  BlocksHeldOnce'
  <1>1. default_resource # None /\ [owner |-> default_resource, size |-> form.size] # Free
    BY NoneAssumption DEF Free, TypeOK
  <1>2. \A r \in Slots \ {s} : slot[r].state = "fallback" =>
          /\ slot[r].block \in Blocks
          /\ Freed(s)[slot[r].block] = [owner |-> slot[r].alloc, size |-> slot[r].size]
          /\ Freed(s)[slot[r].block] # Free
    BY FreedKeeps
  <1>3. \A b \in Blocks : Freed(s)[b] # Free =>
          \E r \in Slots \ {s} : slot[r].state = "fallback" /\ slot[r].block = b
    BY DEF BlocksHeldOnce, TypeOK, Freed
  <1>4. CASE form.state = "stack"
    <2>1. /\ slot'[s].state # "fallback"
          /\ \A r \in Slots \ {s} : slot'[r] = slot[r]
          /\ heap' = Freed(s)
      BY <1>4, OccupyEffect, OccupyHeap
    <2>. QED BY <1>2, <1>3, <2>1 DEF BlocksHeldOnce
  <1>5. CASE form.state = "fallback"
    <2> DEFINE b == slot'[s].block
    <2>1. /\ b \in Blocks
          /\ Freed(s)[b] = Free
          /\ slot'[s].alloc = default_resource
          /\ heap' = [Freed(s) EXCEPT ![b] =
                        [owner |-> default_resource, size |-> form.size]]
      BY <1>5, OccupyHeap
    <2>2. Freed(s) \in [Blocks -> HeapType]
      BY DEF Freed, TypeOK, HeapType, Free, Opt
    <2>3. \A r \in Slots \ {s} : slot[r].state = "fallback" => slot[r].block # b
      BY <1>2, <2>1
    <2>4. b # None
      BY <2>1, NoneAssumption
    <2>5. \A r \in Slots \ {s} : slot'[r] = slot[r]
      BY OccupyEffect
    <2>6. slot'[s].state = "fallback" /\ slot'[s].size = form.size
      BY <1>5, OccupyEffect
    <2>7. \A r \in Slots : slot'[r].state = "fallback" =>
            /\ slot'[r].block # None
            /\ slot'[r].alloc # None
            /\ heap'[slot'[r].block] = [owner |-> slot'[r].alloc, size |-> slot'[r].size]
      <3>1. ASSUME NEW r \in Slots \ {s}, slot[r].state = "fallback"
            PROVE  /\ slot[r].block # None
                   /\ slot[r].alloc # None
                   /\ heap'[slot[r].block] = [owner |-> slot[r].alloc, size |-> slot[r].size]
        <4>1. heap'[slot[r].block] = Freed(s)[slot[r].block]
          BY <1>2, <2>1, <2>2, <2>3, <3>1
        <4>. QED BY <1>2, <3>1, <4>1 DEF BlocksHeldOnce
      <3>2. heap'[b] = [owner |-> slot'[s].alloc, size |-> slot'[s].size]
        BY <2>1, <2>2, <2>6
      <3>. QED BY <1>1, <2>1, <2>4, <2>5, <3>1, <3>2
    <2>8. \A r, q \in Slots :
            r # q /\ slot'[r].state = "fallback" /\ slot'[q].state = "fallback"
            => slot'[r].block # slot'[q].block
      BY <2>3, <2>5 DEF BlocksHeldOnce
    <2>9. \A c \in Blocks : heap'[c] # Free =>
            \E r \in Slots : slot'[r].state = "fallback" /\ slot'[r].block = c
      BY <1>3, <2>1, <2>2, <2>5, <2>6
    <2>. QED BY <2>7, <2>8, <2>9 DEF BlocksHeldOnce
  <1>. QED BY <1>4, <1>5 DEF FormType, Held

LEMMA BlocksCleared ==
  ASSUME TypeOK, BlocksHeldOnce, NEW s \in Slots, NEW x \in BareSlot, Clears(s, x)
  PROVE  BlocksHeldOnce'
  <1>1. slot'[s].state # "fallback" /\ \A r \in Slots \ {s} : slot'[r] = slot[r]
    BY DEF Clears, BareSlot, Held, TypeOK
  <1>2. \A r \in Slots \ {s} : slot[r].state = "fallback" =>
          heap'[slot[r].block] = heap[slot[r].block]
    BY DEF Clears, Release, BlocksHeldOnce, TypeOK, SlotType, Freed, Opt
  <1>3. \A b \in Blocks : heap'[b] # Free =>
          \E r \in Slots \ {s} : slot[r].state = "fallback" /\ slot[r].block = b
    BY DEF Clears, Release, BlocksHeldOnce, TypeOK, Freed
  <1>. QED BY <1>1, <1>2, <1>3 DEF BlocksHeldOnce

LEMMA BlocksTransferred ==
  ASSUME TypeOK, BlocksHeldOnce, NEW s \in Slots, NEW r \in Slots, NEW x \in Remains(r),
         Transfers(s, r, x)
  PROVE  BlocksHeldOnce'
  <1>1. /\ s # r
        /\ slot'[s] = slot[r]
        /\ slot'[r].state # "fallback"
        /\ \A q \in Slots \ {s, r} : slot'[q] = slot[q]
    BY DEF Transfers, Remains, BareSlot, Held, TypeOK
  <1>2. \A q \in Slots \ {s} : slot[q].state = "fallback" =>
          heap'[slot[q].block] = heap[slot[q].block]
    BY DEF Transfers, Release, BlocksHeldOnce, TypeOK, SlotType, Freed, Opt
  <1>3. \A b \in Blocks : heap'[b] # Free =>
          \E q \in Slots \ {s} : slot[q].state = "fallback" /\ slot[q].block = b
    BY DEF Transfers, Release, BlocksHeldOnce, TypeOK, Freed
  <1>. QED BY <1>1, <1>2, <1>3 DEF BlocksHeldOnce

LEMMA BlocksStep == ASSUME TypeOK, BlocksHeldOnce, Shape PROVE BlocksHeldOnce'
  <1>1. CASE Quiet
    BY <1>1 DEF Quiet, BlocksHeldOnce
  <1>2. ASSUME NEW s \in Slots, NEW form \in CoherentForm, Builds(s, form)
        PROVE  BlocksHeldOnce'
    BY <1>2, BlocksOccupied DEF Builds, Construct, CoherentForm
  <1>3. ASSUME NEW s \in Slots, NEW form \in CoherentForm, LeavesUnbuilt(s, form)
        PROVE  BlocksHeldOnce'
    BY <1>3, BlocksOccupied DEF LeavesUnbuilt, CoherentForm
  <1>4. ASSUME NEW s \in Slots, NEW v \in Values, Writes(s, v)
        PROVE  BlocksHeldOnce'
    BY <1>4 DEF Writes, BlocksHeldOnce, TypeOK, SlotType
  <1>. QED BY <1>1, <1>2, <1>3, <1>4, BlocksCleared, BlocksTransferred DEF Shape

-----------------------------------------------------------------------------
(* The objects.                                                             *)

\* A release of s ends at most the object of s: what is still alive is held by
\* another slot, and the objects in other blocks are alive and unshared.
LEMMA DestroyedKeeps ==
  ASSUME TypeOK, ObjectsAccounted, NEW s \in Slots, DtorWorks(s)
  PROVE  /\ \A o \in Objects : Destroyed(s)[o].live =>
              /\ Destroyed(s)[o] = object[o]
              /\ \E r \in Slots \ {s} : Holds(r) /\ slot[r].obj = o
         /\ \A r \in Slots \ {s} : slot[r].state = "fallback" /\ slot[r].obj # None =>
              /\ slot[r].obj \in Objects
              /\ Destroyed(s)[slot[r].obj].live
              /\ \A q \in Slots \ {r} : slot[q].obj # slot[r].obj
  <1>1. ASSUME NEW o \in Objects, Destroyed(s)[o].live
        PROVE  /\ Destroyed(s)[o] = object[o]
               /\ \E r \in Slots \ {s} : Holds(r) /\ slot[r].obj = o
    <2>1. CASE Holds(s)
      <3>1. o # slot[s].obj /\ Destroyed(s)[o] = object[o]
        BY <1>1, <2>1 DEF Destroyed, Dead, TypeOK
      <3>. QED BY <1>1, <3>1 DEF ObjectsAccounted
    <2>2. CASE ~Holds(s)
      BY <1>1, <2>2 DEF Destroyed, ObjectsAccounted
    <2>. QED BY <2>1, <2>2
  <1>2. ASSUME NEW r \in Slots \ {s}, slot[r].state = "fallback", slot[r].obj # None
        PROVE  /\ slot[r].obj \in Objects
               /\ Destroyed(s)[slot[r].obj].live
               /\ \A q \in Slots \ {r} : slot[q].obj # slot[r].obj
    <2>1. slot[r].obj \in Objects
      BY <1>2 DEF TypeOK, SlotType, Opt
    <2>2. object[slot[r].obj].live /\ \A q \in Slots \ {r} : slot[q].obj # slot[r].obj
      BY <1>2 DEF ObjectsAccounted
    <2>. QED BY <2>1, <2>2 DEF Destroyed, TypeOK
  <1>. QED BY <1>1, <1>2

\* The slots other than s are as they were and s holds nothing or an unbuilt object.
LEMMA ObjectsVacated ==
  ASSUME TypeOK, ObjectsAccounted, NEW s \in Slots, DtorWorks(s), object' = Destroyed(s),
         slot'[s].obj = None, \A r \in Slots \ {s} : slot'[r] = slot[r]
  PROVE  ObjectsAccounted'
  BY DestroyedKeeps DEF ObjectsAccounted, Holds

LEMMA ObjectsBuilt ==
  ASSUME TypeOK, ObjectsAccounted, NEW s \in Slots, NEW form \in CoherentForm,
         Builds(s, form)
  PROVE  ObjectsAccounted'
  <1>0. form \in FormType /\ form.state \in Held
    BY DEF CoherentForm, FormType
  <1>1. PICK v \in Opt(Values) : Construct(s, form, v, Destroyed(s), Freed(s))
    BY DEF Builds
  <1>2. PICK o \in Objects :
           /\ Fresh(o, s, Destroyed(s))
           /\ Occupy(s, form, o, v, Freed(s))
           /\ object' = [Destroyed(s) EXCEPT ![o] =
                [live |-> TRUE, type |-> form.table,
                 home |-> IF form.state = "stack" THEN s ELSE None]]
    BY <1>1 DEF Construct
  <1>3. /\ \A r \in Slots \ {s} : slot'[r] = slot[r]
        /\ slot'[s].state = form.state
        /\ slot'[s].obj = o
    BY <1>0, <1>2, OccupyEffect
  <1>4. DtorWorks(s) /\ Destroyed(s) \in [Objects -> ObjectType]
    BY ReleasedType DEF Builds
  <1>5. object'[o].live /\ \A p \in Objects \ {o} : object'[p] = Destroyed(s)[p]
    BY <1>2, <1>4
  <1>6. \A r \in Slots \ {s} : slot[r].obj # o
    BY <1>2 DEF Fresh
  <1>7. \A p \in Objects : object'[p].live =>
          \E r \in Slots : slot'[r].state \in Held /\ slot'[r].obj = p
    BY <1>0, <1>3, <1>4, <1>5, DestroyedKeeps DEF Holds
  <1>8. \A r \in Slots : slot'[r].state = "fallback" /\ slot'[r].obj # None =>
          /\ object'[slot'[r].obj].live
          /\ \A q \in Slots \ {r} : slot'[q].obj # slot'[r].obj
    BY <1>3, <1>4, <1>5, <1>6, DestroyedKeeps
  <1>. QED BY <1>7, <1>8 DEF ObjectsAccounted, Holds

LEMMA ObjectsTransferred ==
  ASSUME TypeOK, ObjectsAccounted, NEW s \in Slots, NEW r \in Slots, NEW x \in Remains(r),
         Transfers(s, r, x)
  PROVE  ObjectsAccounted'
  <1>1. /\ s # r
        /\ DtorWorks(s)
        /\ object' = Destroyed(s)
        /\ slot'[s] = slot[r]
        /\ slot'[r] = x
        /\ \A q \in Slots \ {s, r} : slot'[q] = slot[q]
    BY DEF Transfers, Release, TypeOK
  <1>2. /\ x.state # "fallback"
        /\ x.obj = None \/ (x = slot[r] /\ slot[r].state # "fallback")
    BY DEF Remains, BareSlot, Held
  <1>3. \A o \in Objects : object'[o].live =>
          \E q \in Slots : slot'[q].state \in Held /\ slot'[q].obj = o
    BY <1>1, DestroyedKeeps DEF Holds
  <1>4. \A q \in Slots : slot'[q].state = "fallback" /\ slot'[q].obj # None =>
          /\ object'[slot'[q].obj].live
          /\ \A p \in Slots \ {q} : slot'[p].obj # slot'[q].obj
    BY <1>1, <1>2, DestroyedKeeps
  <1>. QED BY <1>3, <1>4 DEF ObjectsAccounted, Holds

LEMMA ObjectsStep == ASSUME TypeOK, ObjectsAccounted, Shape PROVE ObjectsAccounted'
  <1>1. CASE Quiet
    BY <1>1 DEF Quiet, ObjectsAccounted, Holds
  <1>2. ASSUME NEW s \in Slots, NEW form \in CoherentForm, LeavesUnbuilt(s, form)
        PROVE  ObjectsAccounted'
    BY <1>2, OccupyEffect, ObjectsVacated DEF LeavesUnbuilt, CoherentForm
  <1>3. ASSUME NEW s \in Slots, NEW x \in BareSlot, Clears(s, x)
        PROVE  ObjectsAccounted'
    BY <1>3, ObjectsVacated DEF Clears, Release, BareSlot, TypeOK
  <1>4. ASSUME NEW s \in Slots, NEW v \in Values, Writes(s, v)
        PROVE  ObjectsAccounted'
    BY <1>4 DEF Writes, ObjectsAccounted, Holds, TypeOK, SlotType
  <1>. QED BY <1>1, <1>2, <1>3, <1>4, ObjectsBuilt, ObjectsTransferred DEF Shape

-----------------------------------------------------------------------------
(* Agreement of table, type index, storage and object.                      *)

\* The clause of Coherent for one slot.
SlotCoherent(s) ==
  /\ slot[s].table = slot[s].type
  /\ Holds(s) =>
       /\ slot[s].table \in Types
       /\ slot[s].size = slot[s].table
       /\ slot[s].state = "stack" <=> slot[s].table \in Inline
  /\ slot[s].obj # None /\ object[slot[s].obj].live =>
       object[slot[s].obj].type = slot[s].table

LEMMA CoherentSlots == Coherent <=> \A s \in Slots : SlotCoherent(s)
  BY DEF Coherent, SlotCoherent

\* A slot untouched by the release of s stays coherent.
LEMMA BystanderCoherent ==
  ASSUME TypeOK, Coherent, ObjectsAccounted, NEW s \in Slots, DtorWorks(s),
         NEW r \in Slots, slot[r].obj # None, Destroyed(s)[slot[r].obj].live
  PROVE  Destroyed(s)[slot[r].obj].type = slot[r].table
  <1>1. slot[r].obj \in Objects
    BY DEF TypeOK, SlotType, Opt
  <1>2. Destroyed(s)[slot[r].obj] = object[slot[r].obj]
    BY <1>1, DestroyedKeeps
  <1>. QED BY <1>2 DEF Coherent

LEMMA CoherentVacated ==
  ASSUME TypeOK, Coherent, ObjectsAccounted, NEW s \in Slots, DtorWorks(s),
         object' = Destroyed(s), \A r \in Slots \ {s} : slot'[r] = slot[r],
         slot'[s].obj = None, slot'[s].table = slot'[s].type,
         slot'[s].state \in Held =>
           /\ slot'[s].table \in Types
           /\ slot'[s].size = slot'[s].table
           /\ slot'[s].state = "stack" <=> slot'[s].table \in Inline
  PROVE  Coherent'
  <1>1. SlotCoherent(s)'
    BY DEF SlotCoherent, Holds
  <1>2. ASSUME NEW r \in Slots \ {s} PROVE SlotCoherent(r)'
    BY <1>2, BystanderCoherent DEF SlotCoherent, Coherent, Holds
  <1>. QED BY <1>1, <1>2 DEF Coherent, SlotCoherent

LEMMA CoherentBuilt ==
  ASSUME TypeOK, Coherent, ObjectsAccounted, NEW s \in Slots, NEW form \in CoherentForm,
         Builds(s, form)
  PROVE  Coherent'
  <1>0. /\ form \in FormType
        /\ form.type = form.table
        /\ form.size = form.table
        /\ form.table \in Types
        /\ form.state = "stack" <=> form.table \in Inline
    BY DEF CoherentForm, FormType
  <1>1. PICK v \in Opt(Values) : Construct(s, form, v, Destroyed(s), Freed(s))
    BY DEF Builds
  <1>2. PICK o \in Objects :
           /\ Fresh(o, s, Destroyed(s))
           /\ Occupy(s, form, o, v, Freed(s))
           /\ object' = [Destroyed(s) EXCEPT ![o] =
                [live |-> TRUE, type |-> form.table,
                 home |-> IF form.state = "stack" THEN s ELSE None]]
    BY <1>1 DEF Construct
  <1>3. /\ \A r \in Slots \ {s} : slot'[r] = slot[r]
        /\ slot'[s].state = form.state
        /\ slot'[s].table = form.table
        /\ slot'[s].type = form.type
        /\ slot'[s].size = form.size
        /\ slot'[s].obj = o
    BY <1>0, <1>2, OccupyEffect
  <1>4. DtorWorks(s) /\ Destroyed(s) \in [Objects -> ObjectType]
    BY ReleasedType DEF Builds
  <1>5. object'[o].type = form.table /\ \A p \in Objects \ {o} : object'[p] = Destroyed(s)[p]
    BY <1>2, <1>4
  <1>6. SlotCoherent(s)'
    BY <1>0, <1>3, <1>5 DEF SlotCoherent, Holds
  <1>7. ASSUME NEW r \in Slots \ {s} PROVE SlotCoherent(r)'
    <2>1. slot[r].obj # o /\ slot[r].obj \in Opt(Objects)
      BY <1>2 DEF Fresh, TypeOK, SlotType
    <2>2. slot[r].obj # None /\ object'[slot[r].obj].live =>
            object'[slot[r].obj].type = slot[r].table
      BY <1>4, <1>5, <2>1, BystanderCoherent DEF Opt
    <2>. QED BY <1>3, <2>2 DEF SlotCoherent, Coherent, Holds
  <1>. QED BY <1>6, <1>7 DEF Coherent, SlotCoherent

LEMMA CoherentTransferred ==
  ASSUME TypeOK, Coherent, ObjectsAccounted, NEW s \in Slots, NEW r \in Slots,
         NEW x \in Remains(r), Transfers(s, r, x)
  PROVE  Coherent'
  <1>1. /\ s # r
        /\ DtorWorks(s)
        /\ object' = Destroyed(s)
        /\ slot'[s] = slot[r]
        /\ slot'[r] = x
        /\ \A q \in Slots \ {s, r} : slot'[q] = slot[q]
    BY DEF Transfers, Release, TypeOK
  <1>2. x = slot[r] \/ (x.state \notin Held /\ x.obj = None /\ x.type = x.table)
    BY DEF Remains, BareSlot
  <1>3. ASSUME NEW q \in Slots, NEW p \in Slots, slot'[q] = slot[p] PROVE SlotCoherent(q)'
    BY <1>1, <1>3, BystanderCoherent DEF SlotCoherent, Coherent, Holds
  <1>4. SlotCoherent(r)'
    <2>1. CASE x = slot[r]
      BY <1>1, <1>3, <2>1
    <2>2. CASE x.state \notin Held /\ x.obj = None /\ x.type = x.table
      BY <1>1, <2>2 DEF SlotCoherent, Holds
    <2>. QED BY <1>2, <2>1, <2>2
  <1>. QED BY <1>1, <1>3, <1>4 DEF Coherent, SlotCoherent

LEMMA CoherentStep ==
  ASSUME TypeOK, Coherent, ObjectsAccounted, Shape
  PROVE  Coherent'
  <1>1. CASE Quiet
    BY <1>1 DEF Quiet, Coherent, Holds
  <1>2. ASSUME NEW s \in Slots, NEW form \in CoherentForm, LeavesUnbuilt(s, form)
        PROVE  Coherent'
    <2>1. form \in FormType /\ form.type = form.table /\ form.size = form.table
          /\ form.table \in Types /\ (form.state = "stack" <=> form.table \in Inline)
      BY DEF CoherentForm, FormType
    <2>. QED BY <1>2, <2>1, OccupyEffect, CoherentVacated DEF LeavesUnbuilt
  <1>3. ASSUME NEW s \in Slots, NEW x \in BareSlot, Clears(s, x)
        PROVE  Coherent'
    BY <1>3, CoherentVacated DEF Clears, Release, BareSlot, TypeOK
  <1>4. ASSUME NEW s \in Slots, NEW v \in Values, Writes(s, v)
        PROVE  Coherent'
    BY <1>4 DEF Writes, Coherent, Holds, TypeOK, SlotType
  <1>. QED BY <1>1, <1>2, <1>3, <1>4, CoherentBuilt, CoherentTransferred DEF Shape

-----------------------------------------------------------------------------
(* The inductive invariant and what follows from it.                        *)

Ownership == TypeOK /\ BlocksHeldOnce /\ ObjectsAccounted /\ Coherent

LEMMA OwnershipInit == Init => Ownership
  <1> SUFFICES ASSUME Init PROVE Ownership
    OBVIOUS
  <1>1. TypeOK
    BY SetsAssumption, AbsentSlotType
       DEF Init, TypeOK, Outcomes, Dead, Free, Opt, AbsentSlot, Bare
  <1>2. \A s \in Slots : slot[s] = AbsentSlot
    BY DEF Init
  <1>. QED BY <1>1, <1>2 DEF Ownership, BlocksHeldOnce, ObjectsAccounted, Coherent, Init,
                             AbsentSlot, Bare, Holds, Held, Dead, Free

LEMMA OwnershipStep == Ownership /\ [Next]_vars => Ownership'
  <1> SUFFICES ASSUME Ownership, [Next]_vars PROVE Ownership'
    OBVIOUS
  <1>1. TypeOK'
    BY TypeStep DEF Ownership
  <1>2. Shape
    BY StepShape DEF Ownership
  <1>. QED BY <1>1, <1>2, BlocksStep, ObjectsStep, CoherentStep DEF Ownership

\* The four parts of Ownership are inductive together: every operation of any client keeps
\* each block with the one slot that can return it and each object with its slot.
THEOREM OwnershipInvariant == Spec => []Ownership
  BY OwnershipInit, OwnershipStep, PTL DEF Spec

\* Each block handed out has one owner, which returns it to its resource with its size
\* (allocateBasedOnState and destructAndDeallocate, through every copy and move).
THEOREM BlocksHeldOnceHolds == Spec => []BlocksHeldOnce
  <1>1. Ownership => BlocksHeldOnce
    BY DEF Ownership
  <1>. QED BY <1>1, OwnershipInvariant, PTL

\* No object is lost, and one in a block is alive and unshared.
THEOREM ObjectsAccountedHolds == Spec => []ObjectsAccounted
  <1>1. Ownership => ObjectsAccounted
    BY DEF Ownership
  <1>. QED BY <1>1, OwnershipInvariant, PTL

\* The functions a slot calls are those of the type of its object.
THEOREM CoherentHolds == Spec => []Coherent
  <1>1. Ownership => Coherent
    BY DEF Ownership
  <1>. QED BY <1>1, OwnershipInvariant, PTL

-----------------------------------------------------------------------------
(* Copies.                                                                  *)

LEMMA CopyIsDeep ==
  ASSUME Ownership, NEW s \in Slots, NEW r \in Slots, s # r, NEW objs, NEW hp,
         objs \in [Objects -> ObjectType], UseOutcome(r, objs) = "running",
         Construct(s, CopiedForm(r), slot[r].val, objs, hp)
  PROVE  /\ slot'[r] = slot[r]
         /\ slot'[s].table = slot[r].table
         /\ slot'[s].val = slot[r].val
         /\ slot'[s].obj # slot[r].obj
         /\ object'[slot'[s].obj].live
  <1>1. CopiedForm(r) \in FormType
    BY CopiedFormType DEF Ownership
  <1>2. PICK o \in Objects :
           /\ Fresh(o, s, objs)
           /\ Occupy(s, CopiedForm(r), o, slot[r].val, hp)
           /\ object' = [objs EXCEPT ![o] =
                [live |-> TRUE, type |-> CopiedForm(r).table,
                 home |-> IF CopiedForm(r).state = "stack" THEN s ELSE None]]
    BY DEF Construct
  <1>3. /\ slot'[s].table = CopiedForm(r).table
        /\ slot'[s].obj = o
        /\ slot'[r] = slot[r]
    BY <1>1, <1>2, OccupyEffect DEF Ownership
  <1>4. slot'[s].val = slot[r].val
    BY <1>2 DEF Occupy, Stored, Ownership, TypeOK
  <1>5. object'[o].live
    BY <1>2
  <1>. QED BY <1>2, <1>3, <1>4, <1>5 DEF CopiedForm, Fresh

\* A copy that returns is an object of its own with the content of its source.
THEOREM ValueSemanticsHolds == Spec => ValueSemantics
  <1> DEFINE Deep == \A s, r \in Slots :
               (CopyConstruct(s, r) \/ CopyAssign(s, r)) /\ outcome' = "running" =>
                 /\ slot'[r] = slot[r]
                 /\ slot'[s].table = slot[r].table
                 /\ slot'[s].val = slot[r].val
                 /\ slot'[s].obj # slot[r].obj
                 /\ object'[slot'[s].obj].live
  <1>1. ASSUME Ownership PROVE Deep
    <2>0. TypeOK /\ object \in [Objects -> ObjectType]
      BY <1>1 DEF Ownership, TypeOK, ObjectType
    <2>1. ASSUME NEW s \in Slots, NEW r \in Slots, CopyConstruct(s, r), outcome' = "running"
          PROVE  /\ s # r
                 /\ UseOutcome(r, object) = "running"
                 /\ Construct(s, CopiedForm(r), slot[r].val, object, heap)
      BY <2>1 DEF CopyConstruct, Unborn, Ready, Stop, Terminate
    <2>2. ASSUME NEW s \in Slots, NEW r \in Slots, CopyAssign(s, r), outcome' = "running"
          PROVE  /\ s # r
                 /\ Destroyed(s) \in [Objects -> ObjectType]
                 /\ UseOutcome(r, Destroyed(s)) = "running"
                 /\ Construct(s, CopiedForm(r), slot[r].val, Destroyed(s), Freed(s))
      BY <2>0, <2>2, ReleasedType DEF CopyAssign, DtorFails, DtorWorks, Stop, Terminate
    <2>. QED BY <1>1, <2>0, <2>1, <2>2, CopyIsDeep
  <1>2. Ownership /\ [Next]_vars => [Deep]_vars
    BY <1>1
  <1>. QED BY <1>2, OwnershipInvariant, PTL DEF Spec, ValueSemantics

-----------------------------------------------------------------------------
(* A tidy client meets nothing undefined.                                   *)

\* An inline object is where it was built, or may be where its bytes were copied.
AtHome ==
  \A s \in Slots : slot[s].state = "stack" /\ slot[s].type \notin Relocatable =>
    object[slot[s].obj].home = s

\* What a slot holds has a value.
ValuesHeld == \A s \in Slots : Holds(s) => slot[s].val \in Values

TidyInv == Ownership /\ WellDefined /\ SoleOwner /\ AtHome /\ ValuesHeld

LEMMA TidyInit == Init => TidyInv
  BY OwnershipInit DEF Init, TidyInv, WellDefined, SoleOwner, AtHome, ValuesHeld, AbsentSlot, Bare,
     Holds, Held, Dead

\* Whatever a slot holds can be called and destroyed.
LEMMA TidyUse ==
  ASSUME TidyInv, NEW s \in Slots
  PROVE  /\ Holds(s) => UseOutcome(s, object) = "running"
         /\ DtorWorks(s)
         /\ ~DtorFails(s)
  <1>1. ASSUME Holds(s) PROVE UseOutcome(s, object) = "running"
    <2>1. /\ slot[s].table \in Types
          /\ slot[s].table = slot[s].type
          /\ slot[s].obj # None
          /\ object[slot[s].obj].live
          /\ object[slot[s].obj].type = slot[s].table
      BY <1>1 DEF TidyInv, Ownership, Coherent, SoleOwner
    <2>2. ~Displaced(s, object)
      BY <2>1 DEF Displaced, TidyInv, AtHome
    <2>3. slot[s].table # None
      BY <2>1, NoneAssumption
    <2>. QED BY <1>1, <2>1, <2>2, <2>3 DEF UseOutcome
  <1>. QED BY <1>1 DEF DtorWorks, DtorFails, DtorOutcome

\* A slot can still be copied from when another one was released.
LEMMA TidyUseOther ==
  ASSUME TidyInv, NEW s \in Slots, NEW r \in Slots, s # r, Holds(r)
  PROVE  UseOutcome(r, Destroyed(s)) = "running"
  <1>1. slot[r].obj \in Objects
    BY DEF TidyInv, SoleOwner, Ownership, TypeOK, SlotType, Opt
  <1>2. Destroyed(s)[slot[r].obj] = object[slot[r].obj]
    BY <1>1 DEF Destroyed, TidyInv, SoleOwner, Ownership, TypeOK
  <1>3. UseOutcome(r, object) = "running"
    BY TidyUse
  <1>. QED BY <1>2, <1>3 DEF UseOutcome, Displaced

\* The steps of a tidy client: it ends the program by an exception at worst, never leaves an
\* unbuilt object, and never leaves what it transferred at its source.
TidyShape ==
  \/ UNCHANGED <<slot, object>> /\ outcome' \in {outcome, "terminated"}
  \/ /\ outcome' = outcome
     /\ \/ \E s \in Slots, form \in CoherentForm, v \in Values :
             Construct(s, form, v, Destroyed(s), Freed(s))
        \/ \E s \in Slots, x \in BareSlot : Clears(s, x)
        \/ \E s, r \in Slots, x \in BareSlot : Carried(r) /\ Transfers(s, r, x)
        \/ \E s \in Slots, v \in Values : Writes(s, v)

\* An empty slot is bare.
LEMMA EmptiedBare ==
  ASSUME Ownership, NEW r \in Slots, ~Holds(r)
  PROVE  slot[r] \in BareSlot
  BY DEF Ownership, TypeOK, Coherent, BareSlot, Holds

LEMMA TidyStepShape ==
  ASSUME TidyInv, TidyNext
  PROVE  TidyShape
  <1>0. Ownership /\ TypeOK /\ Coherent
    BY DEF TidyInv, Ownership
  <1>1. ASSUME NEW s \in Slots, DefaultConstruct(s) PROVE TidyShape
    <2>1. ~Holds(s)
      BY <1>1 DEF DefaultConstruct, Unborn, Exists, Holds, Held
    <2>2. Clears(s, EmptySlot(None, None)) /\ EmptySlot(None, None) \in BareSlot
      BY <1>0, <1>1, <2>1, EmptyBare, NothingToRelease DEF DefaultConstruct, Clears, Release, Opt
    <2>. QED BY <1>1, <2>2 DEF TidyShape, DefaultConstruct
  <1>2. ASSUME NEW s \in Slots, ~Holds(s), Reset(s) PROVE TidyShape
    <2>1. Clears(s, EmptySlot(None, None)) /\ EmptySlot(None, None) \in BareSlot
      BY <1>0, <1>2, EmptyBare, NothingToRelease DEF Reset, Clears, Release, Opt
    <2>. QED BY <1>2, <2>1 DEF TidyShape, Reset
  <1>3. ASSUME NEW s \in Slots, Destruct(s) PROVE TidyShape
    <2>1. Clears(s, AbsentSlot) /\ outcome' = outcome
      BY <1>3, TidyUse DEF Destruct, Clears, Release
    <2>. QED BY <2>1, AbsentBare DEF TidyShape
  <1>4. ASSUME NEW s \in Slots, NEW v \in Values, Call(s, v) PROVE TidyShape
    BY <1>4, TidyUse DEF Call, TidyShape, Writes
  <1>5. ASSUME NEW s \in Slots, NEW t \in Types, NEW v \in Values, Convert(s, t, v)
        PROVE  TidyShape
    <2>1. ~Holds(s)
      BY <1>5 DEF Convert, Unborn, Exists, Holds, Held
    <2>2. \/ Construct(s, FormOf(t), v, Destroyed(s), Freed(s)) /\ outcome' = outcome
          \/ Terminate
      BY <1>0, <1>5, <2>1, NothingToRelease DEF Convert, Construct
    <2>. QED BY <2>2, CoherentFormOf DEF TidyShape, Terminate, Stop
  <1>6. ASSUME NEW s \in Slots, NEW t \in Types, NEW v \in Values,
               AssignValue(s, t, v) \/ (t \notin Throwing /\ Emplace(s, t, v))
        PROVE  TidyShape
    <2>1. \/ Construct(s, FormOf(t), v, Destroyed(s), Freed(s)) /\ outcome' = outcome
          \/ Terminate
      BY <1>6, TidyUse DEF AssignValue, Emplace, Construct
    <2>. QED BY <2>1, CoherentFormOf DEF TidyShape, Terminate, Stop
  <1>7. ASSUME NEW s \in Slots, NEW r \in Slots, Holds(r), CopyConstruct(s, r) PROVE TidyShape
    <2>1. ~Holds(s)
      BY <1>7 DEF CopyConstruct, Unborn, Exists, Holds, Held
    <2>2. CopiedForm(r) \in CoherentForm /\ slot[r].val \in Values
      BY <1>0, <1>7, TidyUse, CoherentCopiedForm DEF TidyInv, ValuesHeld
    <2>3. \/ Construct(s, CopiedForm(r), slot[r].val, Destroyed(s), Freed(s)) /\ outcome' = outcome
          \/ Terminate
      BY <1>0, <1>7, <2>1, TidyUse, NothingToRelease DEF CopyConstruct, Construct
    <2>. QED BY <2>2, <2>3 DEF TidyShape, Terminate, Stop
  <1>8. ASSUME NEW s \in Slots, NEW r \in Slots, Holds(r), CopyAssign(s, r) PROVE TidyShape
    <2>1. UseOutcome(r, Destroyed(s)) = "running" /\ s # r
      BY <1>8, TidyUseOther DEF CopyAssign
    <2>2. CopiedForm(r) \in CoherentForm /\ slot[r].val \in Values
      BY <1>0, <1>8, <2>1, CoherentCopiedForm DEF TidyInv, ValuesHeld
    <2>3. \/ Construct(s, CopiedForm(r), slot[r].val, Destroyed(s), Freed(s)) /\ outcome' = outcome
          \/ Terminate
      BY <1>8, <2>1, TidyUse DEF CopyAssign, Construct
    <2>. QED BY <2>2, <2>3 DEF TidyShape, Terminate, Stop
  <1>9. ASSUME NEW s \in Slots, NEW r \in Slots, s # r, AssignHeld(s, r) PROVE TidyShape
    <2>1. UseOutcome(r, Destroyed(s)) = "running" /\ Holds(r)
      BY <1>9, TidyUseOther DEF AssignHeld
    <2>2. FormOf(slot[r].table) \in CoherentForm /\ slot[r].val \in Values
      BY <1>0, <2>1, CoherentFormOf DEF Coherent, TidyInv, ValuesHeld
    <2>3. \/ /\ Construct(s, FormOf(slot[r].table), slot[r].val, Destroyed(s), Freed(s))
             /\ outcome' = outcome
          \/ Terminate
      BY <1>9, <2>1, TidyUse DEF AssignHeld, Construct
    <2>. QED BY <2>2, <2>3 DEF TidyShape, Terminate, Stop
  <1>10. ASSUME NEW s \in Slots, NEW r \in Slots, Carried(r), MoveConstruct(s, r) PROVE TidyShape
    <2>1. ~Holds(s) /\ s # r
      BY <1>10 DEF MoveConstruct, Unborn, Ready, Exists, Holds, Held
    <2>2. Transfers(s, r, MovedFrom(r)) /\ MovedFrom(r) \in BareSlot
      BY <1>0, <1>10, <2>1, NothingToRelease, MovedFromBare DEF MoveConstruct, Transfers, Release
    <2>. QED BY <1>10, <2>2 DEF TidyShape, MoveConstruct
  <1>11. ASSUME NEW s \in Slots, NEW r \in Slots, slot[r].state # "stack", MoveAssign(s, r)
         PROVE  TidyShape
    <2>1. AssignedFrom(r) \in BareSlot /\ Carried(r)
      BY <1>0, <1>11, MovedFromBare, EmptiedBare DEF AssignedFrom, Carried, Holds, Held
    <2>2. Transfers(s, r, AssignedFrom(r)) /\ outcome' = outcome
      BY <1>11, TidyUse DEF MoveAssign, Transfers, Release
    <2>. QED BY <2>1, <2>2 DEF TidyShape
  <1>12. ASSUME NEW res \in Resources, SetDefaultMemoryResource(res) PROVE TidyShape
    BY <1>12 DEF SetDefaultMemoryResource, TidyShape
  <1>. QED BY <1>1, <1>2, <1>3, <1>4, <1>5, <1>6, <1>7, <1>8, <1>9, <1>10, <1>11, <1>12
           DEF TidyNext

\* SoleOwner, AtHome and ValuesHeld, for the slots s and r.
TidySlot(s) ==
  /\ Holds(s) => /\ slot[s].obj # None
                 /\ object[slot[s].obj].live
                 /\ slot[s].val \in Values
  /\ slot[s].state = "stack" /\ slot[s].type \notin Relocatable => object[slot[s].obj].home = s

Apart(s, r) == Holds(s) /\ Holds(r) => slot[s].obj # slot[r].obj

\* A release of s leaves the objects of the other slots as they were.
LEMMA OthersKept ==
  ASSUME TidyInv, NEW s \in Slots, NEW r \in Slots, r # s, Holds(r)
  PROVE  slot[r].obj \in Objects /\ Destroyed(s)[slot[r].obj] = object[slot[r].obj]
  BY DEF Destroyed, TidyInv, SoleOwner, Ownership, TypeOK, SlotType, Opt

LEMMA TidyBuilt ==
  ASSUME TidyInv, NEW s \in Slots, NEW form \in CoherentForm, NEW v \in Values,
         Construct(s, form, v, Destroyed(s), Freed(s))
  PROVE  /\ \A q \in Slots : TidySlot(q)'
         /\ \A q, r \in Slots : q # r => Apart(q, r)'
  <1>0. TypeOK /\ form \in FormType
    BY DEF TidyInv, Ownership, CoherentForm
  <1>1. PICK o \in Objects :
           /\ Fresh(o, s, Destroyed(s))
           /\ Occupy(s, form, o, v, Freed(s))
           /\ object' = [Destroyed(s) EXCEPT ![o] =
                [live |-> TRUE, type |-> form.table,
                 home |-> IF form.state = "stack" THEN s ELSE None]]
    BY DEF Construct
  <1>2. Destroyed(s) \in [Objects -> ObjectType]
    BY <1>0, TidyUse, ReleasedType
  <1>3. /\ object'[o].live
        /\ object'[o].home = IF form.state = "stack" THEN s ELSE None
        /\ \A u \in Objects \ {o} : object'[u] = Destroyed(s)[u]
    BY <1>1, <1>2
  <1>4. /\ slot'[s].state = form.state
        /\ slot'[s].obj = o
        /\ slot'[s].val = v
        /\ \A r \in Slots \ {s} : slot'[r] = slot[r]
    BY <1>0, <1>1, OccupyEffect DEF Occupy, Stored, TypeOK
  <1>5. o # None
    BY NoneAssumption
  <1>6. TidySlot(s)'
    BY <1>3, <1>4, <1>5 DEF TidySlot, Holds
  <1>7. \A r \in Slots \ {s} : slot[r].obj # o
    BY <1>1 DEF Fresh
  <1>8. ASSUME NEW r \in Slots \ {s} PROVE TidySlot(r)'
    <2>1. CASE Holds(r)
      <3>1. object'[slot[r].obj] = object[slot[r].obj]
        BY <1>3, <1>7, <2>1, OthersKept
      <3>. QED BY <1>4, <2>1, <3>1 DEF TidySlot, Holds, TidyInv, SoleOwner, AtHome, ValuesHeld
    <2>2. CASE ~Holds(r)
      BY <1>4, <2>2 DEF TidySlot, Holds, Held
    <2>. QED BY <2>1, <2>2
  <1>9. ASSUME NEW q \in Slots, NEW r \in Slots, q # r PROVE Apart(q, r)'
    BY <1>4, <1>7, <1>9 DEF Apart, Holds, TidyInv, SoleOwner
  <1>. QED BY <1>6, <1>8, <1>9

LEMMA TidyCleared ==
  ASSUME TidyInv, NEW s \in Slots, NEW x \in BareSlot, Clears(s, x)
  PROVE  /\ \A q \in Slots : TidySlot(q)'
         /\ \A q, r \in Slots : q # r => Apart(q, r)'
  <1>1. /\ slot'[s].state \notin Held
        /\ \A r \in Slots \ {s} : slot'[r] = slot[r]
        /\ object' = Destroyed(s)
    BY DEF Clears, Release, BareSlot, TidyInv, Ownership, TypeOK
  <1>2. ASSUME NEW r \in Slots \ {s} PROVE TidySlot(r)'
    BY <1>1, OthersKept DEF TidySlot, Holds, Held, TidyInv, SoleOwner, AtHome, ValuesHeld
  <1>3. TidySlot(s)'
    BY <1>1 DEF TidySlot, Holds, Held
  <1>4. ASSUME NEW q \in Slots, NEW r \in Slots, q # r PROVE Apart(q, r)'
    BY <1>1, <1>4 DEF Apart, Holds, TidyInv, SoleOwner
  <1>. QED BY <1>2, <1>3, <1>4

LEMMA TidyTransferred ==
  ASSUME TidyInv, NEW s \in Slots, NEW r \in Slots, NEW x \in BareSlot, Carried(r),
         Transfers(s, r, x)
  PROVE  /\ \A q \in Slots : TidySlot(q)'
         /\ \A q, p \in Slots : q # p => Apart(q, p)'
  <1>1. /\ s # r
        /\ slot'[s] = slot[r]
        /\ slot'[r].state \notin Held
        /\ \A q \in Slots \ {s, r} : slot'[q] = slot[q]
        /\ object' = Destroyed(s)
    BY DEF Transfers, Release, BareSlot, TidyInv, Ownership, TypeOK
  <1>2. ASSUME NEW q \in Slots \ {s, r} PROVE TidySlot(q)'
    BY <1>1, OthersKept DEF TidySlot, Holds, Held, TidyInv, SoleOwner, AtHome, ValuesHeld
  <1>3. TidySlot(r)'
    BY <1>1 DEF TidySlot, Holds, Held
  <1>4. TidySlot(s)'
    BY <1>1, OthersKept DEF TidySlot, Carried, Holds, Held, TidyInv, SoleOwner, ValuesHeld
  <1>5. ASSUME NEW q \in Slots, NEW p \in Slots, q # p PROVE Apart(q, p)'
    BY <1>1, <1>5 DEF Apart, Holds, TidyInv, SoleOwner
  <1>. QED BY <1>2, <1>3, <1>4, <1>5

LEMMA TidyWritten ==
  ASSUME TidyInv, NEW s \in Slots, NEW v \in Values, Writes(s, v)
  PROVE  /\ \A q \in Slots : TidySlot(q)'
         /\ \A q, r \in Slots : q # r => Apart(q, r)'
  <1>1. \A q \in Slots : /\ slot'[q].state = slot[q].state
                         /\ slot'[q].obj = slot[q].obj
                         /\ slot'[q].type = slot[q].type
                         /\ slot'[q].val \in {slot[q].val, v}
    BY DEF Writes, TidyInv, Ownership, TypeOK, SlotType
  <1>2. object' = object
    BY DEF Writes
  <1>3. \A q \in Slots : TidySlot(q)'
    BY <1>1, <1>2 DEF TidySlot, Holds, TidyInv, SoleOwner, AtHome, ValuesHeld
  <1>. QED BY <1>1, <1>2, <1>3 DEF Apart, Holds, TidyInv, SoleOwner

LEMMA TidyStep == TidyInv /\ [TidyNext]_vars => TidyInv'
  <1> SUFFICES ASSUME TidyInv, [TidyNext]_vars PROVE TidyInv'
    OBVIOUS
  <1>1. Ownership'
    BY OwnershipStep DEF TidyInv, TidyNext, Next
  <1>2. CASE UNCHANGED vars
    BY <1>1, <1>2 DEF vars, TidyInv, WellDefined, SoleOwner, AtHome, ValuesHeld, Holds
  <1>3. CASE TidyNext
    <2>1. TidyShape
      BY <1>3, TidyStepShape
    <2>2. WellDefined'
      BY <2>1 DEF TidyShape, TidyInv, WellDefined
    <2>3. CASE UNCHANGED <<slot, object>>
      BY <1>1, <2>2, <2>3 DEF TidyInv, SoleOwner, AtHome, ValuesHeld, Holds
    <2>4. CASE ~UNCHANGED <<slot, object>>
      <3>1. /\ \A q \in Slots : TidySlot(q)'
            /\ \A q, r \in Slots : q # r => Apart(q, r)'
        BY <2>1, <2>4, TidyBuilt, TidyCleared, TidyTransferred, TidyWritten DEF TidyShape
      <3>2. (SoleOwner /\ AtHome /\ ValuesHeld)'
        BY <1>1, <3>1 DEF TidySlot, Apart, SoleOwner, AtHome, ValuesHeld, Holds,
                           Ownership, ObjectsAccounted
      <3>. QED BY <1>1, <2>2, <3>2 DEF TidyInv
    <2>. QED BY <2>3, <2>4
  <1>. QED BY <1>2, <1>3

\* Ownership and what a tidy client adds to it are inductive together.
THEOREM TidyInvariant == TidySpec => []TidyInv
  BY TidyInit, TidyStep, PTL DEF TidySpec

\* A client that avoids the six uses never calls or destroys through a null table or an
\* object that is gone or elsewhere: what it holds, it holds alone and where it was built.
THEOREM WellDefinedHolds == TidySpec => []WellDefined
  <1>1. TidyInv => WellDefined
    BY DEF TidyInv
  <1>. QED BY <1>1, TidyInvariant, PTL

\* For such a client the objects alive are those of the slots, one each.
THEOREM SoleOwnerHolds == TidySpec => []SoleOwner
  <1>1. TidyInv => SoleOwner
    BY DEF TidyInv
  <1>. QED BY <1>1, TidyInvariant, PTL

-----------------------------------------------------------------------------
(* For a tidy client, Polymorphic implements ValueHolder.                   *)

Seen == [s \in Slots |-> Content(s)]

\* A step that leaves the other slots changes what is seen of one.
LEMMA SeenOne ==
  ASSUME NEW s \in Slots, \A q \in Slots \ {s} : slot'[q] = slot[q]
  PROVE  Seen' = [Seen EXCEPT ![s] = Content(s)']
  BY DEF Seen, Content, Exists, Holds

\* What is seen of a slot.
LEMMA SeenFull ==
  ASSUME TidyInv, NEW s \in Slots, Holds(s)
  PROVE  /\ Seen[s] = [kind |-> "full", type |-> slot[s].type, val |-> slot[s].val]
         /\ Seen[s] \in Holder!Full
         /\ slot[s].table = slot[s].type
         /\ slot[s].type \in Types
         /\ slot[s].val \in Values
  BY DEF Seen, Content, Exists, Holds, Held, TidyInv, ValuesHeld, Ownership, Coherent, Holder!Full

LEMMA SeenBorn ==
  ASSUME NEW s \in Slots, Exists(s)
  PROVE  /\ Seen[s] # Holder!Unborn
         /\ ~Holds(s) => Seen[s] = Holder!Void
  BY DEF Seen, Content, Holder!Unborn, Holder!Void

\* A slot in which an object was built is seen to have its type and value.
LEMMA SeenBuilt ==
  ASSUME TidyInv, NEW s \in Slots, NEW form \in CoherentForm, NEW v, NEW objs, NEW hp,
         Construct(s, form, v, objs, hp)
  PROVE  Seen' = [Seen EXCEPT ![s] = [kind |-> "full", type |-> form.type, val |-> v]]
  <1>1. PICK o : Occupy(s, form, o, v, hp)
    BY DEF Construct
  <1>2. /\ slot'[s].state = form.state
        /\ slot'[s].type = form.type
        /\ slot'[s].val = v
        /\ \A q \in Slots \ {s} : slot'[q] = slot[q]
    BY <1>1 DEF Occupy, Stored, TidyInv, Ownership, TypeOK
  <1>3. form.state \in Held
    BY DEF CoherentForm, FormType
  <1>4. Content(s)' = [kind |-> "full", type |-> form.type, val |-> v]
    BY <1>2, <1>3 DEF Content, Exists, Holds, Held
  <1>. QED BY <1>2, <1>4, SeenOne

LEMMA SeenEmptied ==
  ASSUME TidyInv, NEW s \in Slots, NEW t, slot' = [slot EXCEPT ![s] = EmptySlot(t, t)]
  PROVE  Seen' = [Seen EXCEPT ![s] = Holder!Void]
  <1>1. slot'[s] = EmptySlot(t, t) /\ \A q \in Slots \ {s} : slot'[q] = slot[q]
    BY DEF TidyInv, Ownership, TypeOK
  <1>2. Content(s)' = Holder!Void
    BY <1>1 DEF Content, Exists, Holds, Held, EmptySlot, Bare, Holder!Void
  <1>. QED BY <1>1, <1>2, SeenOne

LEMMA CreateStep ==
  ASSUME TidyInv, NEW s \in Slots, DefaultConstruct(s)
  PROVE  Holder!Create(s)
  <1>1. Seen[s] = Holder!Unborn
    BY DEF DefaultConstruct, Unborn, Seen, Content, Holder!Unborn
  <1>2. Seen' = [Seen EXCEPT ![s] = Holder!Void]
    BY SeenEmptied DEF DefaultConstruct
  <1>. QED BY <1>1, <1>2 DEF Holder!Create, Holder!Born, Seen

LEMMA ClearStep ==
  ASSUME TidyInv, NEW s \in Slots, Reset(s), outcome' = "running"
  PROVE  Holder!Clear(s)
  <1>1. Seen' = [Seen EXCEPT ![s] = Holder!Void]
    BY SeenEmptied DEF Reset, Stop
  <1>. QED BY <1>1, SeenBorn DEF Reset, Ready, Holder!Clear, Holder!Born, Seen

LEMMA DropStep ==
  ASSUME TidyInv, NEW s \in Slots, Destruct(s)
  PROVE  Holder!Drop(s)
  <1>1. slot' = [slot EXCEPT ![s] = AbsentSlot]
    BY TidyUse DEF Destruct
  <1>2. slot'[s] = AbsentSlot /\ \A q \in Slots \ {s} : slot'[q] = slot[q]
    BY <1>1 DEF TidyInv, Ownership, TypeOK
  <1>3. Content(s)' = Holder!Unborn
    BY <1>2 DEF Content, Exists, AbsentSlot, Bare, Holder!Unborn
  <1>4. Seen' = [Seen EXCEPT ![s] = Holder!Unborn]
    BY <1>2, <1>3, SeenOne
  <1>. QED BY <1>4, SeenBorn DEF Destruct, Ready, Holder!Drop, Holder!Born, Seen

LEMMA MutateStep ==
  ASSUME TidyInv, NEW s \in Slots, NEW v \in Values, Call(s, v)
  PROVE  Holder!Mutate(s, v)
  <1>1. slot' = [slot EXCEPT ![s].val = v] /\ Holds(s)
    BY TidyUse DEF Call
  <1>2. /\ slot'[s].state = slot[s].state
        /\ slot'[s].type = slot[s].type
        /\ slot'[s].val = v
        /\ \A q \in Slots \ {s} : slot'[q] = slot[q]
    BY <1>1 DEF TidyInv, Ownership, TypeOK, SlotType
  <1>3. Content(s)' = [kind |-> "full", type |-> slot[s].type, val |-> v]
    BY <1>1, <1>2 DEF Content, Exists, Holds, Held
  <1>4. Seen' = [Seen EXCEPT ![s] = [kind |-> "full", type |-> slot[s].type, val |-> v]]
    BY <1>2, <1>3, SeenOne
  <1>5. [Seen[s] EXCEPT !.val = v] = [kind |-> "full", type |-> slot[s].type, val |-> v]
    <2>1. Seen[s] = [kind |-> "full", type |-> slot[s].type, val |-> slot[s].val]
      BY <1>1, SeenFull
    <2> DEFINE full(w) == [kind |-> "full", type |-> slot[s].type, val |-> w]
    <2>2. [full(slot[s].val) EXCEPT !.val = v] = full(v)
      OBVIOUS
    <2>. QED BY <2>1, <2>2
  <1>6. Seen' = [Seen EXCEPT ![s].val = v]
    BY <1>4, <1>5
  <1>. QED BY <1>1, <1>6, SeenFull DEF Holder!Mutate, Seen

LEMMA CopyStep ==
  ASSUME TidyInv, NEW s \in Slots, NEW r \in Slots, outcome' = "running",
         CopyConstruct(s, r) \/ CopyAssign(s, r) \/ AssignHeld(s, r)
  PROVE  Holder!Copy(s, r)
  <1>0. TypeOK /\ Coherent
    BY DEF TidyInv, Ownership
  <1>1. PICK form \in CoherentForm :
          /\ \E objs, hp : Construct(s, form, slot[r].val, objs, hp)
          /\ form.type = slot[r].type
          /\ Holds(r)
    <2>1. CASE CopyConstruct(s, r)
      <3>1. UseOutcome(r, object) = "running" /\ Construct(s, CopiedForm(r), slot[r].val, object, heap)
        BY <2>1 DEF CopyConstruct, Stop, Terminate
      <3>2. CopiedForm(r) \in CoherentForm /\ CopiedForm(r).type = slot[r].type /\ Holds(r)
        BY <1>0, <3>1, CoherentCopiedForm DEF CopiedForm, UseOutcome
      <3>. QED BY <3>1, <3>2
    <2>2. CASE CopyAssign(s, r)
      <3>1. /\ UseOutcome(r, Destroyed(s)) = "running"
            /\ Construct(s, CopiedForm(r), slot[r].val, Destroyed(s), Freed(s))
        BY <2>2 DEF CopyAssign, DtorFails, Stop, Terminate
      <3>2. CopiedForm(r) \in CoherentForm /\ CopiedForm(r).type = slot[r].type /\ Holds(r)
        BY <1>0, <3>1, CoherentCopiedForm DEF CopiedForm, UseOutcome
      <3>. QED BY <3>1, <3>2
    <2>3. CASE AssignHeld(s, r)
      <3>1. /\ Holds(r)
            /\ Construct(s, FormOf(slot[r].table), slot[r].val, Destroyed(s), Freed(s))
        BY <2>3 DEF AssignHeld, DtorFails, Stop, Terminate
      <3>2. /\ FormOf(slot[r].table) \in CoherentForm
            /\ FormOf(slot[r].table).type = slot[r].type
        BY <3>1, SeenFull, CoherentFormOf DEF FormOf
      <3>. QED BY <3>1, <3>2
    <2>. QED BY <2>1, <2>2, <2>3
  <1>2. Seen' = [Seen EXCEPT ![s] = Seen[r]]
    BY <1>1, SeenBuilt, SeenFull
  <1>. QED BY <1>1, <1>2, SeenFull DEF Holder!Copy, Seen

LEMMA MoveStep ==
  ASSUME TidyInv, TidyInv', NEW s \in Slots, NEW r \in Slots,
         MoveConstruct(s, r) \/ MoveAssign(s, r)
  PROVE  Holder!Move(s, r)
  <1>1. /\ s # r
        /\ Exists(r)
        /\ \E x \in {MovedFrom(r), slot[r]} : slot' = [slot EXCEPT ![s] = slot[r], ![r] = x]
    BY TidyUse DEF MoveConstruct, MoveAssign, AssignedFrom, Unborn, Ready, Exists, TidyInv,
                   Ownership, TypeOK
  <1>2. /\ slot'[s] = slot[r]
        /\ slot'[r] \in {MovedFrom(r), slot[r]}
        /\ \A q \in Slots \ {s, r} : slot'[q] = slot[q]
    BY <1>1 DEF TidyInv, Ownership, TypeOK
  <1>3. ~Holds(r)'
    <2>1. CASE slot'[r] = MovedFrom(r)
      BY <2>1 DEF MovedFrom, EmptySlot, Bare, Holds, Held
    <2>2. CASE slot'[r] = slot[r]
      <3>1. SoleOwner'
        BY DEF TidyInv
      <3>2. slot'[s] = slot'[r]
        BY <1>2, <2>2
      <3>. QED BY <1>1, <3>1, <3>2 DEF SoleOwner, Holds
    <2>. QED BY <1>2, <2>1, <2>2
  <1>4. Exists(r)'
    BY <1>1, <1>2 DEF Exists, MovedFrom, EmptySlot, Bare
  <1>5. Content(r)' = Holder!Void /\ Content(s)' = Content(r)
    BY <1>2, <1>3, <1>4 DEF Content, Exists, Holds, Holder!Void
  <1>6. Seen' = [Seen EXCEPT ![s] = Seen[r], ![r] = Holder!Void]
    BY <1>1, <1>2, <1>5 DEF Seen, Content, Exists, Holds
  <1>. QED BY <1>1, <1>6, SeenBorn DEF Holder!Move, Holder!Born, Seen

LEMMA PutStep ==
  ASSUME TidyInv, NEW s \in Slots, NEW t \in Types, NEW v \in Values, outcome' = "running",
         Convert(s, t, v) \/ AssignValue(s, t, v) \/ (t \notin Throwing /\ Emplace(s, t, v))
  PROVE  \E x \in Holder!Full : Holder!Put(s, x)
  <1> DEFINE x == [kind |-> "full", type |-> t, val |-> v]
  <1>1. \E objs, hp : Construct(s, FormOf(t), v, objs, hp)
    BY DEF Convert, AssignValue, Emplace, DtorFails, Terminate, Stop
  <1>2. FormOf(t).type = t
    BY DEF FormOf
  <1>3. Seen' = [Seen EXCEPT ![s] = x]
    BY <1>1, <1>2, SeenBuilt, CoherentFormOf
  <1>4. x \in Holder!Full
    BY DEF Holder!Full
  <1>. QED BY <1>3, <1>4 DEF Holder!Put, Seen

LEMMA HolderStep ==
  TidyInv /\ TidyInv' /\ [TidyNext]_vars => [Holder!Next]_Seen
  <1> SUFFICES ASSUME TidyInv, TidyInv', TidyNext PROVE Holder!Next \/ Seen' = Seen
    BY DEF vars, Seen, Content, Exists, Holds
  <1>1. CASE UNCHANGED slot
    BY <1>1 DEF Seen, Content, Exists, Holds
  <1>2. CASE ~UNCHANGED slot
    <2>1. outcome = "running"
      BY DEF TidyNext, DefaultConstruct, Reset, Destruct, Call, Convert, AssignValue, Emplace,
             CopyConstruct, MoveConstruct, CopyAssign, MoveAssign, AssignHeld, Unborn, Ready,
             SetDefaultMemoryResource
    <2>2. outcome' = "running"
      BY <1>2, <2>1, TidyStepShape DEF TidyShape
    <2>3. ~\E res \in Resources : SetDefaultMemoryResource(res)
      BY <1>2 DEF SetDefaultMemoryResource
    <2>. QED BY <2>2, <2>3, CreateStep, ClearStep, DropStep, MutateStep, PutStep, CopyStep, MoveStep
             DEF TidyNext, Holder!Next
  <1>. QED BY <1>1, <1>2

\* For a client that avoids the six uses, Polymorphic is a holder of plain values: the
\* buffer, the blocks and the moves of bytes are not to be seen.
THEOREM ImplementsValueHolderHolds == TidySpec => ImplementsValueHolder
  <1>1. Init => Holder!Init
    BY DEF Init, Holder!Init, Holder!Unborn, Content, Exists, AbsentSlot, Bare
  <1>. QED BY <1>1, HolderStep, TidyInvariant, PTL
           DEF TidySpec, ImplementsValueHolder, Holder!Spec, Seen

\* Each operation that returns does to plain values what its name says.
THEOREM OperationByOperationHolds == TidySpec => OperationByOperation
  <1> DEFINE Meant ==
        outcome' = "running" =>
          \A s \in Slots :
            /\ DefaultConstruct(s) => Holder!Create(s)
            /\ Reset(s) => Holder!Clear(s)
            /\ Destruct(s) => Holder!Drop(s)
            /\ \A v \in Values : Call(s, v) => Holder!Mutate(s, v)
            /\ \A r \in Slots :
                 /\ CopyConstruct(s, r) \/ CopyAssign(s, r) \/ AssignHeld(s, r) => Holder!Copy(s, r)
                 /\ MoveConstruct(s, r) \/ MoveAssign(s, r) => Holder!Move(s, r)
  <1>1. TidyInv /\ TidyInv' => Meant
    BY CreateStep, ClearStep, DropStep, MutateStep, CopyStep, MoveStep
  <1>2. TidyInv /\ TidyInv' /\ [TidyNext]_vars => [Meant]_vars
    BY <1>1
  <1>. QED BY <1>2, TidyInvariant, PTL DEF TidySpec, OperationByOperation

-----------------------------------------------------------------------------
(* Pointers.                                                                *)

-----------------------------------------------------------------------------
(* Tables.                                                                  *)

Tags == {tags \in Seq(STRING) : tags # <<>> /\ Distinct(tags)}

LEMMA ClassTags ==
  /\ \A p \in Refs : TagsOf[p] \in Tags
  /\ OwnerTags \in Tags
  BY RefsAssumption DEF Tags

\* A class has functions, and the positions of its tags are what they are.
LEMMA TagsDomain ==
  ASSUME NEW tags \in Tags
  PROVE  /\ DOMAIN tags \subseteq Nat \ {0}
         /\ 1 \in DOMAIN tags
         /\ \A i \in DOMAIN tags : tags[i] \in STRING
  BY DEF Tags

LEMMA IndexOf ==
  ASSUME NEW tags \in Tags, NEW i \in DOMAIN tags
  PROVE  index_of(tags[i], tags) = i
  BY DEF index_of, Tags, Distinct

LEMMA IndexFound ==
  ASSUME NEW tags, NEW tag, \E i \in DOMAIN tags : tags[i] = tag
  PROVE  /\ index_of(tag, tags) \in DOMAIN tags
         /\ tags[index_of(tag, tags)] = tag
  BY DEF index_of

\* What every table of a class satisfies.
Fits(vtable, tags) ==
  /\ vtable \in VTableType(tags)
  /\ ~isNull(vtable) =>
       /\ DOMAIN tags \subseteq DOMAIN vtable.function_table
       /\ \A i \in DOMAIN tags : vtable.permutations[i] \in DOMAIN vtable.function_table

\* Under each tag of the class, the function of that tag and of type T.
Finds(vtable, tags, T) ==
  ~isNull(vtable) => \A i \in DOMAIN tags : FunctionOf(vtable, tags, tags[i]) = <<tags[i], T>>

LEMMA EmptyFits ==
  ASSUME NEW tags \in Tags, NEW T
  PROVE  /\ Fits(EmptyVTable(tags), tags)
         /\ Finds(EmptyVTable(tags), tags, T)
         /\ isNull(EmptyVTable(tags))
  BY TagsDomain DEF Fits, Finds, EmptyVTable, VTableType, isNull

LEMMA InPlaceFits ==
  ASSUME NEW tags \in Tags, NEW T \in Types
  PROVE  /\ Fits(InPlace(T, tags), tags)
         /\ Finds(InPlace(T, tags), tags, T)
         /\ ~isNull(InPlace(T, tags))
         /\ DOMAIN InPlace(T, tags).function_table = DOMAIN tags
  <1>1. VTableStorage(T, tags) \in Seq(STRING \X Types)
    BY TagsDomain DEF VTableStorage, Tags
  <1>2. InPlace(T, tags) \in VTableType(tags)
    BY <1>1, TagsDomain DEF InPlace, VTableType
  <1>3. DOMAIN InPlace(T, tags).function_table = DOMAIN tags
    BY DEF InPlace, VTableStorage
  <1>4. ~isNull(InPlace(T, tags))
    BY <1>1, <1>3, TagsDomain DEF isNull
  <1>5. Finds(InPlace(T, tags), tags, T)
    BY IndexOf DEF Finds, FunctionOf, InPlace, VTableStorage
  <1>. QED BY <1>2, <1>3, <1>4, <1>5 DEF Fits, InPlace

\* A conversion fits, and finds the same type's functions if the positions of its source
\* are those of the source's tags.
LEMMA ConvertedFits ==
  ASSUME NEW rhsTags \in Tags, NEW tags \in Tags, Convertible(rhsTags, tags),
         NEW rhs, Fits(rhs, rhsTags), NEW T
  PROVE  /\ Fits(Converted(rhs, rhsTags, tags), tags)
         /\ isNull(Converted(rhs, rhsTags, tags)) <=> isNull(rhs)
         /\ isNull(rhs) \/ (/\ Finds(rhs, rhsTags, T)
                            /\ \A i \in DOMAIN rhsTags : rhs.permutations[i] = i) =>
              Finds(Converted(rhs, rhsTags, tags), tags, T)
  <1> DEFINE vtable == Converted(rhs, rhsTags, tags)
             at(i) == index_of(tags[i], rhsTags)
  <1>1. /\ vtable.function_table = rhs.function_table
        /\ vtable.permutations = [i \in DOMAIN tags |-> at(i)]
        /\ isNull(vtable) <=> isNull(rhs)
    BY DEF Converted, isNull
  <1>2. \A i \in DOMAIN tags : at(i) \in DOMAIN rhsTags /\ rhsTags[at(i)] = tags[i]
    BY IndexFound DEF Convertible
  <1>3. vtable \in VTableType(tags)
    BY <1>2, TagsDomain DEF Converted, VTableType, Fits
  <1>4. DOMAIN tags \subseteq DOMAIN rhsTags
    BY DEF Convertible, Tags
  <1>5. Fits(vtable, tags)
    BY <1>1, <1>2, <1>3, <1>4 DEF Fits
  <1>6. ASSUME ~isNull(rhs), Finds(rhs, rhsTags, T), \A i \in DOMAIN rhsTags : rhs.permutations[i] = i,
               NEW i \in DOMAIN tags
        PROVE  FunctionOf(vtable, tags, tags[i]) = <<tags[i], T>>
    <2>1. FunctionOf(vtable, tags, tags[i]) = rhs.function_table[at(i)]
      BY <1>1, IndexOf DEF FunctionOf
    <2>2. FunctionOf(rhs, rhsTags, rhsTags[at(i)]) = rhs.function_table[at(i)]
      BY <1>2, <1>6, IndexOf DEF FunctionOf
    <2>. QED BY <1>2, <1>6, <2>1, <2>2 DEF Finds
  <1>. QED BY <1>1, <1>5, <1>6 DEF Finds

-----------------------------------------------------------------------------
(* The Polymorphics keep Ownership under the steps of PtrNext.              *)

LEMMA OwnershipStop ==
  ASSUME Ownership, NEW how \in Outcomes, Stop(how)
  PROVE  Ownership'
  <1>1. TypeOK'
    BY StopType DEF Ownership
  <1>2. Shape
    BY DEF Shape, Quiet, Stop
  <1>. QED BY <1>1, <1>2, BlocksStep, ObjectsStep, CoherentStep DEF Ownership

LEMMA OwnershipKept ==
  ASSUME Ownership, [PtrNext]_<<vars, refVars>>
  PROVE  Ownership'
  <1>1. CASE OwnerStep
    BY <1>1, OwnershipStep DEF OwnerStep
  <1>2. CASE UNCHANGED vars
    BY <1>2, OwnershipStep
  <1>3. ASSUME NEW p \in Refs, NEW i \in DOMAIN TagsOf[p], NEW v \in Values,
               CallRef(p, TagsOf[p][i], v)
        PROVE  Ownership'
    <2>1. CASE Stop(CallOutcome(p, TagsOf[p][i]))
      <3>1. CallOutcome(p, TagsOf[p][i]) \in Outcomes
        BY DEF CallOutcome, Outcomes
      <3>. QED BY <2>1, <3>1, OwnershipStop
    <2>2. ASSUME NEW s \in Slots, Call(s, v)
          PROVE  Ownership'
      BY <2>2, OwnershipStep DEF Next
    <2>. QED BY <1>2, <1>3, <2>1, <2>2 DEF CallRef, Housing
  <1>. QED BY <1>1, <1>2, <1>3
       DEF PtrNext, PointHeld, View, Upcast, CopyRef, ResetRef, Point, Proxy, ProxyHeld, Set, refVars

-----------------------------------------------------------------------------
(* The members of the pointers.                                             *)

MembersType(tags) ==
  [type_index_m : Opt(Types), data_p_m : Opt(Addresses), function_table_m : VTableType(tags)]

\* What holds of the members m of a pointer whose class has these tags.
Sound(m, tags, isStraight) ==
  /\ m \in MembersType(tags)
  /\ Fits(m.function_table_m, tags)
  /\ isStraight => Finds(m.function_table_m, tags, m.type_index_m)
  /\ m.data_p_m # None => ~isNull(m.function_table_m)

RefInv ==
  /\ DOMAIN ref = Refs
  /\ straight \in [Refs -> BOOLEAN]
  /\ made \in [Refs -> Opt(Objects)]
  /\ \A p \in Refs : Sound(ref[p], TagsOf[p], straight[p])

Inv == Ownership /\ RefInv

LEMMA InvInit == PtrInit => Inv
  <1> SUFFICES ASSUME PtrInit PROVE Inv
    OBVIOUS
  <1>1. Ownership
    BY OwnershipInit DEF PtrInit
  <1>2. ASSUME NEW p \in Refs PROVE Sound(ref[p], TagsOf[p], TRUE)
    BY ClassTags, EmptyFits DEF PtrInit, Sound, MembersType, Members, Fits, Opt
  <1>. QED BY <1>1, <1>2 DEF Inv, RefInv, PtrInit, Opt

\* A pointer is given sound members.
LEMMA SetKeeps ==
  ASSUME RefInv, NEW p \in Refs, NEW m, NEW isStraight \in BOOLEAN, NEW o \in Opt(Objects),
         Set(p, m, isStraight, o), Sound(m, TagsOf[p], isStraight)
  PROVE  RefInv'
  BY DEF Set, RefInv

LEMMA InPlaceSound ==
  ASSUME NEW tags \in Tags, NEW T \in Types, NEW a \in Opt(Addresses)
  PROVE  Sound(Members(T, a, InPlace(T, tags)), tags, TRUE)
  BY InPlaceFits DEF Sound, Members, MembersType, Opt, Fits

LEMMA ConvertedSound ==
  ASSUME NEW rhsTags \in Tags, NEW tags \in Tags, Convertible(rhsTags, tags),
         NEW m, NEW isStraight \in BOOLEAN, Sound(m, rhsTags, isStraight),
         NEW new \in BOOLEAN,
         new => isStraight /\ (\/ isNull(m.function_table_m)
                               \/ \A i \in DOMAIN rhsTags : m.function_table_m.permutations[i] = i)
  PROVE  Sound([m EXCEPT !.function_table_m = Converted(@, rhsTags, tags)], tags, new)
  <1> DEFINE vtable == Converted(m.function_table_m, rhsTags, tags)
             c == [m EXCEPT !.function_table_m = vtable]
  <1>1. Fits(vtable, tags) /\ (isNull(vtable) <=> isNull(m.function_table_m))
    BY ConvertedFits DEF Sound
  <1>2. new => Finds(vtable, tags, m.type_index_m)
    BY ConvertedFits DEF Sound
  <1>3. /\ c \in MembersType(tags)
        /\ c.function_table_m = vtable
        /\ c.type_index_m = m.type_index_m
        /\ c.data_p_m = m.data_p_m
    BY <1>1 DEF Sound, MembersType, Fits
  <1> HIDE DEF vtable, c
  <1>4. Sound(c, tags, new)
    BY <1>1, <1>2, <1>3 DEF Sound
  <1>. QED BY <1>4 DEF c, vtable

\* The members of a Polymorphic, seen as those of a pointer of its own class.
OwnerMembers(s) == Members(slot[s].type, DataOf(s), OwnerTable(s))

LEMMA OwnerSound ==
  ASSUME Ownership, NEW s \in Slots
  PROVE  /\ Sound(OwnerMembers(s), OwnerTags, TRUE)
         /\ DataOf(s) \in Opt(Addresses)
         /\ isNull(OwnerTable(s)) \/ \A i \in DOMAIN OwnerTags : OwnerTable(s).permutations[i] = i
  <1>1. DataOf(s) \in Opt(Addresses)
    BY DEF DataOf, Addresses, Opt, Ownership, TypeOK, SlotType, Held
  <1>2. /\ slot[s].table = slot[s].type
        /\ slot[s].table \in Opt(Types)
        /\ DataOf(s) # None => slot[s].table # None
    BY NoneAssumption DEF DataOf, Ownership, TypeOK, SlotType, Opt, Coherent, Holds, Held
  <1>3. CASE slot[s].table = None
    <2>1. OwnerTable(s) = EmptyVTable(OwnerTags)
      BY <1>3 DEF OwnerTable
    <2>. QED
      BY <1>1, <1>2, <1>3, <2>1, ClassTags, EmptyFits
         DEF Sound, OwnerMembers, Members, MembersType, Fits, EmptyVTable
  <1>4. CASE slot[s].table # None
    <2>1. OwnerTable(s) = InPlace(slot[s].table, OwnerTags) /\ slot[s].table \in Types
      BY <1>2, <1>4 DEF OwnerTable, Opt
    <2>2. Sound(OwnerMembers(s), OwnerTags, TRUE)
      BY <1>1, <1>2, <2>1, ClassTags, InPlaceSound DEF OwnerMembers
    <2>3. \A i \in DOMAIN OwnerTags : OwnerTable(s).permutations[i] = i
      BY <2>1 DEF InPlace
    <2>. QED BY <1>1, <2>2, <2>3
  <1>. QED BY <1>3, <1>4

\* A proxy of sound members is sound: its one function is in the array of the members, and
\* is the one of its tag and their type where they find those.
LEMMA ProxySound ==
  ASSUME NEW tags \in Tags, NEW m, NEW isStraight \in BOOLEAN, Sound(m, tags, isStraight),
         ~isNull(m.function_table_m), NEW i \in DOMAIN tags
  PROVE  Sound(Members(m.type_index_m, m.data_p_m,
                       OneFunction(FunctionOf(m.function_table_m, tags, tags[i]))),
               <<tags[i]>>, isStraight)
  <1> DEFINE fn == FunctionOf(m.function_table_m, tags, tags[i])
             c == Members(m.type_index_m, m.data_p_m, OneFunction(fn))
  <1>1. /\ m.function_table_m.function_table \in Seq(STRING \X Types)
        /\ m.function_table_m.permutations[i] \in DOMAIN m.function_table_m.function_table
    BY DEF Sound, Fits, VTableType
  <1>2. fn = m.function_table_m.function_table[m.function_table_m.permutations[i]]
    BY IndexOf DEF FunctionOf
  <1>3. fn \in STRING \X Types
    BY <1>1, <1>2
  <1>4. isStraight => fn = <<tags[i], m.type_index_m>>
    BY DEF Sound, Finds
  <1> HIDE DEF fn
  <1>5. /\ c.function_table_m.function_table = <<fn>>
        /\ c.function_table_m.permutations = <<1>>
        /\ c.type_index_m = m.type_index_m
        /\ c.data_p_m = m.data_p_m
    BY DEF Members, OneFunction
  <1>6. OneFunction(fn) \in VTableType(<<tags[i]>>)
    <2>1. <<fn>> \in Seq(STRING \X Types)
      BY <1>3
    <2>2. <<1>> \in [DOMAIN <<tags[i]>> -> Nat \ {0}]
      OBVIOUS
    <2>. QED BY <2>1, <2>2 DEF OneFunction, VTableType
  <1>7. Fits(OneFunction(fn), <<tags[i]>>) /\ ~isNull(OneFunction(fn))
    BY <1>6 DEF Fits, OneFunction, isNull
  <1>8. isStraight => Finds(OneFunction(fn), <<tags[i]>>, m.type_index_m)
    <2>1. index_of(tags[i], <<tags[i]>>) = 1
      BY DEF index_of
    <2>. QED BY <1>4, <2>1 DEF Finds, FunctionOf, OneFunction
  <1>9. c \in MembersType(<<tags[i]>>)
    BY <1>6 DEF Members, MembersType, Sound
  <1>10. Sound(c, <<tags[i]>>, isStraight)
    BY <1>5, <1>7, <1>8, <1>9 DEF Sound, Members
  <1>. QED BY <1>10 DEF fn

\* What a pointer to the object of a slot is made for is one, or nothing.
LEMMA LiveInType == ASSUME TypeOK, NEW s \in Slots PROVE LiveIn(s) \in Opt(Objects)
  BY DEF LiveIn, TypeOK, SlotType, Opt

LEMMA RefStep ==
  ASSUME Inv, PtrNext
  PROVE  RefInv'
  <1>0. Ownership /\ TypeOK /\ RefInv /\ \A p \in Refs : TagsOf[p] \in Tags
    BY ClassTags DEF Inv, Ownership
  <1>1. CASE OwnerStep
    BY <1>0, <1>1 DEF OwnerStep, RefInv, Opt
  <1>2. ASSUME NEW p \in Refs, NEW x \in Things, Point(p, x) PROVE RefInv'
    <2>1. TypeOf[x] \in Types /\ x \in Opt(Addresses)
      BY RefsAssumption DEF Addresses, Opt
    <2>. QED BY <1>0, <1>2, <2>1, InPlaceSound, SetKeeps DEF Point, Opt
  <1>3. ASSUME NEW p \in Refs, NEW s \in Slots, PointHeld(p, s) PROVE RefInv'
    <2>1. slot[s].type \in Types /\ DataOf(s) \in Opt(Addresses)
      BY <1>0, <1>3, OwnerSound DEF PointHeld, TypeOK, SlotType, Opt
    <2>. QED BY <1>0, <1>3, <2>1, InPlaceSound, SetKeeps, LiveInType DEF PointHeld
  <1>4. ASSUME NEW p \in Refs, NEW s \in Slots, View(p, s) PROVE RefInv'
    <2> DEFINE m == OwnerMembers(s)
               new == [m EXCEPT !.function_table_m = Converted(@, OwnerTags, TagsOf[p])]
    <2>1. Sound(new, TagsOf[p], TRUE)
      <3>1. m.function_table_m = OwnerTable(s)
        BY DEF OwnerMembers, Members
      <3>. QED BY <1>0, <1>4, <3>1, ClassTags, OwnerSound, ConvertedSound DEF View
    <2>2. new = Members(slot[s].type, DataOf(s), Converted(OwnerTable(s), OwnerTags, TagsOf[p]))
      BY DEF OwnerMembers, Members
    <2>. QED BY <1>0, <1>4, <2>1, <2>2, SetKeeps, LiveInType DEF View
  <1>5. ASSUME NEW p \in Refs, NEW q \in Refs, Upcast(p, q) PROVE RefInv'
    <2> DEFINE new == [ref[q] EXCEPT !.function_table_m = Converted(@, TagsOf[q], TagsOf[p])]
               kept == straight[q] /\ (isNull(ref[q].function_table_m) \/ InOrder(q))
    <2>1. Sound(ref[q], TagsOf[q], straight[q]) /\ straight[q] \in BOOLEAN
      BY <1>0 DEF RefInv
    <2>2. kept \in BOOLEAN
      OBVIOUS
    <2>3. Sound(new, TagsOf[p], kept)
      BY <1>0, <1>5, <2>1, <2>2, ConvertedSound DEF Upcast, InOrder
    <2>4. made[q] \in Opt(Objects) /\ Set(p, new, kept, made[q])
      BY <1>0, <1>5 DEF Upcast, RefInv
    <2>. QED BY <1>0, <2>2, <2>3, <2>4, SetKeeps
  <1>6. ASSUME NEW p \in Refs, NEW q \in Refs, CopyRef(p, q) PROVE RefInv'
    BY <1>0, <1>6, SetKeeps DEF CopyRef, RefInv
  <1>7. ASSUME NEW p \in Refs, ResetRef(p) PROVE RefInv'
    <2>1. reset(ref[p].function_table_m) \in VTableType(TagsOf[p])
      <3>1. ref[p].function_table_m \in VTableType(TagsOf[p])
        BY <1>0 DEF RefInv, Sound, Fits
      <3>2. <<>> \in Seq(STRING \X Types)
        OBVIOUS
      <3>. QED BY <3>1, <3>2 DEF reset, VTableType
    <2>2. isNull(reset(ref[p].function_table_m))
      BY <2>1 DEF reset, isNull, VTableType
    <2>3. Sound(Members(None, None, reset(ref[p].function_table_m)), TagsOf[p], TRUE)
      BY <2>1, <2>2 DEF Sound, Members, MembersType, Opt, Fits, Finds
    <2>. QED BY <1>0, <1>7, <2>3, SetKeeps DEF ResetRef, Opt
  <1>8. ASSUME UNCHANGED refVars PROVE RefInv'
    BY <1>0, <1>8 DEF RefInv, refVars
  <1>9. ASSUME NEW f \in Refs, NEW p \in Refs, NEW tag, Proxy(f, p, tag) PROVE RefInv'
    <2>1. PICK i \in DOMAIN TagsOf[p] : TagsOf[p][i] = tag
      BY <1>9 DEF Proxy
    <2> DEFINE new == Members(ref[p].type_index_m, ref[p].data_p_m,
                         OneFunction(FunctionOf(ref[p].function_table_m, TagsOf[p], tag)))
    <2>2. Sound(ref[p], TagsOf[p], straight[p]) /\ straight[p] \in BOOLEAN
          /\ made[p] \in Opt(Objects)
      BY <1>0 DEF RefInv
    <2>3. Sound(new, <<tag>>, straight[p])
      BY <1>0, <1>9, <2>1, <2>2, ProxySound DEF Proxy
    <2>4. Set(f, new, straight[p], made[p]) /\ TagsOf[f] = <<tag>>
      BY <1>9 DEF Proxy
    <2>. QED BY <1>0, <2>2, <2>3, <2>4, SetKeeps
  <1>10. ASSUME NEW f \in Refs, NEW s \in Slots, NEW tag, ProxyHeld(f, s, tag) PROVE RefInv'
    <2>1. PICK i \in DOMAIN OwnerTags : OwnerTags[i] = tag
      BY <1>10 DEF ProxyHeld
    <2> DEFINE m == OwnerMembers(s)
               new == Members(slot[s].type, DataOf(s),
                         OneFunction(FunctionOf(OwnerTable(s), OwnerTags, tag)))
    <2>2. m.type_index_m = slot[s].type /\ m.data_p_m = DataOf(s)
          /\ m.function_table_m = OwnerTable(s)
      BY DEF OwnerMembers, Members
    <2>3. Sound(m, OwnerTags, TRUE)
      BY <1>0, OwnerSound
    <2> HIDE DEF m
    <2>4. Sound(new, <<tag>>, TRUE)
      BY <1>10, <2>1, <2>2, <2>3, ClassTags, ProxySound DEF ProxyHeld
    <2>5. Set(f, new, TRUE, LiveIn(s)) /\ TagsOf[f] = <<tag>>
      BY <1>10 DEF ProxyHeld
    <2>. QED BY <1>0, <2>4, <2>5, SetKeeps, LiveInType
  <1>. QED BY <1>1, <1>2, <1>3, <1>4, <1>5, <1>6, <1>7, <1>8, <1>9, <1>10 DEF PtrNext, CallRef

LEMMA InvStep == Inv /\ [PtrNext]_<<vars, refVars>> => Inv'
  <1>1. CASE UNCHANGED refVars
    BY <1>1, OwnershipKept DEF Inv, RefInv, refVars
  <1>. QED BY <1>1, OwnershipKept, RefStep DEF Inv

\* Sound is inductive with Ownership: a table made from a Polymorphic is that of its type
\* because the table and the type index of a Polymorphic never come apart.
THEOREM PtrInvariant == PtrSpec => []Inv
  BY InvInit, InvStep, PTL DEF PtrSpec

\* The members of every PolymorphicPtr have their types, whatever it is made from.
THEOREM PtrTypeCorrect == PtrSpec => []PtrTypeOK
  <1>1. Inv => PtrTypeOK
    BY DEF Inv, RefInv, PtrTypeOK, Sound, MembersType
  <1>. QED BY <1>1, PtrInvariant, PTL

\* operator[] of VTable never reads beyond the array, however conversions are chained.
THEOREM IndexInTableHolds == PtrSpec => []IndexInTable
  <1>1. Inv => IndexInTable
    BY DEF Inv, RefInv, IndexInTable, Sound, Fits
  <1>. QED BY <1>1, PtrInvariant, PTL

\* A PolymorphicPtr made from an object, a Polymorphic or an unpermuted PolymorphicPtr
\* calls the functions it names, of the type its type index names.
THEOREM RightFunctionHolds == PtrSpec => []RightFunction
  <1>1. Inv => RightFunction
    BY DEF Inv, RefInv, RightFunction, Sound, Finds, Target
  <1>. QED BY <1>1, PtrInvariant, PTL

\* A PolymorphicPtr that is not isEmpty has a function table.
THEOREM NotEmptyHasTableHolds == PtrSpec => []NotEmptyHasTable
  <1>1. Inv => NotEmptyHasTable
    BY DEF Inv, RefInv, NotEmptyHasTable, Sound
  <1>. QED BY <1>1, PtrInvariant, PTL

-----------------------------------------------------------------------------
(* Objects in blocks stay where the pointers made for them look.            *)

\* A live object is at home in a slot exactly if its type is stored inline.
HomeByType ==
  \A o \in Objects : object[o].live => (object[o].home = None <=> object[o].type \notin Inline)

\* Some slot has the object o in a block, and m names the block and the type.
InBlock(o, m) ==
  \E s \in Slots : /\ slot[s].state = "fallback"
                   /\ slot[s].obj = o
                   /\ slot[s].block = m.data_p_m
                   /\ slot[s].type = m.type_index_m

\* A pointer whose object lives in a block.
Lasting(p) == straight[p] /\ made[p] # None /\ object[made[p]].home = None

Placed ==
  /\ HomeByType
  /\ \A p \in Refs : made[p] # None => object[made[p]].live
  /\ \A p \in Refs : Lasting(p) => InBlock(made[p], ref[p])

UsableInv == Inv /\ Placed

\* A step that keeps o alive leaves it as it was, or destroys it and builds another object
\* of that name in the same slot.
LEMMA ObjectKept ==
  ASSUME Ownership, Shape, NEW o \in Objects, object'[o].live
  PROVE  \/ object'[o] = object[o]
         \/ \E s \in Slots, form \in CoherentForm :
              /\ slot'[s].obj = o
              /\ slot'[s].state = form.state
              /\ slot'[s].table = form.table
              /\ object'[o] = [live |-> TRUE, type |-> form.table,
                              home |-> IF form.state = "stack" THEN s ELSE None]
              /\ object[o].live => Holds(s) /\ slot[s].obj = o
  <1>0. TypeOK /\ ObjectsAccounted
    BY DEF Ownership
  <1>1. ASSUME NEW s \in Slots, Release(s) PROVE object'[o] = object[o]
    BY <1>0, <1>1, DestroyedKeeps DEF Release
  <1>2. ASSUME NEW s \in Slots, NEW form \in CoherentForm, LeavesUnbuilt(s, form)
        PROVE  object'[o] = object[o]
    BY <1>0, <1>2, DestroyedKeeps DEF LeavesUnbuilt
  <1>3. ASSUME NEW s \in Slots, NEW form \in CoherentForm, Builds(s, form), object'[o] # object[o]
        PROVE  /\ slot'[s].obj = o
               /\ slot'[s].state = form.state
               /\ slot'[s].table = form.table
               /\ object'[o] = [live |-> TRUE, type |-> form.table,
                               home |-> IF form.state = "stack" THEN s ELSE None]
               /\ object[o].live => Holds(s) /\ slot[s].obj = o
    <2>1. PICK v \in Opt(Values) : Construct(s, form, v, Destroyed(s), Freed(s))
      BY <1>3 DEF Builds
    <2>2. PICK new \in Objects :
             /\ Fresh(new, s, Destroyed(s))
             /\ Occupy(s, form, new, v, Freed(s))
             /\ object' = [Destroyed(s) EXCEPT ![new] =
                  [live |-> TRUE, type |-> form.table,
                   home |-> IF form.state = "stack" THEN s ELSE None]]
      BY <2>1 DEF Construct
    <2>3. DtorWorks(s) /\ Destroyed(s) \in [Objects -> ObjectType] /\ form \in FormType
      BY <1>0, <1>3, ReleasedType DEF Builds, CoherentForm
    <2>4. new = o
      <3>1. CASE new # o
        <4>1. object'[o] = Destroyed(s)[o]
          BY <2>2, <2>3, <3>1
        <4>. QED BY <1>0, <1>3, <2>3, <4>1, DestroyedKeeps
      <3>. QED BY <3>1
    <2>5. slot'[s].obj = o /\ slot'[s].state = form.state /\ slot'[s].table = form.table
      BY <1>0, <2>2, <2>3, <2>4, OccupyEffect
    <2>6. object[o].live => Holds(s) /\ slot[s].obj = o
      <3>1. ~Destroyed(s)[o].live
        BY <2>2, <2>4 DEF Fresh
      <3>. QED BY <1>0, <3>1 DEF Destroyed, TypeOK
    <2>. QED BY <2>2, <2>3, <2>4, <2>5, <2>6
  <1>. QED BY <1>1, <1>2, <1>3 DEF Shape, Quiet, Clears, Transfers, Writes

LEMMA HomeStep ==
  ASSUME Ownership, HomeByType, Shape
  PROVE  HomeByType'
  <1> SUFFICES ASSUME NEW o \in Objects, object'[o].live
               PROVE  object'[o].home = None <=> object'[o].type \notin Inline
    BY DEF HomeByType
  <1>1. CASE object'[o] = object[o]
    BY <1>1 DEF HomeByType
  <1>2. ASSUME NEW s \in Slots, NEW form \in CoherentForm,
               object'[o] = [live |-> TRUE, type |-> form.table,
                             home |-> IF form.state = "stack" THEN s ELSE None]
        PROVE  object'[o].home = None <=> object'[o].type \notin Inline
    BY <1>2, NoneAssumption DEF CoherentForm
  <1>3. \/ object'[o] = object[o]
        \/ \E s \in Slots, form \in CoherentForm :
             object'[o] = [live |-> TRUE, type |-> form.table,
                           home |-> IF form.state = "stack" THEN s ELSE None]
    BY ObjectKept
  <1>. QED BY <1>1, <1>2, <1>3

\* The slot that has a live object not at home in a slot has it in a block.
LEMMA HomelessInBlock ==
  ASSUME Ownership, HomeByType, NEW s \in Slots, slot[s].obj # None,
         object[slot[s].obj].live, object[slot[s].obj].home = None
  PROVE  slot[s].state = "fallback" /\ slot[s].block \in Blocks
  <1>1. Holds(s) /\ slot[s].obj \in Objects /\ slot[s].block \in Opt(Blocks)
    BY DEF Ownership, TypeOK, SlotType, Opt
  <1>2. slot[s].table \notin Inline
    BY <1>1 DEF HomeByType, Ownership, Coherent
  <1>3. slot[s].state = "fallback"
    BY <1>1, <1>2 DEF Ownership, Coherent, Holds, Held
  <1>. QED BY <1>1, <1>3 DEF Ownership, BlocksHeldOnce, Opt

\* The rule of OwnerStep on names.
SameNameSamePlace ==
  \A s \in Slots : slot'[s].obj # None /\ slot'[s].obj = slot[s].obj =>
    slot'[s].block = slot[s].block /\ slot'[s].table = slot[s].table

\* An object in a block that survives a step is afterwards in the same block, in the same
\* slot or in the one the block was moved to.
LEMMA BlockStays ==
  ASSUME Ownership, Ownership', Shape, SameNameSamePlace, NEW s \in Slots,
         slot[s].state = "fallback", slot[s].obj # None, object'[slot[s].obj].live
  PROVE  \E r \in Slots : /\ slot'[r].state = "fallback"
                          /\ slot'[r].obj = slot[s].obj
                          /\ slot'[r].block = slot[s].block
                          /\ slot'[r].type = slot[s].type
  <1> DEFINE o == slot[s].obj
             Stays(r) == /\ slot'[r].state = "fallback"
                         /\ slot'[r].obj = o
                         /\ slot'[r].block = slot[s].block
                         /\ slot'[r].type = slot[s].type
  <1>0. /\ TypeOK /\ BlocksHeldOnce /\ ObjectsAccounted /\ Coherent
        /\ o \in Objects
        /\ Holds(s)
        /\ slot[s].table \notin Inline
    BY DEF Ownership, TypeOK, SlotType, Opt, Coherent, Holds, Held
  <1>1. ASSUME slot'[s].obj = o PROVE Stays(s)
    <2>1. slot'[s].block = slot[s].block /\ slot'[s].table = slot[s].table
      BY <1>1 DEF SameNameSamePlace
    <2>2. /\ slot'[s].state \in Held
          /\ slot'[s].table = slot'[s].type
          /\ slot'[s].state = "stack" => slot'[s].table \in Inline
      BY <1>1 DEF Ownership, TypeOK, Coherent, Holds
    <2>. QED BY <1>0, <1>1, <2>1, <2>2 DEF Held, Coherent
  <1>2. ASSUME Destroyed(s)[o].live PROVE FALSE
    BY <1>0, <1>2 DEF Destroyed, Dead, TypeOK
  <1>3. CASE Quiet
    BY <1>1, <1>3 DEF Quiet
  <1>4. ASSUME NEW q \in Slots, NEW form \in CoherentForm,
               Builds(q, form) \/ LeavesUnbuilt(q, form)
        PROVE  \E r \in Slots : Stays(r)
    <2>1. CASE q # s
      <3>1. slot'[s] = slot[s]
        BY <1>0, <1>4, <2>1, OccupyEffect DEF Builds, LeavesUnbuilt, Construct, CoherentForm
      <3>. QED BY <1>1, <3>1
    <2>2. CASE q = s
      <3>1. CASE LeavesUnbuilt(s, form)
        BY <1>2, <3>1 DEF LeavesUnbuilt
      <3>2. ASSUME Builds(s, form) PROVE slot'[s].obj = o
        <4>1. PICK v \in Opt(Values), new \in Objects :
                 /\ Occupy(s, form, new, v, Freed(s))
                 /\ object' = [Destroyed(s) EXCEPT ![new] =
                      [live |-> TRUE, type |-> form.table,
                       home |-> IF form.state = "stack" THEN s ELSE None]]
          BY <3>2 DEF Builds, Construct
        <4>2. DtorWorks(s) /\ Destroyed(s) \in [Objects -> ObjectType] /\ form \in FormType
          BY <1>0, <3>2, ReleasedType DEF Builds, CoherentForm
        <4>3. new = o
          BY <1>0, <1>2, <4>1, <4>2
        <4>. QED BY <1>0, <4>1, <4>2, <4>3, OccupyEffect
      <3>. QED BY <1>1, <1>4, <2>2, <3>1, <3>2
    <2>. QED BY <2>1, <2>2
  <1>5. ASSUME NEW q \in Slots, NEW x \in BareSlot, Clears(q, x)
        PROVE  \E r \in Slots : Stays(r)
    <2>1. q # s
      BY <1>2, <1>5 DEF Clears, Release
    <2>2. slot'[s] = slot[s]
      BY <1>0, <1>5, <2>1 DEF Clears, TypeOK
    <2>. QED BY <1>1, <2>2
  <1>6. ASSUME NEW q \in Slots, NEW r \in Slots, NEW x \in Remains(r), Transfers(q, r, x)
        PROVE  \E d \in Slots : Stays(d)
    <2>1. q # s
      BY <1>2, <1>6 DEF Transfers, Release
    <2>2. CASE r = s
      <3>1. slot'[q] = slot[s]
        BY <1>0, <1>6, <2>1, <2>2 DEF Transfers, TypeOK
      <3>. QED BY <3>1
    <2>3. CASE r # s
      <3>1. slot'[s] = slot[s]
        BY <1>0, <1>6, <2>1, <2>3 DEF Transfers, TypeOK
      <3>. QED BY <1>1, <3>1
    <2>. QED BY <2>2, <2>3
  <1>7. ASSUME NEW q \in Slots, NEW v \in Values, Writes(q, v)
        PROVE  \E r \in Slots : Stays(r)
    <2>1. slot'[s].obj = slot[s].obj
      BY <1>0, <1>7 DEF Writes, TypeOK, SlotType
    <2>. QED BY <1>1, <2>1
  <1>8. \E r \in Slots : Stays(r)
    BY <1>1, <1>3, <1>4, <1>5, <1>6, <1>7 DEF Shape
  <1>. QED BY <1>8

\* The operations of Polymorphics, however they are called.
LEMMA PlacedOwnerStep ==
  ASSUME Ownership, Ownership', RefInv, Placed, Shape, SameNameSamePlace,
         UNCHANGED <<ref, straight>>,
         made' = [p \in Refs |-> IF made[p] # None /\ object'[made[p]].live THEN made[p] ELSE None]
  PROVE  Placed'
  <1>1. HomeByType'
    BY HomeStep DEF Placed
  <1>2. \A p \in Refs : made'[p] # None => object'[made'[p]].live
    OBVIOUS
  <1>3. ASSUME NEW p \in Refs, Lasting(p)' PROVE InBlock(made[p], ref[p])'
    <2> DEFINE o == made[p]
    <2>1. /\ made'[p] = o
          /\ o # None
          /\ o \in Objects
          /\ object[o].live /\ object'[o].live
          /\ straight[p]
          /\ object'[o].home = None
      BY <1>3 DEF Lasting, RefInv, Placed, Opt
    <2>2. object[o].home = None
      <3>1. ASSUME NEW s \in Slots, NEW form \in CoherentForm,
                   slot'[s].obj = o, slot'[s].table = form.table, Holds(s), slot[s].obj = o,
                   object'[o] = [live |-> TRUE, type |-> form.table,
                                 home |-> IF form.state = "stack" THEN s ELSE None]
            PROVE  object[o].home = None
        <4>1. form.table \notin Inline
          BY <2>1, <3>1, NoneAssumption DEF CoherentForm
        <4>2. slot[s].table = form.table
          BY <2>1, <3>1 DEF SameNameSamePlace
        <4>3. object[o].type = slot[s].table
          BY <2>1, <3>1 DEF Ownership, Coherent
        <4>. QED BY <2>1, <4>1, <4>2, <4>3 DEF Placed, HomeByType
      <3>2. \/ object'[o] = object[o]
            \/ \E s \in Slots, form \in CoherentForm :
                 /\ slot'[s].obj = o
                 /\ slot'[s].table = form.table
                 /\ object'[o] = [live |-> TRUE, type |-> form.table,
                                 home |-> IF form.state = "stack" THEN s ELSE None]
                 /\ object[o].live => Holds(s) /\ slot[s].obj = o
        BY <2>1, ObjectKept
      <3>. QED BY <2>1, <3>1, <3>2
    <2>3. PICK s \in Slots : /\ slot[s].state = "fallback"
                             /\ slot[s].obj = o
                             /\ slot[s].block = ref[p].data_p_m
                             /\ slot[s].type = ref[p].type_index_m
      BY <2>1, <2>2 DEF Placed, Lasting, InBlock
    <2>4. \E r \in Slots : /\ slot'[r].state = "fallback"
                           /\ slot'[r].obj = o
                           /\ slot'[r].block = slot[s].block
                           /\ slot'[r].type = slot[s].type
      BY <2>1, <2>3, BlockStays
    <2>. QED BY <2>1, <2>3, <2>4 DEF InBlock
  <1>4. ASSUME NEW p \in Refs, Lasting(p)' PROVE InBlock(made[p], ref[p])' /\ made'[p] = made[p]
    BY <1>3, <1>4 DEF Lasting
  <1>. QED BY <1>1, <1>2, <1>4 DEF Placed, InBlock

\* A pointer is given members for an object that are right if it lives in a block.
LEMMA PlacedSet ==
  ASSUME RefInv, Placed, NEW p \in Refs, NEW m, NEW isStraight, NEW o,
         Set(p, m, isStraight, o),
         o # None => object[o].live,
         isStraight /\ o # None /\ object[o].home = None => InBlock(o, m)
  PROVE  Placed'
  <1>1. UNCHANGED <<slot, object>>
    BY DEF Set, vars
  <1>2. /\ ref'[p] = m /\ straight'[p] = isStraight /\ made'[p] = o
        /\ \A q \in Refs \ {p} : ref'[q] = ref[q] /\ straight'[q] = straight[q] /\ made'[q] = made[q]
    BY DEF Set, RefInv
  <1>. QED BY <1>1, <1>2 DEF Placed, HomeByType, Lasting, InBlock

\* The type and the address that a Polymorphic gives are right for its object.
LEMMA LiveInPlace ==
  ASSUME Ownership, HomeByType, NEW s \in Slots, NEW m,
         m.type_index_m = slot[s].type, m.data_p_m = DataOf(s)
  PROVE  /\ LiveIn(s) # None => object[LiveIn(s)].live
         /\ LiveIn(s) # None /\ object[LiveIn(s)].home = None => InBlock(LiveIn(s), m)
  BY HomelessInBlock DEF LiveIn, InBlock, DataOf

LEMMA PlacedStep ==
  ASSUME UsableInv, Ownership', PtrNext
  PROVE  Placed'
  <1>0. Ownership /\ TypeOK /\ Coherent /\ RefInv /\ Placed /\ HomeByType
    BY DEF UsableInv, Inv, Placed, Ownership
  <1>1. CASE OwnerStep
    <2>1. Shape
      BY <1>0, <1>1, StepShape DEF OwnerStep
    <2>. QED BY <1>0, <1>1, <2>1, PlacedOwnerStep DEF OwnerStep, SameNameSamePlace
  <1>2. ASSUME NEW p \in Refs, NEW x \in Things, Point(p, x) PROVE Placed'
    BY <1>0, <1>2, PlacedSet DEF Point
  <1>3. ASSUME NEW p \in Refs, NEW s \in Slots, PointHeld(p, s) PROVE Placed'
    <2> DEFINE m == Members(slot[s].type, DataOf(s), InPlace(slot[s].type, TagsOf[p]))
    <2>1. m.type_index_m = slot[s].type /\ m.data_p_m = DataOf(s)
      BY DEF Members
    <2>2. Set(p, m, TRUE, LiveIn(s))
      BY <1>3 DEF PointHeld
    <2> HIDE DEF m
    <2>. QED BY <1>0, <2>1, <2>2, LiveInPlace, PlacedSet
  <1>4. ASSUME NEW p \in Refs, NEW s \in Slots, View(p, s) PROVE Placed'
    <2> DEFINE m == Members(slot[s].type, DataOf(s),
                            Converted(OwnerTable(s), OwnerTags, TagsOf[p]))
    <2>1. m.type_index_m = slot[s].type /\ m.data_p_m = DataOf(s)
      BY DEF Members
    <2>2. Set(p, m, TRUE, LiveIn(s))
      BY <1>4 DEF View
    <2> HIDE DEF m
    <2>. QED BY <1>0, <2>1, <2>2, LiveInPlace, PlacedSet
  <1>5. ASSUME NEW p \in Refs, NEW q \in Refs, NEW m, NEW isStraight,
               m.type_index_m = ref[q].type_index_m, m.data_p_m = ref[q].data_p_m,
               isStraight => straight[q], Set(p, m, isStraight, made[q])
        PROVE  Placed'
    <2>1. /\ made[q] # None => object[made[q]].live
          /\ isStraight /\ made[q] # None /\ object[made[q]].home = None => InBlock(made[q], m)
      BY <1>0, <1>5 DEF Placed, Lasting, InBlock
    <2>. QED BY <1>0, <1>5, <2>1, PlacedSet
  <1>6. ASSUME NEW p \in Refs, NEW q \in Refs, Upcast(p, q) PROVE Placed'
    <2> DEFINE m == [ref[q] EXCEPT !.function_table_m = Converted(@, TagsOf[q], TagsOf[p])]
               kept == straight[q] /\ (isNull(ref[q].function_table_m) \/ InOrder(q))
    <2>1. m.type_index_m = ref[q].type_index_m /\ m.data_p_m = ref[q].data_p_m
      BY <1>0 DEF RefInv, Sound, MembersType
    <2>2. Set(p, m, kept, made[q]) /\ (kept => straight[q])
      BY <1>6 DEF Upcast
    <2> HIDE DEF m, kept
    <2>. QED BY <1>5, <2>1, <2>2
  <1>7. ASSUME NEW p \in Refs, NEW q \in Refs, CopyRef(p, q) PROVE Placed'
    <2> DEFINE m == ref[q]
               kept == straight[q]
    <2>1. /\ m.type_index_m = ref[q].type_index_m /\ m.data_p_m = ref[q].data_p_m
          /\ kept => straight[q]
      OBVIOUS
    <2>2. Set(p, m, kept, made[q])
      BY <1>7 DEF CopyRef
    <2> HIDE DEF m, kept
    <2>. QED BY <1>5, <2>1, <2>2
  <1>8. ASSUME NEW f \in Refs, NEW p \in Refs, NEW tag, Proxy(f, p, tag) PROVE Placed'
    <2> DEFINE m == Members(ref[p].type_index_m, ref[p].data_p_m,
                            OneFunction(FunctionOf(ref[p].function_table_m, TagsOf[p], tag)))
               kept == straight[p]
    <2>1. /\ m.type_index_m = ref[p].type_index_m /\ m.data_p_m = ref[p].data_p_m
          /\ kept => straight[p]
      BY DEF Members
    <2>2. Set(f, m, kept, made[p])
      BY <1>8 DEF Proxy
    <2> HIDE DEF m, kept
    <2>. QED BY <1>5, <2>1, <2>2
  <1>9. ASSUME NEW f \in Refs, NEW s \in Slots, NEW tag, ProxyHeld(f, s, tag) PROVE Placed'
    <2> DEFINE m == Members(slot[s].type, DataOf(s),
                            OneFunction(FunctionOf(OwnerTable(s), OwnerTags, tag)))
    <2>1. m.type_index_m = slot[s].type /\ m.data_p_m = DataOf(s)
      BY DEF Members
    <2>2. Set(f, m, TRUE, LiveIn(s))
      BY <1>9 DEF ProxyHeld
    <2> HIDE DEF m
    <2>. QED BY <1>0, <2>1, <2>2, LiveInPlace, PlacedSet
  <1>10. ASSUME NEW p \in Refs, ResetRef(p) PROVE Placed'
    BY <1>0, <1>10, PlacedSet DEF ResetRef
  <1>11. ASSUME NEW p \in Refs, NEW i \in DOMAIN TagsOf[p], NEW v \in Values,
                CallRef(p, TagsOf[p][i], v)
         PROVE  Placed'
    <2>1. object' = object /\ UNCHANGED refVars
      BY <1>11 DEF CallRef, Stop, vars, Call
    <2>2. \A s \in Slots : /\ slot'[s].state = slot[s].state
                           /\ slot'[s].obj = slot[s].obj
                           /\ slot'[s].block = slot[s].block
                           /\ slot'[s].type = slot[s].type
      <3>1. CASE UNCHANGED slot
        BY <3>1
      <3>2. ASSUME NEW s \in Slots, slot' = [slot EXCEPT ![s].val = v]
            PROVE  \A q \in Slots : /\ slot'[q].state = slot[q].state
                                    /\ slot'[q].obj = slot[q].obj
                                    /\ slot'[q].block = slot[q].block
                                    /\ slot'[q].type = slot[q].type
        BY <1>0, <3>2 DEF TypeOK, SlotType
      <3>. QED BY <1>11, <3>1, <3>2 DEF CallRef, Stop, vars, Call, Housing
    <2>. QED BY <1>0, <2>1, <2>2 DEF Placed, HomeByType, Lasting, InBlock, refVars
  <1>. QED BY <1>1, <1>2, <1>3, <1>4, <1>6, <1>7, <1>8, <1>9, <1>10, <1>11 DEF PtrNext

LEMMA UsableInit == PtrInit => UsableInv
  BY InvInit DEF PtrInit, Init, UsableInv, Placed, HomeByType, Lasting, Dead

LEMMA UsableStep == UsableInv /\ [PtrNext]_<<vars, refVars>> => UsableInv'
  <1> SUFFICES ASSUME UsableInv, [PtrNext]_<<vars, refVars>> PROVE UsableInv'
    OBVIOUS
  <1>1. Inv' /\ Ownership'
    BY InvStep DEF UsableInv, Inv
  <1>2. CASE UNCHANGED <<vars, refVars>>
    BY <1>1, <1>2 DEF UsableInv, Placed, HomeByType, Lasting, InBlock, vars, refVars
  <1>. QED BY <1>1, <1>2, PlacedStep DEF UsableInv

\* A pointer whose object lives in a block finds it there, under each tag.
LEMMA UsableInvImplies == UsableInv => UsableWhileAlive
  <1> SUFFICES ASSUME UsableInv, NEW p \in Refs, Lasting(p)
               PROVE  /\ Resides(made[p], ref[p].data_p_m)
                      /\ \A i \in DOMAIN TagsOf[p] : CallOutcome(p, TagsOf[p][i]) = "running"
    BY DEF UsableWhileAlive, Lasting
  <1> DEFINE a == ref[p].data_p_m
             T == ref[p].type_index_m
  <1>1. PICK s \in Slots : /\ slot[s].state = "fallback"
                           /\ slot[s].obj = made[p]
                           /\ slot[s].block = a
                           /\ slot[s].type = T
    BY DEF UsableInv, Placed, InBlock
  <1>2. /\ made[p] # None
        /\ object[made[p]].live
        /\ straight[p]
        /\ Sound(ref[p], TagsOf[p], straight[p])
        /\ TypeOK /\ BlocksHeldOnce /\ Coherent
    BY DEF UsableInv, Placed, Lasting, Inv, RefInv, Ownership
  <1>3. a # None /\ a \in Blocks
    BY <1>1, <1>2 DEF BlocksHeldOnce, TypeOK, SlotType, Opt
  <1>4. s \in Housing(a)
    BY <1>1 DEF Housing, DataOf
  <1>5. Suits(T, a)
    <2>1. a \notin Things
      BY <1>3, AddressesAssumption
    <2>2. object[made[p]].type = T
      BY <1>1, <1>2 DEF Coherent
    <2>3. ~Displaced(s, object)
      BY <1>1 DEF Displaced
    <2>. QED BY <1>1, <1>2, <1>4, <2>1, <2>2, <2>3 DEF Suits
  <1>6. ~isNull(ref[p].function_table_m)
    BY <1>2, <1>3 DEF Sound
  <1>7. \A i \in DOMAIN TagsOf[p] : Target(p, TagsOf[p][i]) = <<TagsOf[p][i], T>>
    BY <1>2, <1>6 DEF Sound, Finds, Target
  <1>8. Resides(made[p], a)
    BY <1>1, <1>4 DEF Resides
  <1> HIDE DEF a, T
  <1>9. ASSUME NEW i \in DOMAIN TagsOf[p] PROVE CallOutcome(p, TagsOf[p][i]) = "running"
    BY <1>3, <1>5, <1>6, <1>7 DEF CallOutcome, a
  <1>. QED BY <1>8, <1>9 DEF a

\* While an object in a block lives, the pointers and proxies made for it can be called
\* under each of their tags, whatever the Polymorphics do.  Moves hand the block on with the
\* object, and nothing else than the end of the object takes the two apart.
THEOREM UsableWhileAliveHolds == PtrSpec => []UsableWhileAlive
  <1>1. PtrSpec => []UsableInv
    BY UsableInit, UsableStep, PTL DEF PtrSpec
  <1>. QED BY <1>1, UsableInvImplies, PTL

=============================================================================
