--------------------------- MODULE PolymorphicPtr ---------------------------
(***************************************************************************)
(* PolymorphicPtr: a type index, a pointer to an object that somebody else *)
(* owns and a VTable, here over the objects of Polymorphic and over        *)
(* variables of the program.  Constructors and assignments overwrite the   *)
(* three members alike, so one action stands for both.  FunctionProxy,     *)
(* which operator[] returns, is the pointer and one function: it is kept   *)
(* like a PolymorphicPtr of a class with one tag.                          *)
(***************************************************************************)
EXTENDS Polymorphic, VTable

CONSTANTS
  Refs,      \* variables of PolymorphicPtr classes, and FunctionProxies
  TagsOf,    \* TagsOf[p]: the tags of the class of p, in order
  OwnerTags, \* the tags of the Polymorphic's table, obj_dtor_tag first
  Things,    \* objects that are variables of the program
  TypeOf     \* their types

Distinct(tags) == \A i, j \in DOMAIN tags : tags[i] = tags[j] => i = j

ASSUME RefsAssumption ==
  /\ \A p \in Refs : TagsOf[p] \in Seq(STRING) /\ TagsOf[p] # <<>> /\ Distinct(TagsOf[p])
  /\ OwnerTags \in Seq(STRING) /\ OwnerTags # <<>> /\ Distinct(OwnerTags)
  /\ TypeOf \in [Things -> Types]

\* A slot stands for the address of its buffer, a block and a thing for their own.
ASSUME AddressesAssumption ==
  /\ Slots \cap Blocks = {}
  /\ (Slots \cup Blocks) \cap Things = {}
  /\ Objects \cap Things = {}
  /\ None \notin Things

VARIABLES
  ref,       \* the members of each PolymorphicPtr
  straight,  \* history: it was not converted from one with permuted functions
  made       \* history: the object of a Polymorphic it was made for, while that lives

refVars == <<ref, straight, made>>

Addresses == Slots \cup Blocks \cup Things

Members(type, data, vtable) ==
  [type_index_m |-> type, data_p_m |-> data, function_table_m |-> vtable]

PtrInit ==
  /\ Init
  /\ ref = [p \in Refs |-> Members(None, None, EmptyVTable(TagsOf[p]))]
  /\ straight = [p \in Refs |-> TRUE]
  /\ made = [p \in Refs |-> None]

-----------------------------------------------------------------------------
(* What is where.                                                           *)

\* Slip: the address of the buffer, wherever the object is.
DataOfBuffer(s) == IF Holds(s) THEN s ELSE None

\* data() of a Polymorphic.
DataOf(s) ==
  IF slot[s].state = "stack" THEN s
  ELSE IF slot[s].state = "fallback" THEN slot[s].block
  ELSE None

\* The table of a Polymorphic: always the array of its own tags, in order.
OwnerTable(s) ==
  IF slot[s].table = None THEN EmptyVTable(OwnerTags) ELSE InPlace(slot[s].table, OwnerTags)

\* The slots whose storage is at the address a.
Housing(a) == {s \in Slots : DataOf(s) = a}

\* The object o is at the address a.
Resides(o, a) == \E s \in Housing(a) : slot[s].obj = o

\* The object a pointer into slot s is made for.
LiveIn(s) ==
  IF slot[s].obj # None /\ object[slot[s].obj].live THEN slot[s].obj ELSE None

-----------------------------------------------------------------------------
(* Making a PolymorphicPtr.                                                 *)

Set(p, members, isStraight, o) ==
  /\ outcome = "running"
  /\ ref' = [ref EXCEPT ![p] = members]
  /\ straight' = [straight EXCEPT ![p] = isStraight]
  /\ made' = [made EXCEPT ![p] = o]
  /\ UNCHANGED vars

\* From a pointer or a reference to a variable.
Point(p, x) == Set(p, Members(TypeOf[x], x, InPlace(TypeOf[x], TagsOf[p])), TRUE, None)

\* From data() of a Polymorphic, cast to the type it names: null when it was moved from.
PointHeld(p, s) ==
  /\ Ready(s)
  /\ slot[s].type # None
  /\ Set(p, Members(slot[s].type, DataOf(s), InPlace(slot[s].type, TagsOf[p])),
         TRUE, LiveIn(s))

\* From a Polymorphic.
View(p, s) ==
  /\ Ready(s)
  /\ Convertible(OwnerTags, TagsOf[p])
  /\ Set(p, Members(slot[s].type, DataOf(s), Converted(OwnerTable(s), OwnerTags, TagsOf[p])),
         TRUE, LiveIn(s))

\* The table of q has each function where its class has the tag.
InOrder(q) ==
  \A i \in DOMAIN TagsOf[q] : ref[q].function_table_m.permutations[i] = i

\* From a PolymorphicPtr of another class: more tags, or the same in another order.
Upcast(p, q) ==
  /\ Convertible(TagsOf[q], TagsOf[p])
  /\ Set(p, [ref[q] EXCEPT !.function_table_m = Converted(@, TagsOf[q], TagsOf[p])],
         straight[q] /\ (isNull(ref[q].function_table_m) \/ InOrder(q)), made[q])

CopyRef(p, q) ==
  /\ p # q
  /\ TagsOf[p] = TagsOf[q]
  /\ Set(p, ref[q], straight[q], made[q])

\* operator[] of p: the function and the pointer as they are now, called only when its arguments
\* were evaluated, which may do anything to p.  (A null table ends the program, see CallRef.)
Proxy(f, p, tag) ==
  /\ TagsOf[f] = <<tag>>
  /\ \E i \in DOMAIN TagsOf[p] : TagsOf[p][i] = tag
  /\ ~isNull(ref[p].function_table_m)
  /\ Set(f, Members(ref[p].type_index_m, ref[p].data_p_m,
                    OneFunction(FunctionOf(ref[p].function_table_m, TagsOf[p], tag))),
         straight[p], made[p])

\* operator[] of a Polymorphic.
ProxyHeld(f, s, tag) ==
  /\ Ready(s)
  /\ TagsOf[f] = <<tag>>
  /\ \E i \in DOMAIN OwnerTags : OwnerTags[i] = tag
  /\ ~isNull(OwnerTable(s))
  /\ Set(f, Members(slot[s].type, DataOf(s),
                    OneFunction(FunctionOf(OwnerTable(s), OwnerTags, tag))),
         TRUE, LiveIn(s))

\* Slip: the pointer is left.
ResetRefTable(p) ==
  Set(p, Members(None, ref[p].data_p_m, reset(ref[p].function_table_m)), TRUE, None)

ResetRef(p) == Set(p, Members(None, None, reset(ref[p].function_table_m)), TRUE, None)

-----------------------------------------------------------------------------
(* Calls.                                                                   *)

Target(p, tag) == FunctionOf(ref[p].function_table_m, TagsOf[p], tag)

\* A function of type T finds an object of its type at the address a.
Suits(T, a) ==
  IF a \in Things THEN TypeOf[a] = T
  ELSE \E s \in Housing(a) :
         /\ slot[s].obj # None
         /\ object[slot[s].obj].live
         /\ object[slot[s].obj].type = T
         /\ ~Displaced(s, object)

CallOutcome(p, tag) ==
  IF isNull(ref[p].function_table_m) THEN "null_table"
  ELSE IF ref[p].data_p_m = None THEN "null_object"
  ELSE IF Target(p, tag)[1] # tag THEN "wrong_function"
  ELSE IF ~Suits(Target(p, tag)[2], ref[p].data_p_m) THEN "dangling"
  ELSE "running"

\* call<Tag>(), and operator() of a FunctionProxy: a function of the object changes its value.
CallRef(p, tag, v) ==
  /\ outcome = "running"
  /\ \/ CallOutcome(p, tag) # "running" /\ Stop(CallOutcome(p, tag))
     \/ /\ CallOutcome(p, tag) = "running"
        /\ IF ref[p].data_p_m \in Things THEN UNCHANGED vars
           ELSE \E s \in Housing(ref[p].data_p_m) : Call(s, v)
  /\ UNCHANGED refVars

-----------------------------------------------------------------------------

\* An operation of a Polymorphic.  An object built where another one was destroyed goes
\* by another name, unless it is of the same type in the very same place.
OwnerStep ==
  /\ Next
  /\ \A s \in Slots : slot'[s].obj # None /\ slot'[s].obj = slot[s].obj =>
       slot'[s].block = slot[s].block /\ slot'[s].table = slot[s].table
  /\ made' = [p \in Refs |->
       IF made[p] # None /\ object'[made[p]].live THEN made[p] ELSE None]
  /\ UNCHANGED <<ref, straight>>

PtrNext ==
  \/ OwnerStep
  \/ \E p \in Refs :
       \/ \E x \in Things : Point(p, x)
       \/ \E s \in Slots : PointHeld(p, s) \/ View(p, s)
       \/ \E q \in Refs : Upcast(p, q) \/ CopyRef(p, q) \/ Proxy(p, q, TagsOf[p][1])
       \/ \E s \in Slots : ProxyHeld(p, s, TagsOf[p][1])
       \/ ResetRef(p)
       \/ \E i \in DOMAIN TagsOf[p], v \in Values : CallRef(p, TagsOf[p][i], v)

PtrSpec == PtrInit /\ [][PtrNext]_<<vars, refVars>>

-----------------------------------------------------------------------------
(* Properties.                                                              *)

VTableType(tags) ==
  [function_table : Seq(STRING \X Types), permutations : [DOMAIN tags -> Nat \ {0}]]

\* The members have their types: one position for each tag of the class.
PtrTypeOK ==
  /\ DOMAIN ref = Refs
  /\ \A p \in Refs : ref[p] \in
       [type_index_m : Opt(Types), data_p_m : Opt(Addresses),
        function_table_m : VTableType(TagsOf[p])]
  /\ straight \in [Refs -> BOOLEAN]
  /\ made \in [Refs -> Opt(Objects)]

\* However conversions are chained, no call reads a function beyond the array.
IndexInTable ==
  \A p \in Refs : ~isNull(ref[p].function_table_m) =>
    \A i \in DOMAIN TagsOf[p] :
      ref[p].function_table_m.permutations[i] \in DOMAIN ref[p].function_table_m.function_table

\* A PolymorphicPtr made from an object, a Polymorphic or a PolymorphicPtr whose functions
\* are in order finds under each of its tags the function of that tag and of the type
\* its type index names.
RightFunction ==
  \A p \in Refs : straight[p] /\ ~isNull(ref[p].function_table_m) =>
    \A i \in DOMAIN TagsOf[p] : Target(p, TagsOf[p][i]) = <<TagsOf[p][i], ref[p].type_index_m>>

\* isEmpty looks at the pointer and operator[] asserts a table: a PolymorphicPtr that is
\* not empty can be called, also one made from a Polymorphic in any state.
NotEmptyHasTable ==
  \A p \in Refs : ref[p].data_p_m # None => ~isNull(ref[p].function_table_m)

\* While the object in a block lives, every PolymorphicPtr made for it, and every proxy made
\* of one or of the Polymorphic, can be called under each of its tags, whatever happens to
\* what it was made from: Polymorphics hand the block on, and no call finds another object
\* there.
UsableWhileAlive ==
  \A p \in Refs :
    straight[p] /\ made[p] # None /\ object[made[p]].home = None =>
      /\ Resides(made[p], ref[p].data_p_m)
      /\ \A i \in DOMAIN TagsOf[p] : CallOutcome(p, TagsOf[p][i]) = "running"

\* README.md:168: "Any polymorphic can be 'upcasted' to `PolymorphcPtr` with less amount
\* of functions", and is called through it.
UpcastFindsFunction ==
  \A p \in Refs : ~isNull(ref[p].function_table_m) =>
    \A i \in DOMAIN TagsOf[p] : Target(p, TagsOf[p][i])[1] = TagsOf[p][i]

=============================================================================
