-------------------------------- MODULE Tuple --------------------------------
(***************************************************************************)
(* Tuple and TupleMap: variables of a program that are built from values,  *)
(* copied, moved, converted into one another, swapped and destroyed,       *)
(* element by element.  A TupleMap is a Tuple whose elements are found by  *)
(* tag; a Tuple is described here as one whose tags are the positions.     *)
(*                                                                         *)
(* Which function a conversion between two TupleMaps calls is settled by   *)
(* overload resolution: the converting functions of TupleMap pair the      *)
(* elements by tag, those it inherits from Tuple by position.              *)
(*                                                                         *)
(* A number is counted in halves, so that some are whole and some are not. *)
(***************************************************************************)
EXTENDS TupleLayout, TupleCat, SequencesExt

CONSTANTS
  Integral, Floating, \* arithmetic types, which convert into each other
  Throwing,           \* class types: copies may throw, moves do not
  Values,
  Given,              \* Given[t]: the value that the program gives for the tag t
  GivenPair,          \* the std::pair that the program has
  Raw, Moved,         \* storage without an object; what a move leaves of a class type
  MaxCat              \* bound: how many tuples are concatenated

ASSUME ValuesAssumption ==
  /\ Types = Integral \cup Floating \cup Throwing
  /\ Throwing \cap (Integral \cup Floating) = {}
  /\ Values \subseteq Nat
  /\ 0 \in Values
  /\ \A v \in Values : 2 * (v \div 2) \in Values
  /\ Given \in [Tags -> Values]
  /\ GivenPair \in [1..2 -> Values]
  /\ Moved \in Nat \ Values
  /\ Raw \notin Int

ASSUME MaxCatAssumption == MaxCat \in Nat

VARIABLES
  live,     \* live[s]: the variable is in its lifetime
  element,  \* element[s]: the values of its elements, Raw where none is alive
  threw,    \* the last call ended by an exception
  outcome   \* "running", or "terminated" by an exception leaving a noexcept function

tupleVars == <<live, element, threw, outcome>>
vars == <<layoutVars, tupleVars>>

-----------------------------------------------------------------------------
(* Classes.                                                                 *)

Positions(s) == DOMAIN fields[s]
TagsOf(s) == {fields[s][i].tag : i \in Positions(s)}

IsTuple(list) == \A i \in DOMAIN list : list[i].tag = i
IsMap(s) == ~IsTuple(fields[s])

SameClass(d, s) == fields[d] = fields[s]
SameSize(d, s) == Len(fields[d]) = Len(fields[s])

Position(s, tag) == CHOOSE i \in Positions(s) : fields[s][i].tag = tag

TagsDiffer(d, s) == \A i \in Positions(d) : fields[d][i].tag # fields[s][i].tag
TypesDiffer(d, s) == \A i \in Positions(d) : fields[d][i].type # fields[s][i].type

\* Of which elements of s those of d are made.
ByPosition(d) == [i \in Positions(d) |-> i]
\* Slip: the tag is looked up in the wrong map.
ByOwnTag(d, s) == [i \in Positions(d) |-> Position(d, fields[d][i].tag)]

ByTag(d, s) == [i \in Positions(d) |-> Position(s, fields[d][i].tag)]

Converts(from, to) == from = to \/ {from, to} \subseteq Integral \cup Floating

ConvertsTo(d, s, from) ==
  \A i \in Positions(d) : Converts(fields[s][from[i]].type, fields[d][i].type)

ConvertedTo(type, value) == IF type \in Integral THEN 2 * (value \div 2) ELSE value

\* The converting constructors and the move assignment of TupleMap take part in
\* overload resolution; the copy assignment looks at the tags only.
PairsByTag(d, s, byTypes) ==
  /\ IsMap(d) /\ IsMap(s)
  /\ SameSize(d, s)
  /\ TagsOf(d) = TagsOf(s)
  /\ TagsDiffer(d, s) \/ (byTypes /\ TypesDiffer(d, s))

\* What the functions inherited from Tuple need of a pair of TaggedValues.
Constructible(to, from) == to.type = from.type
Assignable(to, from) == to.tag = from.tag \/ to.type = from.type

-----------------------------------------------------------------------------
(* Transfers.                                                               *)

\* Where a sequence of element operations on d may stop; behind the last
\* element when none throws.
Stops(d, copied) ==
  {Len(fields[d]) + 1} \cup {i \in Positions(d) : copied /\ fields[d][i].type \in Throwing}

Filled(d, s, from, stop) ==
  [i \in Positions(d) |->
     IF i < stop THEN ConvertedTo(fields[d][i].type, element[s][from[i]]) ELSE element[d][i]]

Emptied(d, s, from, stop) ==
  [j \in Positions(s) |->
     IF fields[s][j].type \in Throwing /\ \E i \in Positions(d) : i < stop /\ from[i] = j
     THEN Moved
     ELSE element[s][j]]

\* The elements of d are built or assigned from those of s, in the order of d.
Transfer(d, s, from, copied, stop) ==
  /\ ConvertsTo(d, s, from)
  /\ element' = [element EXCEPT ![d] = Filled(d, s, from, stop),
                                ![s] = IF copied THEN @ ELSE Emptied(d, s, from, stop)]
  /\ threw' = (stop \in Positions(d))
  /\ UNCHANGED layoutVars

\* Slip: a variable whose constructor throws counts as built.
BuildAnyway(d, s, from, copied) ==
  /\ ~live[d] /\ live[s]
  /\ \E stop \in Stops(d, copied) : Transfer(d, s, from, copied, stop)
  /\ live' = [live EXCEPT ![d] = TRUE]
  /\ UNCHANGED outcome

\* A constructor that throws leaves the elements built so far in the storage:
\* the destructor of the TupleStorage does not run.
Build(d, s, from, copied) ==
  /\ ~live[d] /\ live[s]
  /\ \E stop \in Stops(d, copied) : Transfer(d, s, from, copied, stop)
  /\ live' = [live EXCEPT ![d] = ~threw']
  /\ UNCHANGED outcome

Assign(d, s, from, copied, nothrow) ==
  /\ live[d] /\ live[s]
  /\ \E stop \in Stops(d, copied) : Transfer(d, s, from, copied, stop)
  /\ outcome' = IF threw' /\ nothrow THEN "terminated" ELSE outcome
  /\ UNCHANGED live

Running == outcome = "running" /\ \A s \in Slots : LaidOut(s)

-----------------------------------------------------------------------------
(* Calls.                                                                   *)

DefaultConstruct(s) ==
  /\ Running /\ ~live[s]
  /\ live' = [live EXCEPT ![s] = TRUE]
  /\ element' = [element EXCEPT ![s] = [i \in Positions(s) |-> 0]]
  /\ threw' = FALSE
  /\ UNCHANGED <<layoutVars, outcome>>

\* The elements before the one that throws get the values given.
Receive(s, values, copied) ==
  /\ \E stop \in Stops(s, copied) :
       /\ element' = [element EXCEPT ![s] =
            [i \in Positions(s) |->
               IF i < stop THEN ConvertedTo(fields[s][i].type, values[i]) ELSE @[i]]]
       /\ threw' = (stop \in Positions(s))
  /\ UNCHANGED <<layoutVars, outcome>>

ConstructFrom(s, values, copied) ==
  /\ Running /\ ~live[s]
  /\ Receive(s, values, copied)
  /\ live' = [live EXCEPT ![s] = ~threw']

\* From one value for each element.
ValueConstruct(s) ==
  ConstructFrom(s, [i \in Positions(s) |-> Given[fields[s][i].tag]], TRUE)

\* From a pair, and assignment of one: by position, also to a map.
PairConstruct(s, copied) ==
  /\ Len(fields[s]) = 2
  /\ ConstructFrom(s, GivenPair, copied)

PairAssign(s, copied) ==
  /\ Running /\ live[s]
  /\ Len(fields[s]) = 2
  /\ Receive(s, GivenPair, copied)
  /\ UNCHANGED live

\* The copy constructor and the move constructor.
Construct(d, s, copied) ==
  /\ Running /\ SameClass(d, s)
  /\ Build(d, s, ByPosition(d), copied)

\* From an object of another class.
ConvertingConstruct(d, s, copied) ==
  /\ Running /\ ~SameClass(d, s) /\ SameSize(d, s)
  /\ IF PairsByTag(d, s, TRUE)
     THEN Build(d, s, ByTag(d, s), copied)
     ELSE /\ IsMap(d) => \A i \in Positions(d) : Constructible(fields[d][i], fields[s][i])
          /\ Build(d, s, ByPosition(d), copied)

\* tupleMapSubMap: a map of some of the tags of another.
SubMap(d, s, copied) ==
  /\ Running /\ d # s /\ IsMap(d) /\ IsMap(s)
  /\ \A i \in Positions(d) : \E j \in Positions(s) : fields[s][j] = fields[d][i]
  /\ Build(d, s, ByTag(d, s), copied)

\* The copy assignment, which TupleMap declares noexcept, and the move assignment.
AssignSame(d, s, copied) ==
  /\ Running /\ SameClass(d, s)
  /\ d # s
  /\ Assign(d, s, ByPosition(d), copied, IsMap(d))

\* From an object of another class.
ConvertingAssign(d, s, copied) ==
  /\ Running /\ ~SameClass(d, s) /\ SameSize(d, s)
  /\ IF PairsByTag(d, s, ~copied)
     THEN Assign(d, s, ByTag(d, s), copied, FALSE)
     ELSE /\ IsMap(d) => \A i \in Positions(d) : Assignable(fields[d][i], fields[s][i])
          /\ Assign(d, s, ByPosition(d), copied, FALSE)

\* An assignment to itself returns at once, and the swap of an element with
\* itself ends with the value it had.
WithItself(s) ==
  /\ Running /\ live[s]
  /\ threw' = FALSE
  /\ UNCHANGED <<layoutVars, live, element, outcome>>

\* swap of each element of one with that of the other: three moves.
Swap(d, s) ==
  /\ Running /\ SameClass(d, s) /\ d # s /\ live[d] /\ live[s]
  /\ element' = [element EXCEPT ![d] = element[s], ![s] = element[d]]
  /\ threw' = FALSE
  /\ UNCHANGED <<layoutVars, live, outcome>>

Destroy(s) ==
  /\ Running /\ live[s]
  /\ live' = [live EXCEPT ![s] = FALSE]
  /\ element' = [element EXCEPT ![s] = [i \in Positions(s) |-> Raw]]
  /\ threw' = FALSE
  /\ UNCHANGED <<layoutVars, outcome>>

Init ==
  /\ LayoutInit
  /\ (\A s \in Slots : IsTuple(fields[s])) \/ (\A s \in Slots : IsMap(s))
  /\ live = [s \in Slots |-> FALSE]
  /\ element = [s \in Slots |-> [i \in Positions(s) |-> Raw]]
  /\ threw = FALSE
  /\ outcome = "running"

Compile == \E s \in Slots : LayOut(s) /\ UNCHANGED tupleVars

One(s) ==
  \/ DefaultConstruct(s) \/ ValueConstruct(s) \/ WithItself(s) \/ Destroy(s)
  \/ \E copied \in BOOLEAN : PairConstruct(s, copied) \/ PairAssign(s, copied)

Two(d, s) ==
  \/ Swap(d, s)
  \/ \E copied \in BOOLEAN :
       \/ Construct(d, s, copied)
       \/ ConvertingConstruct(d, s, copied)
       \/ SubMap(d, s, copied)
       \/ AssignSame(d, s, copied)
       \/ ConvertingAssign(d, s, copied)

Next ==
  \/ Compile
  \/ \E s \in Slots : One(s)
  \/ \E d, s \in Slots : Two(d, s)

Spec == Init /\ [][Next]_vars

-----------------------------------------------------------------------------
(* Comparison and concatenation: functions that only read.                  *)

EqualByPosition(lhs, rhs) == \A i \in DOMAIN lhs : lhs[i] = rhs[i]

EqualByTag(d, s) ==
  \A i \in Positions(d) : element[d][i] = element[s][Position(s, fields[d][i].tag)]

Equal(d, s) ==
  IF IsMap(d) THEN EqualByTag(d, s) ELSE EqualByPosition(element[d], element[s])

\* Slip: equal elements end the comparison.
LessAtFirst(lhs, rhs) == lhs # <<>> /\ lhs[1] < rhs[1]

\* The elements from the i-th decide if those before are equivalent.
Less(lhs, rhs) ==
  LET less[i \in 1..(Len(lhs) + 1)] ==
        /\ i <= Len(lhs)
        /\ \/ lhs[i] < rhs[i]
           \/ ~(rhs[i] < lhs[i]) /\ less[i + 1]
  IN less[1]

-----------------------------------------------------------------------------
StorageOf(type) == Values \cup {Raw} \cup (IF type \in Throwing THEN {Moved} ELSE {})

\* Types, and a variable in its lifetime has all its elements.
TupleTypeOK ==
  /\ fields \in [Slots -> FieldLists]
  /\ live \in [Slots -> BOOLEAN]
  /\ DOMAIN element = Slots
  /\ \A s \in Slots :
       /\ DOMAIN element[s] = Positions(s)
       /\ \A i \in Positions(s) :
            /\ element[s][i] \in StorageOf(fields[s][i].type)
            /\ live[s] => element[s][i] # Raw
  /\ threw \in BOOLEAN
  /\ outcome \in {"running", "terminated"}

Converting(d, s, copied) ==
  ConvertingConstruct(d, s, copied) \/ ConvertingAssign(d, s, copied)

\* Some tags of the maps are at the same position in both and some are not, or
\* they are not the same tags.
Mispaired(d, s) ==
  /\ \E i \in Positions(d) : fields[d][i].tag # fields[s][i].tag
  /\ ~(TagsOf(d) = TagsOf(s) /\ TagsDiffer(d, s))

\* What each element of d is made of has its tag in s.
FromItsTag(d, s) ==
  \A i \in Positions(d) : \E j \in Positions(s) :
    /\ fields[s][j].tag = fields[d][i].tag
    /\ element'[d][i] = ConvertedTo(fields[d][i].type, element[s][j])

\* A copy, move, conversion or sub-map that returns has in each element the value
\* that the source had under the same tag (for a Tuple: at the same position);
\* the exception are conversions of Mispaired maps, which the code makes by
\* position: TupleMap's and Tuple's constructors and assignments, tupleMapSubMap.
TransfersByTag ==
  [][\A d, s \in Slots : \A copied \in BOOLEAN :
       /\ \/ Construct(d, s, copied)
          \/ AssignSame(d, s, copied)
          \/ SubMap(d, s, copied)
          \/ Converting(d, s, copied) /\ ~Mispaired(d, s)
       /\ ~threw'
       => FromItsTag(d, s)]_vars

Contents(s) == {<<fields[s][i].tag, element[s][i]>> : i \in Positions(s)}

\* The order of std::tuple.
Lexicographic(lhs, rhs) ==
  \E k \in DOMAIN lhs : lhs[k] < rhs[k] /\ \A i \in 1..(k - 1) : lhs[i] = rhs[i]

Comparable(d, s) ==
  /\ live[d] /\ live[s]
  /\ SameSize(d, s) /\ TagsOf(d) = TagsOf(s)
  /\ ConvertsTo(d, s, ByTag(d, s))

\* Equality, order, tupleCat and apply answer as those of std::tuple, whose replacement
\* Tuple is: two are equal that have equal values under the same tags, tuples are
\* ordered by the first elements that differ, and a concatenation has the elements
\* of its arguments, empty ones among them, in their order; apply to several tuples
\* calls its function with the same.
AnswersLikeStdTuple ==
  /\ \A d, s \in Slots :
       Comparable(d, s) =>
         /\ Equal(d, s) <=> Contents(d) = Contents(s)
         /\ ~IsMap(d) => (Less(element[d], element[s]) <=> Lexicographic(element[d], element[s]))
  /\ \A n \in 1..MaxCat : \A args \in [1..n -> {s \in Slots : live[s] /\ ~IsMap(s)}] :
       LET tuples == [k \in 1..n |-> element[args[k]]]
       IN /\ Concatenated(tuples) = FlattenSeq(tuples)
          /\ Applied(tuples) = FlattenSeq(tuples)

\* What the documentation of TupleMap says: maps with the same tags in another
\* order are constructible from and comparable with each other.  So a map that was
\* made of another, with the same types under the same tags, is equal to it.
ConvertedIsEqual ==
  [][\A d, s \in Slots :
       /\ ConvertingConstruct(d, s, TRUE) /\ ~threw'
       /\ IsMap(d)
       /\ {fields[d][i] : i \in Positions(d)} = {fields[s][i] : i \in Positions(s)}
       => Equal(d, s)']_vars
=============================================================================
