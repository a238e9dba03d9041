------------------------------- MODULE VTable -------------------------------
(***************************************************************************)
(* VTable<TaggedSignature<Tags, Signatures>...>: a pointer to an array of  *)
(* functions and, for each tag of the class, its position in that array.   *)
(* The array of type T for some tags is shared by everyone who uses T with *)
(* these tags in this order.  A function is known by its tag and its type. *)
(* Positions count from 1; the null pointer is the array without functions.*)
(***************************************************************************)
EXTENDS Integers, Sequences

VTableStorage(T, tags) == [i \in DOMAIN tags |-> <<tags[i], T>>]

\* Slip: the position after the tag's.
index_ofNext(tag, tags) == 1 + CHOOSE i \in DOMAIN tags : tags[i] = tag

index_of(tag, tags) == CHOOSE i \in DOMAIN tags : tags[i] = tag

\* The default constructor.
EmptyVTable(tags) ==
  [function_table |-> <<>>, permutations |-> [i \in DOMAIN tags |-> 1]]

\* The constructor from std::in_place_type_t<T>, and the assignment.
InPlace(T, tags) ==
  [function_table |-> VTableStorage(T, tags), permutations |-> [i \in DOMAIN tags |-> i]]

\* Slip: the table is copied as it is.
ConvertedWhole(rhs, rhsTags, tags) == rhs

\* Slip: the first positions of rhs are taken over.
ConvertedPrefix(rhs, rhsTags, tags) ==
  [rhs EXCEPT !.permutations = [i \in DOMAIN tags |-> rhs.permutations[i]]]

\* The constructors and assignments from a table of the class with rhsTags: the array of
\* rhs, at the positions the tags have in rhsTags; rhs.permutations is not looked at.
Converted(rhs, rhsTags, tags) ==
  [function_table |-> rhs.function_table,
   permutations |-> [i \in DOMAIN tags |-> index_of(tags[i], rhsTags)]]

\* The function of a FunctionProxy.
OneFunction(fn) == [function_table |-> <<fn>>, permutations |-> <<1>>]

reset(vtable) == [vtable EXCEPT !.function_table = <<>>]

isNull(vtable) == vtable.function_table = <<>>

\* operator[]
FunctionOf(vtable, tags, tag) ==
  vtable.function_table[vtable.permutations[index_of(tag, tags)]]

\* A class with all tags of this one, and more or in another order, converts to it.
Convertible(rhsTags, tags) ==
  /\ rhsTags # tags
  /\ Len(tags) <= Len(rhsTags)
  /\ \A i \in DOMAIN tags : \E j \in DOMAIN rhsTags : rhsTags[j] = tags[i]

=============================================================================
