-------------------------- MODULE MCPolymorphicPtr --------------------------
(***************************************************************************)
(* PolymorphicPtr on a small instance: two Polymorphics of a class with    *)
(* two functions, and PolymorphicPtrs with both of them in the other order *)
(* and with one of them.                                                  *)
(***************************************************************************)
EXTENDS PolymorphicPtr, TLC

CONSTANTS small, big, x, p1, p2, p3

MCTypes == {small, big}
MCInline == {small}
MCThrowing == {}
MCRelocatable == MCTypes
MCResources == {Mallocator}
MCRefs == {p1, p2, p3}
MCTagsOf == (p1 :> <<"b", "a">>) @@ (p2 :> <<"b">>) @@ (p3 :> <<"b">>)
MCOwnerTags == <<"dtor", "a", "b">>
MCThings == {x}
MCTypeOf == x :> small

Interchangeable == Permutations(Objects) \cup Permutations(Blocks) \cup Permutations(Slots)
    \cup Permutations({p2, p3})

=============================================================================
