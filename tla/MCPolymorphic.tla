--------------------------- MODULE MCPolymorphic ---------------------------
(***************************************************************************)
(* Polymorphic on a small instance.  Objects, blocks and slots are         *)
(* interchangeable; types are told apart by where they are stored and by   *)
(* whether they throw and relocate.                                        *)
(***************************************************************************)
EXTENDS Polymorphic, TLC

CONSTANTS small, pinned, big, bulk, arena

MCResources == {Mallocator, arena}

\* small fits in the buffer; pinned does too and points into itself; big and bulk do
\* not fit.  The constructors of pinned and big may throw.
AllTypes == {small, pinned, big, bulk}
InlineTypes == {small, pinned}
ThrowingTypes == {pinned, big}
RelocatableTypes == {small, big, bulk}

Interchangeable ==
  Permutations(Objects) \cup Permutations(Blocks) \cup Permutations(Slots)
    \cup Permutations(Values)

=============================================================================
