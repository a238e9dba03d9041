---------------------- MODULE MCPolymorphicAllocator ----------------------
(***************************************************************************)
(* PolymorphicAllocator on a small instance: a stack with room for padding *)
(* and one for a single byte, two Mallocators, a heap, and types of two    *)
(* sizes and alignments.                                                   *)
(***************************************************************************)
EXTENDS PolymorphicAllocator, TLC

CONSTANTS a1, a2, byte, word, other

MCStacks == {a1, a2}
MCMallocators == {Mallocator, other}
MCBase == (a1 :> 8) @@ (a2 :> 16)
MCS == (a1 :> 5) @@ (a2 :> 1)
MCTypes == {byte, word}
MCSizeOf == (byte :> 1) @@ (word :> 2)
MCAlignOf == (byte :> 1) @@ (word :> 2)
MCRawRequests == {<<1, 2>>}

Interchangeable == Permutations(Allocators)

=============================================================================
