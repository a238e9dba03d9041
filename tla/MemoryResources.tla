-------------------------- MODULE MemoryResources --------------------------
(***************************************************************************)
(* The memory resources of memory/: StackAllocator, which hands out its    *)
(* own buffer from the bottom up and takes back only the topmost block,    *)
(* and Mallocator, which rounds a request up to its alignment and passes   *)
(* it to aligned_alloc.  Addresses are numbers.                            *)
(*                                                                         *)
(* The operators below say when a request is granted and what it does; the *)
(* module that calls them says who asks.                                   *)
(***************************************************************************)
EXTENDS Integers, FiniteSets

CONSTANTS
  Stacks,     \* StackAllocator<S> objects
  Mallocators,\* Mallocator objects: stateless, all of them use the one heap
  Base,       \* Base[a]: the address of stack_m in a
  S,          \* S[a]: the size of stack_m in a
  HeapStart,  \* the C heap is the addresses HeapStart .. HeapEnd - 1
  HeapEnd

ASSUME StacksAssumption ==
  /\ Base \in [Stacks -> Nat]
  /\ S \in [Stacks -> Nat \ {0}]
  /\ Stacks \cap Mallocators = {}

ASSUME HeapAssumption == HeapStart \in Nat /\ HeapEnd \in Nat

ASSUME ApartAssumption ==
  /\ \A a, b \in Stacks : a # b => Base[a] + S[a] <= Base[b] \/ Base[b] + S[b] <= Base[a]
  /\ \A a \in Stacks : Base[a] + S[a] <= HeapStart \/ HeapEnd <= Base[a]

VARIABLES
  p_m,  \* p_m[a]: the first free address of stack a
  heap  \* the blocks of the C heap in use, each with its first byte and its size

memory == <<p_m, heap>>

Resources == Stacks \cup Mallocators

MemoryInit ==
  /\ p_m = Base
  /\ heap = {}

Top(a) == Base[a] + S[a]

\* The size, or address, x rounded up to a multiple of the alignment.
roundLengthToAlignment(x, alignment) ==
  IF x % alignment = 0 THEN x ELSE x + (alignment - (x % alignment))

\* Slip: the first free address, whatever the alignment.
Unaligned(a, alignment) == p_m[a]

\* Where stack a would place a block.
Aligned(a, alignment) == roundLengthToAlignment(p_m[a], alignment)

\* Two blocks have no byte in common.
Apart(lo1, size1, lo2, size2) == lo1 + size1 <= lo2 \/ lo2 + size2 <= lo1

-----------------------------------------------------------------------------
(* StackAllocator.                                                          *)

\* Slip: the padding is left out of the comparison.
StackFitsUnpadded(a, bytes, alignment) == bytes # 0 /\ p_m[a] + bytes <= Top(a)

StackFits(a, bytes, alignment) ==
  bytes # 0 /\ Aligned(a, alignment) + bytes <= Top(a)

\* Slip: the padding in front of the block is forgotten.
StackTakeUnpadded(a, bytes, alignment) ==
  /\ p_m' = [p_m EXCEPT ![a] = @ + bytes]
  /\ UNCHANGED heap

StackTake(a, bytes, alignment) ==
  /\ p_m' = [p_m EXCEPT ![a] = Aligned(a, alignment) + bytes]
  /\ UNCHANGED heap

\* Slip: compared with the end of the block instead of its start.
IsTopEnd(a, lo, bytes) == lo >= Base[a] /\ lo < Top(a) /\ lo = p_m[a]

\* A pointer outside the buffer is ignored, and so is a block that is not the topmost.
IsTop(a, lo, bytes) == lo >= Base[a] /\ lo < Top(a) /\ lo = p_m[a] - bytes

\* Slip: p_m is lowered whatever the block.
StackGiveBlind(a, lo, bytes) ==
  /\ p_m' = [p_m EXCEPT ![a] = @ - bytes]
  /\ UNCHANGED heap

StackGive(a, lo, bytes) ==
  /\ p_m' = [p_m EXCEPT ![a] = IF IsTop(a, lo, bytes) THEN @ - bytes ELSE @]
  /\ UNCHANGED heap

-----------------------------------------------------------------------------
(* Mallocator, and the aligned_alloc and free it calls.                     *)

\* Where aligned_alloc may place a block: any aligned gap of the heap.
HeapGaps(size, alignment) ==
  {lo \in HeapStart .. HeapEnd - size :
     /\ lo % alignment = 0
     /\ \A b \in heap : Apart(lo, size, b.lo, b.size)}

HeapTake(lo, bytes, alignment) ==
  /\ bytes # 0
  /\ LET size == roundLengthToAlignment(bytes, alignment)
     IN  /\ lo \in HeapGaps(size, alignment)
         /\ heap' = heap \cup {[lo |-> lo, size |-> size]}
  /\ UNCHANGED p_m

HeapGive(lo) ==
  /\ heap' = {b \in heap : b.lo # lo}
  /\ UNCHANGED p_m

=============================================================================
