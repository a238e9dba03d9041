--------------------- MODULE PolymorphicAllocatorProofs ---------------------
(***************************************************************************)
(* Blocks handed out through a PolymorphicAllocator share no byte, are     *)
(* aligned, and are those that are in use on the heap, for any stacks,     *)
(* types, requests and nesting of constructors.                            *)
(***************************************************************************)
EXTENDS PolymorphicAllocator, SequenceTheorems, TLAPS

Placed(b) ==
  \/ /\ b.by \in Stacks
     /\ Base[b.by] <= b.lo
     /\ b.lo + b.bytes <= p_m[b.by]
  \/ /\ b.by \in Mallocators
     /\ \E h \in heap : h.lo = b.lo /\ b.bytes <= h.size

\* The C heap: blocks in its range, none empty, none overlapping.
HeapSound ==
  /\ \A h \in heap : HeapStart <= h.lo /\ h.lo + h.size <= HeapEnd /\ h.size # 0
  /\ \A h, k \in heap : h # k => Apart(h.lo, h.size, k.lo, k.size)

\* Blocks are not empty, and no block is out there twice.
BlocksDistinct ==
  /\ \A b \in Outstanding : b.bytes # 0
  /\ \A i \in DOMAIN building :
       /\ building[i].block \notin held
       /\ \A j \in DOMAIN building : i # j => building[i].block # building[j].block

\* A block under construction came from the resource its allocator still names, which is
\* where the block goes if the constructor throws.
BuiltThrough ==
  \A i \in DOMAIN building : resource_m[building[i].via] = building[i].block.by

MemorySound ==
  TypeOK /\ HeapSound /\ BlocksDistinct /\ BuiltThrough /\ BlocksPlaced /\ BlocksApart

\* The part of TypeOK that is about memory.
MemoryTypeOK ==
  /\ p_m \in [Stacks -> Nat]
  /\ \A a \in Stacks : Base[a] <= p_m[a] /\ p_m[a] <= Top(a)
  /\ heap \subseteq [lo : Nat, size : Nat]

-----------------------------------------------------------------------------
(* Lemmas about the resources.                                              *)

LEMMA RoundedUp ==
  ASSUME NEW x \in Nat, NEW alignment \in Nat \ {0}
  PROVE  /\ roundLengthToAlignment(x, alignment) \in Nat
         /\ roundLengthToAlignment(x, alignment) >= x
  BY DEF roundLengthToAlignment

LEMMA PlacedBlocks == BlocksPlaced <=> \A b \in Outstanding : Placed(b)
  BY DEF BlocksPlaced, Placed

LEMMA ElementType ==
  ASSUME NEW X, NEW s \in Seq(X), NEW i \in DOMAIN s
  PROVE  s[i] \in X
  OBVIOUS

LEMMA FrontType ==
  ASSUME NEW X, NEW s \in Seq(X), s # <<>>
  PROVE  /\ SubSeq(s, 1, Len(s) - 1) \in Seq(X)
         /\ DOMAIN SubSeq(s, 1, Len(s) - 1) = 1 .. Len(s) - 1
         /\ \A i \in 1 .. Len(s) - 1 : SubSeq(s, 1, Len(s) - 1)[i] = s[i]
  <1> DEFINE t == SubSeq(s, 1, Len(s) - 1)
  <1>1. Len(s) \in Nat \ {0} /\ \A i \in 1 .. Len(s) - 1 : s[i] \in X
    OBVIOUS
  <1>2. /\ t \in Seq(X)
        /\ Len(t) = IF 1 <= Len(s) - 1 THEN (Len(s) - 1) - 1 + 1 ELSE 0
        /\ \A i \in 1 .. (Len(s) - 1) - 1 + 1 : t[i] = s[1 + i - 1]
    BY <1>1, SubSeqProperties
  <1>. HIDE DEF t
  <1>3. Len(t) = Len(s) - 1
    <2> DEFINE n == Len(s)
    <2>1. n \in Nat \ {0} /\ Len(t) = IF 1 <= n - 1 THEN (n - 1) - 1 + 1 ELSE 0
      BY <1>1, <1>2
    <2>. HIDE DEF n
    <2>2. Len(t) = n - 1
      BY <2>1
    <2>. QED BY <2>2 DEF n
  <1>4. \A i \in 1 .. Len(s) - 1 : t[i] = s[i]
    BY <1>1, <1>2
  <1>. QED BY <1>2, <1>3, <1>4 DEF t

LEMMA OutstandingType == ASSUME TypeOK PROVE Outstanding \subseteq Block
  <1>1. \A i \in DOMAIN building : building[i] \in [block : Block, via : Allocators]
    BY ElementType DEF TypeOK
  <1>. QED BY <1>1 DEF TypeOK, Outstanding, Building

\* What a resource grants is a block of its own, apart from every block out there, and
\* leaves those where they are.
LEMMA Granting ==
  ASSUME MemorySound, NEW al \in Allocators, Alive(al),
         NEW bytes \in Nat, NEW alignment \in Nat \ {0},
         NEW b \in Granted(al, bytes, alignment), Grant(b)
  PROVE  /\ b \in Block
         /\ b.bytes # 0
         /\ \A c \in Outstanding : Apart(b.lo, b.bytes, c.lo, c.bytes)
         /\ Placed(b)'
         /\ \A c \in Outstanding : Placed(c)'
         /\ MemoryTypeOK' /\ HeapSound' /\ disciplined' \in BOOLEAN
  <1>0. /\ Outstanding \subseteq Block
        /\ \A c \in Outstanding : Placed(c)
        /\ resource_m[al] \in Resources
    BY OutstandingType, PlacedBlocks DEF MemorySound, TypeOK, Alive
  <1>1. /\ b = [by |-> resource_m[al], lo |-> b.lo, bytes |-> bytes, alignment |-> alignment]
        /\ b.by = resource_m[al] /\ b.bytes = bytes /\ b.alignment = alignment
        /\ b.lo \in Places(resource_m[al], bytes, alignment)
    BY DEF Granted
  <1>2. CASE resource_m[al] \in Stacks
    <2> DEFINE a == resource_m[al]
    <2>1. /\ b.lo = Aligned(a, alignment)
          /\ b.lo \in Nat
          /\ p_m[a] <= b.lo
      BY <1>1, <1>2, RoundedUp DEF Places, Aligned, MemorySound, TypeOK
    <2>2. /\ bytes # 0
          /\ b.lo + bytes <= Top(a)
          /\ p_m' = [p_m EXCEPT ![a] = b.lo + bytes]
          /\ heap' = heap
          /\ disciplined' = (disciplined /\ b.lo = p_m[a])
      BY <1>1, <1>2, <2>1, StacksAssumption DEF Grant, StackFits, StackTake
    <2>3. b \in Block
      BY <1>0, <1>1, <2>1 DEF Block
    <2>4. ASSUME NEW c \in Outstanding PROVE Apart(b.lo, b.bytes, c.lo, c.bytes)
      <3>1. CASE c.by = a
        BY <1>0, <1>1, <1>2, <2>1, <3>1, StacksAssumption
           DEF Placed, Apart, Block, MemorySound, TypeOK
      <3>2. CASE c.by \in Stacks /\ c.by # a
        <4> DEFINE d == c.by
        <4>1. Base[d] <= c.lo /\ c.lo + c.bytes <= p_m[d] /\ p_m[d] <= Top(d)
          BY <1>0, <3>2, StacksAssumption DEF Placed, MemorySound, TypeOK
        <4>2. Top(a) <= Base[d] \/ Top(d) <= Base[a]
          BY <1>2, <3>2, ApartAssumption DEF Top
        <4>3. Base[a] <= b.lo
          BY <1>2, <2>1, StacksAssumption DEF MemorySound, TypeOK
        <4>4. /\ c.lo \in Nat /\ c.bytes \in Nat /\ p_m[d] \in Nat
              /\ Base[a] \in Nat /\ Base[d] \in Nat /\ Top(a) \in Nat /\ Top(d) \in Nat
          BY <1>0, <1>2, <3>2, StacksAssumption DEF Block, MemorySound, TypeOK, Top
        <4>. QED BY <1>1, <2>1, <2>2, <4>1, <4>2, <4>3, <4>4 DEF Apart
      <3>3. CASE c.by \in Mallocators
        <4>1. PICK h \in heap : h.lo = c.lo /\ c.bytes <= h.size
          BY <1>0, <3>3, StacksAssumption DEF Placed
        <4>2. HeapStart <= c.lo /\ c.lo + c.bytes <= HeapEnd
          BY <1>0, <4>1, HeapAssumption DEF HeapSound, MemorySound, TypeOK, Block
        <4>3. Top(a) <= HeapStart \/ HeapEnd <= Base[a]
          BY <1>2, ApartAssumption DEF Top
        <4>4. Base[a] <= b.lo
          BY <1>2, <2>1, StacksAssumption DEF MemorySound, TypeOK
        <4>5. /\ c.lo \in Nat /\ c.bytes \in Nat
              /\ Base[a] \in Nat /\ Top(a) \in Nat
          BY <1>0, <1>2, StacksAssumption DEF Block, Top
        <4>. QED BY <1>1, <2>1, <2>2, <4>2, <4>3, <4>4, <4>5, HeapAssumption DEF Apart
      <3>. QED BY <1>0, <3>1, <3>2, <3>3 DEF Block, Resources
    <2>5. /\ Base[a] \in Nat /\ Top(a) \in Nat /\ p_m[a] \in Nat
          /\ Base[a] <= b.lo
          /\ p_m'[a] = b.lo + bytes
          /\ \A d \in Stacks \ {a} : p_m'[d] = p_m[d]
      <3>1. /\ p_m \in [Stacks -> Nat]
            /\ Base[a] <= p_m[a]
        BY <1>2 DEF MemorySound, TypeOK
      <3>2. Base[a] \in Nat /\ S[a] \in Nat
        BY <1>2, StacksAssumption
      <3>. QED BY <1>2, <2>1, <2>2, <3>1, <3>2 DEF Top
    <2>6. Placed(b)'
      BY <1>1, <1>2, <2>1, <2>5 DEF Placed
    <2>7. ASSUME NEW c \in Outstanding PROVE Placed(c)'
      <3>1. CASE c.by = a
        BY <1>0, <1>2, <2>1, <2>5, <3>1, StacksAssumption DEF Placed, Block
      <3>2. CASE c.by # a
        BY <1>0, <2>2, <2>5, <3>2 DEF Placed
      <3>. QED BY <3>1, <3>2
    <2>8. MemoryTypeOK'
      <3>1. p_m' \in [Stacks -> Nat]
        BY <1>2, <2>1, <2>2 DEF MemorySound, TypeOK
      <3>2. ASSUME NEW d \in Stacks PROVE Base[d] <= p_m'[d] /\ p_m'[d] <= Top(d)
        BY <2>1, <2>2, <2>5 DEF MemorySound, TypeOK
      <3>. QED BY <2>2, <3>1, <3>2 DEF MemoryTypeOK, MemorySound, TypeOK, Top
    <2>9. HeapSound'
      BY <2>2 DEF HeapSound, MemorySound
    <2>. QED BY <1>1, <2>2, <2>3, <2>4, <2>6, <2>7, <2>8, <2>9 DEF MemorySound, TypeOK
  <1>3. CASE resource_m[al] \in Mallocators
    <2> DEFINE size == roundLengthToAlignment(bytes, alignment)
               block == [lo |-> b.lo, size |-> size]
    <2>1. size \in Nat /\ bytes <= size
      BY RoundedUp
    <2>2. b.lo \in HeapGaps(size, alignment)
      BY <1>1, <1>3, StacksAssumption DEF Places
    <2>3. /\ bytes # 0
          /\ heap' = heap \cup {block}
          /\ p_m' = p_m
          /\ disciplined' = disciplined
      BY <1>1, <1>3, StacksAssumption DEF Grant, HeapTake
    <2>4. /\ b.lo \in Nat
          /\ HeapStart <= b.lo
          /\ b.lo + size <= HeapEnd
          /\ \A h \in heap : Apart(b.lo, size, h.lo, h.size)
      BY <2>1, <2>2, HeapAssumption DEF HeapGaps
    <2>5. b \in Block
      BY <1>0, <1>1, <2>4 DEF Block
    <2>6. ASSUME NEW c \in Outstanding PROVE Apart(b.lo, b.bytes, c.lo, c.bytes)
      <3>1. CASE c.by \in Stacks
        <4> DEFINE d == c.by
        <4>1. Base[d] <= c.lo /\ c.lo + c.bytes <= p_m[d] /\ p_m[d] <= Top(d)
          BY <1>0, <3>1, StacksAssumption DEF Placed, MemorySound, TypeOK
        <4>2. Top(d) <= HeapStart \/ HeapEnd <= Base[d]
          BY <3>1, ApartAssumption DEF Top
        <4>3. /\ c.lo \in Nat /\ c.bytes \in Nat /\ p_m[d] \in Nat
              /\ Base[d] \in Nat /\ Top(d) \in Nat
          BY <1>0, <3>1, StacksAssumption DEF Block, MemorySound, TypeOK, Top
        <4>. QED BY <1>1, <2>1, <2>4, <4>1, <4>2, <4>3, HeapAssumption DEF Apart
      <3>2. CASE c.by \in Mallocators
        <4>1. PICK h \in heap : h.lo = c.lo /\ c.bytes <= h.size
          BY <1>0, <3>2, StacksAssumption DEF Placed
        <4>. QED BY <1>0, <1>1, <2>1, <2>4, <4>1 DEF Apart, Block, MemorySound, TypeOK
      <3>. QED BY <1>0, <3>1, <3>2 DEF Block, Resources
    <2>7. Placed(b)' /\ \A c \in Outstanding : Placed(c)'
      <3>1. block \in heap' /\ \A h \in heap : h \in heap'
        BY <2>3
      <3>2. Placed(b)'
        BY <1>1, <1>3, <2>1, <3>1 DEF Placed
      <3>. QED BY <1>0, <2>3, <3>1, <3>2 DEF Placed
    <2>8. MemoryTypeOK'
      <3>1. block \in [lo : Nat, size : Nat]
        BY <2>1, <2>4
      <3>. QED BY <2>3, <3>1 DEF MemoryTypeOK, MemorySound, TypeOK, Top
    <2>9. HeapSound'
      <3>1. \A h \in heap : h.lo \in Nat /\ h.size \in Nat
        BY DEF MemorySound, TypeOK
      <3>2. \A h \in heap' : HeapStart <= h.lo /\ h.lo + h.size <= HeapEnd /\ h.size # 0
        BY <2>1, <2>3, <2>4 DEF HeapSound, MemorySound
      <3>3. \A h, k \in heap' : h # k => Apart(h.lo, h.size, k.lo, k.size)
        BY <2>1, <2>3, <2>4, <3>1 DEF HeapSound, MemorySound, Apart
      <3>. QED BY <3>2, <3>3 DEF HeapSound
    <2>. QED BY <1>1, <2>3, <2>5, <2>6, <2>7, <2>8, <2>9 DEF MemorySound, TypeOK
  <1>. QED BY <1>0, <1>2, <1>3 DEF Resources

\* Returning a block through an equal allocator leaves every other block where it is.
LEMMA Releasing ==
  ASSUME MemorySound, NEW b \in Outstanding, NEW r \in Resources, Equal(r, b.by),
         Release(r, b)
  PROVE  /\ \A c \in Outstanding \ {b} : Placed(c)'
         /\ MemoryTypeOK' /\ HeapSound' /\ disciplined' \in BOOLEAN
  <1>0. /\ Outstanding \subseteq Block
        /\ \A c \in Outstanding : Placed(c)
    BY OutstandingType, PlacedBlocks DEF MemorySound
  <1>1. CASE r \in Stacks
    <2>1. /\ b.by = r
          /\ p_m' = [p_m EXCEPT ![r] = IF IsTop(r, b.lo, b.bytes) THEN @ - b.bytes ELSE @]
          /\ heap' = heap
          /\ disciplined' \in BOOLEAN
      BY <1>1, StacksAssumption DEF Equal, Release, StackGive, MemorySound, TypeOK
    <2>2. \A c \in Outstanding \ {b} : c.by = r /\ IsTop(r, b.lo, b.bytes) =>
            c.lo + c.bytes <= b.lo
      BY <1>0, <1>1, <2>1, StacksAssumption
         DEF Placed, MemorySound, BlocksApart, BlocksDistinct, Apart, Block, IsTop, TypeOK
    <2>3. \A c \in Outstanding \ {b} : Placed(c)'
      BY <1>0, <1>1, <2>1, <2>2, StacksAssumption DEF Placed, IsTop, MemorySound, TypeOK, Block
    <2>4. MemoryTypeOK'
      <3>1. /\ p_m \in [Stacks -> Nat] /\ p_m[r] \in Nat
            /\ \A a \in Stacks : Base[a] <= p_m[a] /\ p_m[a] <= Top(a)
            /\ heap' \subseteq [lo : Nat, size : Nat]
        BY <1>1, <2>1 DEF MemorySound, TypeOK
      <3>2. b.lo \in Nat /\ b.bytes \in Nat /\ Base[r] \in Nat /\ Top(r) \in Nat
        BY <1>0, <1>1, StacksAssumption DEF Block, Top
      <3>3. CASE IsTop(r, b.lo, b.bytes)
        <4>1. p_m' = [p_m EXCEPT ![r] = b.lo]
          BY <2>1, <3>1, <3>2, <3>3 DEF IsTop
        <4>. QED BY <1>1, <3>1, <3>2, <3>3, <4>1 DEF MemoryTypeOK, IsTop, Top
      <3>4. CASE ~IsTop(r, b.lo, b.bytes)
        BY <2>1, <3>1, <3>4 DEF MemoryTypeOK, Top
      <3>. QED BY <3>3, <3>4
    <2>. QED BY <2>1, <2>3, <2>4 DEF HeapSound, MemorySound
  <1>2. CASE r \in Mallocators
    <2>1. /\ b.by \in Mallocators
          /\ p_m' = p_m
          /\ heap' = {h \in heap : h.lo # b.lo}
          /\ disciplined' = disciplined
      BY <1>2, StacksAssumption DEF Equal, Release, HeapGive
    <2>2. \A c \in Outstanding \ {b} : c.by \in Mallocators => c.lo # b.lo
      BY <1>0 DEF MemorySound, BlocksApart, BlocksDistinct, Apart, Block
    <2>3. \A c \in Outstanding \ {b} : Placed(c)'
      BY <1>0, <2>1, <2>2 DEF Placed
    <2>. QED BY <2>1, <2>3 DEF MemoryTypeOK, HeapSound, MemorySound, TypeOK
  <1>. QED BY <1>1, <1>2 DEF Resources

-----------------------------------------------------------------------------
(* The client's side: what is held and what is under construction.          *)

\* Pushing a block on the stack of constructors, and popping it.
LEMMA Pushing ==
  ASSUME TypeOK, NEW b \in Block, NEW al \in Allocators,
         building' = Append(building, [block |-> b, via |-> al]), held' = held
  PROVE  /\ building' \in Seq([block : Block, via : Allocators])
         /\ Outstanding' = Outstanding \cup {b}
         /\ BlocksDistinct /\ b \notin Outstanding /\ b.bytes # 0 => BlocksDistinct'
         /\ BuiltThrough /\ b.by = resource_m[al] /\ resource_m' = resource_m => BuiltThrough'
  <1> DEFINE X == [block : Block, via : Allocators]
             n == Len(building)
             x == [block |-> b, via |-> al]
  <1>1. building \in Seq(X) /\ x \in X /\ n \in Nat
    BY DEF TypeOK
  <1>2. /\ building' \in Seq(X)
        /\ DOMAIN building = 1 .. n
        /\ DOMAIN building' = 1 .. n + 1
        /\ building'[n + 1] = x
        /\ \A i \in 1 .. n : building'[i] = building[i]
    BY <1>1
  <1>3. Outstanding' = Outstanding \cup {b}
    BY <1>1, <1>2 DEF Outstanding, Building
  <1>4. ASSUME BlocksDistinct, b \notin Outstanding, b.bytes # 0
        PROVE  BlocksDistinct'
    BY <1>1, <1>2, <1>3, <1>4 DEF BlocksDistinct, Outstanding, Building
  <1>5. ASSUME BuiltThrough, b.by = resource_m[al], resource_m' = resource_m
        PROVE  BuiltThrough'
    BY <1>1, <1>2, <1>5 DEF BuiltThrough
  <1>. QED BY <1>2, <1>3, <1>4, <1>5

LEMMA Popping ==
  ASSUME TypeOK, BlocksDistinct, building # <<>>, building' = Finished
  PROVE  /\ building' \in Seq([block : Block, via : Allocators])
         /\ Innermost.block \in Block /\ Innermost.via \in Allocators
         /\ Innermost.block \in Building
         /\ Innermost.block \notin held
         /\ Building' = Building \ {Innermost.block}
         /\ \A i, j \in DOMAIN building' : i # j => building'[i].block # building'[j].block
         /\ BuiltThrough => Equal(resource_m[Innermost.via], Innermost.block.by)
         /\ BuiltThrough /\ resource_m' = resource_m => BuiltThrough'
  <1> DEFINE X == [block : Block, via : Allocators]
             n == Len(building)
  <1>1. building \in Seq(X) /\ n \in Nat \ {0} /\ DOMAIN building = 1 .. n
    BY DEF TypeOK
  <1>2. /\ building' \in Seq(X)
        /\ DOMAIN building' = 1 .. n - 1
        /\ \A i \in 1 .. n - 1 : building'[i] = building[i]
    <2>. HIDE DEF X
    <2>. QED BY <1>1, FrontType DEF Finished
  <1>3. Innermost \in X /\ Innermost = building[n]
    <2>1. n \in DOMAIN building
      BY <1>1
    <2>2. building[n] \in X
      BY <1>1, <2>1, ElementType
    <2>. QED BY <2>2 DEF Innermost
  <1>4. Building' = Building \ {Innermost.block}
    BY <1>1, <1>2, <1>3 DEF BlocksDistinct, Building
  <1>5. /\ BuiltThrough => Equal(resource_m[Innermost.via], Innermost.block.by)
        /\ BuiltThrough /\ resource_m' = resource_m => BuiltThrough'
    BY <1>1, <1>2, <1>3 DEF BuiltThrough, Equal
  <1>. QED BY <1>1, <1>2, <1>3, <1>4, <1>5 DEF BlocksDistinct, Building

-----------------------------------------------------------------------------
(* The inductive invariant.                                                 *)

LEMMA SoundInit == Init => MemorySound
  BY StacksAssumption, TypesAssumption
     DEF Init, MemoryInit, MemorySound, TypeOK, HeapSound, BlocksDistinct, BuiltThrough,
         BlocksPlaced, BlocksApart, Outstanding, Building, Resources, Top

\* A granted block joins the blocks out there.
LEMMA SoundGrant ==
  ASSUME MemorySound, NEW al \in Allocators, Alive(al),
         NEW bytes \in Nat, NEW alignment \in Nat \ {0},
         NEW b \in Granted(al, bytes, alignment), Grant(b),
         UNCHANGED <<resource_m, default_resource>>,
         \/ held' = held \cup {b} /\ building' = building
         \/ held' = held /\ building' = Append(building, [block |-> b, via |-> al])
  PROVE  MemorySound'
  <1>1. /\ b \in Block
        /\ b.bytes # 0
        /\ \A c \in Outstanding : Apart(b.lo, b.bytes, c.lo, c.bytes)
        /\ Placed(b)'
        /\ \A c \in Outstanding : Placed(c)'
        /\ MemoryTypeOK' /\ HeapSound' /\ disciplined' \in BOOLEAN
    BY Granting
  <1>2. b \notin Outstanding
    BY <1>1 DEF Apart, Block
  <1>3. /\ held' \subseteq Block
        /\ building' \in Seq([block : Block, via : Allocators])
        /\ Outstanding' = Outstanding \cup {b}
        /\ BlocksDistinct'
        /\ BuiltThrough'
    <2>0. b.by = resource_m[al]
      BY DEF Granted
    <2>1. CASE held' = held \cup {b} /\ building' = building
      BY <1>1, <1>2, <2>1
         DEF MemorySound, TypeOK, BlocksDistinct, BuiltThrough, Outstanding, Building
    <2>2. CASE held' = held /\ building' = Append(building, [block |-> b, via |-> al])
      <3>1. TypeOK /\ BlocksDistinct /\ BuiltThrough /\ resource_m' = resource_m
        BY DEF MemorySound
      <3>2. held' \subseteq Block
        BY <2>2, <3>1 DEF TypeOK
      <3>. QED BY <1>1, <1>2, <2>0, <2>2, <3>1, <3>2, Pushing
    <2>. QED BY <2>1, <2>2
  <1>4. TypeOK'
    BY <1>1, <1>3 DEF MemorySound, TypeOK, MemoryTypeOK
  <1>5. BlocksPlaced'
    BY <1>1, <1>3, PlacedBlocks DEF BlocksPlaced, Placed
  <1>6. BlocksApart'
    BY <1>1, <1>3 DEF MemorySound, BlocksApart, Apart
  <1>. QED BY <1>1, <1>3, <1>4, <1>5, <1>6 DEF MemorySound

\* A returned block leaves them.
LEMMA SoundRelease ==
  ASSUME MemorySound, NEW b \in Outstanding, NEW r \in Resources, Equal(r, b.by),
         Release(r, b), UNCHANGED <<resource_m, default_resource>>,
         Outstanding' = Outstanding \ {b}, BlocksDistinct', BuiltThrough', held' \subseteq Block,
         building' \in Seq([block : Block, via : Allocators])
  PROVE  MemorySound'
  <1>1. /\ \A c \in Outstanding \ {b} : Placed(c)'
        /\ MemoryTypeOK' /\ HeapSound' /\ disciplined' \in BOOLEAN
    BY Releasing
  <1>2. TypeOK'
    BY <1>1 DEF MemorySound, TypeOK, MemoryTypeOK
  <1>3. BlocksPlaced'
    BY <1>1 DEF BlocksPlaced, Placed
  <1>4. BlocksApart'
    BY DEF MemorySound, BlocksApart
  <1>. QED BY <1>1, <1>2, <1>3, <1>4 DEF MemorySound

\* A step that leaves the memory and the blocks alone.
LEMMA SoundQuiet ==
  ASSUME MemorySound, UNCHANGED <<memory, held, building, disciplined>>,
         resource_m' \in [Allocators -> Resources \cup {None}],
         default_resource' \in Resources, BuiltThrough'
  PROVE  MemorySound'
  BY DEF MemorySound, memory, TypeOK, HeapSound, BlocksDistinct, BlocksPlaced, BlocksApart,
         Outstanding, Building

LEMMA SoundAllocator ==
  ASSUME MemorySound, NEW al \in Allocators,
         \/ Create(al)
         \/ \E r \in Resources : CreateFrom(al, r)
         \/ \E other \in Allocators :
              Copy(al, other) \/ select_on_container_copy_construction(al, other)
         \/ Drop(al)
  PROVE  MemorySound'
  <1>1. default_resource \in Resources /\ resource_m \in [Allocators -> Resources \cup {None}]
    BY DEF MemorySound, TypeOK
  <1>2. ASSUME NEW r \in Resources \cup {None}, Bind(al, r) PROVE MemorySound'
    <2>1. \A i \in DOMAIN building : building[i].via # al
      <3>1. \A i \in DOMAIN building : building[i] \in [block : Block, via : Allocators]
        BY ElementType DEF MemorySound, TypeOK
      <3>. QED BY <1>2, <3>1, TypesAssumption
               DEF MemorySound, BuiltThrough, Bind, Alive, Block
    <2>2. BuiltThrough'
      BY <1>1, <1>2, <2>1 DEF Bind, MemorySound, BuiltThrough
    <2>. QED BY <1>1, <1>2, <2>2, SoundQuiet DEF Bind
  <1>3. CASE Drop(al)
    <2>1. BuiltThrough'
      BY <1>1, <1>3 DEF Drop, MemorySound, BuiltThrough
    <2>. QED BY <1>1, <1>3, <2>1, SoundQuiet DEF Drop
  <1>. QED BY <1>1, <1>2, <1>3
           DEF Create, CreateFrom, Copy, select_on_container_copy_construction

LEMMA SoundRequest ==
  ASSUME MemorySound, NEW al \in Allocators,
         \/ \E t \in Types : (\E n \in Counts : Allocate(al, t, n)) \/ new_object(al, t)
         \/ \E q \in RawRequests : allocate_bytes(al, q[1], q[2])
  PROVE  MemorySound'
  <1>1. ASSUME NEW bytes \in Nat, NEW alignment \in Nat \ {0}, Alive(al),
               Obtain(al, bytes, alignment)
        PROVE  MemorySound'
    BY <1>1, SoundGrant DEF Obtain
  <1>2. ASSUME NEW t \in Types, NEW n \in Counts, Allocate(al, t, n) PROVE MemorySound'
    <2>1. n * SizeOf[t] \in Nat /\ AlignOf[t] \in Nat \ {0}
      BY TypesAssumption
    <2>. QED BY <1>1, <1>2, <2>1 DEF Allocate
  <1>3. ASSUME NEW t \in Types, new_object(al, t) PROVE MemorySound'
    <2>1. SizeOf[t] \in Nat /\ AlignOf[t] \in Nat \ {0}
      BY TypesAssumption
    <2>. QED BY <1>3, <2>1, SoundGrant DEF new_object
  <1>4. ASSUME NEW q \in RawRequests, allocate_bytes(al, q[1], q[2]) PROVE MemorySound'
    <2>1. q[1] \in Nat /\ q[2] \in Nat \ {0}
      BY TypesAssumption
    <2>. QED BY <1>1, <1>4, <2>1 DEF allocate_bytes
  <1>. QED BY <1>2, <1>3, <1>4

LEMMA SoundDeallocate ==
  ASSUME MemorySound, NEW al \in Allocators, NEW b \in held, Deallocate(al, b)
  PROVE  MemorySound'
  <1>1. resource_m[al] \in Resources /\ b \in Outstanding
    BY DEF MemorySound, TypeOK, Deallocate, Alive, Outstanding
  <1>2. Outstanding' = Outstanding \ {b}
    BY DEF Deallocate, MemorySound, BlocksDistinct, Outstanding, Building
  <1>3. BlocksDistinct' /\ BuiltThrough'
    BY <1>2 DEF Deallocate, MemorySound, BlocksDistinct, BuiltThrough
  <1>. QED BY <1>1, <1>2, <1>3, SoundRelease DEF Deallocate, MemorySound, TypeOK

LEMMA SoundConstructor ==
  ASSUME MemorySound, ConstructorReturns \/ ConstructorThrows
  PROVE  MemorySound'
  <1>1. /\ TypeOK /\ BlocksDistinct /\ building # <<>>
        /\ building' = Finished
        /\ UNCHANGED <<resource_m, default_resource>>
    BY DEF MemorySound, ConstructorReturns, ConstructorThrows
  <1> DEFINE b == Innermost.block
  <1>2. /\ building' \in Seq([block : Block, via : Allocators])
        /\ b \in Block /\ Innermost.via \in Allocators
        /\ b \in Building
        /\ b \notin held
        /\ Building' = Building \ {b}
        /\ \A i, j \in DOMAIN building' : i # j => building'[i].block # building'[j].block
        /\ Equal(resource_m[Innermost.via], b.by)
        /\ BuiltThrough'
    BY <1>1, Popping DEF MemorySound
  <1>3. CASE ConstructorReturns
    <2>1. Outstanding' = Outstanding /\ held' = held \cup {b}
      BY <1>2, <1>3 DEF ConstructorReturns, Outstanding
    <2>2. \A i \in DOMAIN building' : building'[i].block \notin held'
      <3>1. \A i \in DOMAIN building' : building'[i].block \in Building'
        BY DEF Building
      <3>2. Building \cap held = {}
        BY <1>1 DEF BlocksDistinct, Building
      <3>. QED BY <1>2, <2>1, <3>1, <3>2
    <2>3. BlocksDistinct'
      BY <1>1, <1>2, <2>1, <2>2 DEF BlocksDistinct
    <2>4. TypeOK'
      BY <1>1, <1>2, <1>3, <2>1 DEF ConstructorReturns, TypeOK, memory
    <2>. QED BY <1>2, <1>3, <2>1, <2>3, <2>4
             DEF ConstructorReturns, MemorySound, HeapSound, BlocksPlaced, BlocksApart, memory
  <1>4. CASE ConstructorThrows
    <2>1. Outstanding' = Outstanding \ {b} /\ held' = held
      BY <1>2, <1>4 DEF ConstructorThrows, Outstanding
    <2>2. BlocksDistinct'
      <3>1. \A i \in DOMAIN building' : building'[i].block \in Building'
        BY DEF Building
      <3>2. Building \cap held = {}
        BY <1>1 DEF BlocksDistinct, Building
      <3>. QED BY <1>1, <1>2, <2>1, <3>1, <3>2 DEF BlocksDistinct
    <2>3. resource_m[Innermost.via] \in Resources
      BY <1>1, <1>2 DEF Equal, Resources, Block
    <2>4. held' \subseteq Block
      BY <1>1, <2>1 DEF TypeOK
    <2>. QED BY <1>1, <1>2, <1>4, <2>1, <2>2, <2>3, <2>4, SoundRelease
             DEF ConstructorThrows, Outstanding
  <1>. QED BY <1>3, <1>4

LEMMA SoundStep == MemorySound /\ [Next]_vars => MemorySound'
  <1> SUFFICES ASSUME MemorySound, [Next]_vars PROVE MemorySound'
    OBVIOUS
  <1>1. ASSUME NEW r \in Resources, setDefaultMemoryResource(r) PROVE MemorySound'
    <2>1. BuiltThrough' /\ resource_m' \in [Allocators -> Resources \cup {None}]
      BY <1>1 DEF setDefaultMemoryResource, MemorySound, BuiltThrough, TypeOK
    <2>. QED BY <1>1, <2>1, SoundQuiet DEF setDefaultMemoryResource
  <1>2. CASE UNCHANGED vars
    <2>1. /\ BuiltThrough' /\ default_resource' \in Resources
          /\ resource_m' \in [Allocators -> Resources \cup {None}]
      BY <1>2 DEF vars, client, MemorySound, BuiltThrough, TypeOK
    <2>. QED BY <1>2, <2>1, SoundQuiet DEF vars, client
  <1>. QED BY <1>1, <1>2, SoundAllocator, SoundRequest, SoundDeallocate, SoundConstructor
           DEF Next

\* The placement of the blocks, with what it rests on, is an invariant.
THEOREM MemorySoundHolds == Spec => []MemorySound
  BY SoundInit, SoundStep, PTL DEF Spec

\* The state is well typed and p_m stays in stack_m or at its end.
THEOREM TypeCorrect == Spec => []TypeOK
  <1>1. MemorySound => TypeOK
    BY DEF MemorySound
  <1>. QED BY <1>1, MemorySoundHolds, PTL

\* allocate and deallocate of both resources never hand out a byte twice, for any order of
\* returns and any nesting of constructors that may throw.
THEOREM BlocksApartHolds == Spec => []BlocksApart
  <1>1. MemorySound => BlocksApart
    BY DEF MemorySound
  <1>. QED BY <1>1, MemorySoundHolds, PTL

\* Every block lies in the storage of its resource, below what is handed out next.
THEOREM BlocksPlacedHolds == Spec => []BlocksPlaced
  <1>1. MemorySound => BlocksPlaced
    BY DEF MemorySound
  <1>. QED BY <1>1, MemorySoundHolds, PTL

-----------------------------------------------------------------------------
(* Alignment, and what is in use on the heap.                               *)

\* What a step does to the blocks out there.
Grants(b) ==
  /\ \E al \in Allocators : \E bytes \in Nat : \E alignment \in Nat \ {0} :
       Alive(al) /\ b \in Granted(al, bytes, alignment)
  /\ Grant(b)
  /\ Outstanding' = Outstanding \cup {b}

Releases(b) ==
  /\ \E r \in Resources : Equal(r, b.by) /\ Release(r, b)
  /\ Outstanding' = Outstanding \ {b}

LEMMA BlockStep ==
  ASSUME MemorySound, [Next]_vars
  PROVE  \/ UNCHANGED <<Outstanding, p_m, heap, disciplined>>
         \/ \E b : Grants(b)
         \/ \E b \in Outstanding : Releases(b)
  <1>1. ASSUME NEW al \in Allocators, NEW t \in Types, NEW n \in Counts, Allocate(al, t, n)
        PROVE  \E b : Grants(b)
    <2>1. /\ Alive(al) /\ n * SizeOf[t] \in Nat /\ AlignOf[t] \in Nat \ {0}
          /\ Obtain(al, n * SizeOf[t], AlignOf[t])
      BY <1>1, TypesAssumption DEF Allocate
    <2>. QED BY <2>1 DEF Obtain, Grants, Outstanding, Building
  <1>2. ASSUME NEW al \in Allocators, NEW q \in RawRequests, allocate_bytes(al, q[1], q[2])
        PROVE  \E b : Grants(b)
    <2>1. /\ Alive(al) /\ q[1] \in Nat /\ q[2] \in Nat \ {0}
          /\ Obtain(al, q[1], q[2])
      BY <1>2, TypesAssumption DEF allocate_bytes
    <2>. QED BY <2>1 DEF Obtain, Grants, Outstanding, Building
  <1>3. ASSUME NEW al \in Allocators, NEW t \in Types, new_object(al, t)
        PROVE  \E b : Grants(b)
    <2>1. Alive(al) /\ SizeOf[t] \in Nat /\ AlignOf[t] \in Nat \ {0}
      BY <1>3, TypesAssumption DEF new_object
    <2>2. PICK b \in Granted(al, SizeOf[t], AlignOf[t]) :
            Grant(b) /\ building' = Append(building, [block |-> b, via |-> al])
      BY <1>3 DEF new_object
    <2>3. b \in Block
      BY <2>1, <2>2, Granting
    <2>4. Outstanding' = Outstanding \cup {b}
      BY <1>3, <2>2, <2>3, Pushing DEF new_object, MemorySound
    <2>. QED BY <2>1, <2>2, <2>4 DEF Grants
  <1>4. ASSUME NEW al \in Allocators, NEW b \in held, Deallocate(al, b)
        PROVE  b \in Outstanding /\ Releases(b)
    <2>1. Outstanding' = Outstanding \ {b}
      BY <1>4 DEF Deallocate, MemorySound, BlocksDistinct, Outstanding, Building
    <2>2. resource_m[al] \in Resources
      BY <1>4 DEF Deallocate, Alive, MemorySound, TypeOK
    <2>. QED BY <1>4, <2>1, <2>2 DEF Deallocate, Releases, Outstanding
  <1>5. ASSUME building # <<>>, building' = Finished, TypeOK, BlocksDistinct, BuiltThrough
        PROVE  /\ Innermost.block \in Outstanding
               /\ resource_m[Innermost.via] \in Resources
               /\ Equal(resource_m[Innermost.via], Innermost.block.by)
               /\ held' = held \cup {Innermost.block} => Outstanding' = Outstanding
               /\ held' = held => Outstanding' = Outstanding \ {Innermost.block}
    <2>1. /\ Innermost.block \in Block
          /\ Innermost.block \in Building
          /\ Innermost.block \notin held
          /\ Building' = Building \ {Innermost.block}
          /\ Equal(resource_m[Innermost.via], Innermost.block.by)
      BY <1>5, Popping
    <2>. QED BY <2>1 DEF Outstanding, Equal, Resources, Block
  <1>6. CASE ConstructorReturns
    BY <1>5, <1>6 DEF ConstructorReturns, MemorySound, memory
  <1>7. CASE ConstructorThrows
    <2>1. /\ Innermost.block \in Outstanding
          /\ Outstanding' = Outstanding \ {Innermost.block}
          /\ resource_m[Innermost.via] \in Resources
          /\ Equal(resource_m[Innermost.via], Innermost.block.by)
          /\ Release(resource_m[Innermost.via], Innermost.block)
      BY <1>5, <1>7 DEF ConstructorThrows, MemorySound
    <2>. QED BY <2>1 DEF Releases
  <1>8. ASSUME \/ \E al \in Allocators :
                    \/ Create(al)
                    \/ \E r \in Resources : CreateFrom(al, r)
                    \/ \E other \in Allocators :
                         Copy(al, other) \/ select_on_container_copy_construction(al, other)
                    \/ Drop(al)
               \/ \E r \in Resources : setDefaultMemoryResource(r)
               \/ UNCHANGED vars
        PROVE  UNCHANGED <<Outstanding, p_m, heap, disciplined>>
    <2>1. UNCHANGED <<memory, held, building, disciplined>>
      BY <1>8 DEF Create, CreateFrom, Copy, select_on_container_copy_construction, Bind, Drop,
                  setDefaultMemoryResource, vars, client
    <2>. QED BY <2>1 DEF memory, Outstanding, Building
  <1>. QED BY <1>1, <1>2, <1>3, <1>4, <1>6, <1>7, <1>8 DEF Next

LEMMA RoundedUpMultiple ==
  ASSUME NEW x \in Nat, NEW alignment \in Nat \ {0}
  PROVE  roundLengthToAlignment(x, alignment) % alignment = 0
  <1> DEFINE k == x \div alignment
  <1>1. k \in Nat /\ x = alignment * k + (x % alignment) /\ x % alignment \in Nat
    OBVIOUS
  <1>2. CASE x % alignment = 0
    BY <1>2 DEF roundLengthToAlignment
  <1>3. CASE x % alignment # 0
    <2>1. roundLengthToAlignment(x, alignment) = x + (alignment - (x % alignment))
      BY <1>3 DEF roundLengthToAlignment
    <2>. HIDE DEF k
    <2>2. roundLengthToAlignment(x, alignment) = alignment * k + alignment
      BY <1>1, <2>1
    <2>3. alignment * k + alignment = (k + 1) * alignment
      BY <1>1
    <2>4. ((k + 1) * alignment) % alignment = 0
      BY <1>1
    <2>. QED BY <2>2, <2>3, <2>4
  <1>. QED BY <1>2, <1>3

LEMMA GrantedAligned ==
  ASSUME MemorySound, NEW b, Grants(b)
  PROVE  b.lo % b.alignment = 0
  <1>1. PICK al \in Allocators, bytes \in Nat, alignment \in Nat \ {0} :
          Alive(al) /\ b \in Granted(al, bytes, alignment)
    BY DEF Grants
  <1>2. /\ b.alignment = alignment
        /\ b.lo \in Places(resource_m[al], bytes, alignment)
    BY <1>1 DEF Granted
  <1>3. CASE resource_m[al] \in Stacks
    <2>1. b.lo = roundLengthToAlignment(p_m[resource_m[al]], alignment)
      BY <1>2, <1>3 DEF Places, Aligned
    <2>2. p_m[resource_m[al]] \in Nat
      BY <1>3 DEF MemorySound, TypeOK
    <2>. QED BY <1>2, <2>1, <2>2, RoundedUpMultiple
  <1>4. CASE resource_m[al] \notin Stacks
    BY <1>2, <1>4 DEF Places, HeapGaps
  <1>. QED BY <1>3, <1>4

LEMMA AccountedGrant ==
  ASSUME HeapAccounted, NEW b, Grants(b)
  PROVE  HeapAccounted'
  <1>1. \/ heap' = heap
        \/ /\ b.by \in Mallocators
           /\ \E size : heap' = heap \cup {[lo |-> b.lo, size |-> size]}
    BY DEF Grants, Grant, StackTake, HeapTake
  <1>2. Outstanding' = Outstanding \cup {b}
    BY DEF Grants
  <1>. QED BY <1>1, <1>2 DEF HeapAccounted

LEMMA AccountedRelease ==
  ASSUME HeapAccounted, NEW b \in Outstanding, Releases(b)
  PROVE  HeapAccounted'
  <1>1. PICK r \in Resources : Equal(r, b.by) /\ Release(r, b)
    BY DEF Releases
  <1>2. Outstanding' = Outstanding \ {b}
    BY DEF Releases
  <1>3. CASE r \in Stacks
    <2>1. b.by \notin Mallocators /\ heap' = heap
      BY <1>1, <1>3, StacksAssumption DEF Equal, Release, StackGive
    <2>. QED BY <1>2, <2>1 DEF HeapAccounted
  <1>4. CASE r \in Mallocators
    <2>1. heap' = {h \in heap : h.lo # b.lo}
      BY <1>1, <1>4, StacksAssumption DEF Release, HeapGive
    <2>. QED BY <1>2, <2>1 DEF HeapAccounted
  <1>. QED BY <1>3, <1>4 DEF Resources

LEMMA AlignedAccountedStep ==
  ASSUME MemorySound, BlocksAligned, HeapAccounted, [Next]_vars
  PROVE  BlocksAligned' /\ HeapAccounted'
  <1>1. CASE UNCHANGED <<Outstanding, p_m, heap, disciplined>>
    BY <1>1 DEF BlocksAligned, HeapAccounted
  <1>2. ASSUME NEW b, Grants(b) PROVE BlocksAligned' /\ HeapAccounted'
    <2>1. Outstanding' = Outstanding \cup {b}
      BY <1>2 DEF Grants
    <2>. QED BY <1>2, <2>1, GrantedAligned, AccountedGrant DEF BlocksAligned
  <1>3. ASSUME NEW b \in Outstanding, Releases(b) PROVE BlocksAligned' /\ HeapAccounted'
    <2>1. Outstanding' = Outstanding \ {b}
      BY <1>3 DEF Releases
    <2>. QED BY <1>3, <2>1, AccountedRelease DEF BlocksAligned
  <1>. QED BY <1>1, <1>2, <1>3, BlockStep

LEMMA AlignedAccounted == Spec => [](MemorySound /\ BlocksAligned /\ HeapAccounted)
  <1>1. Init => BlocksAligned /\ HeapAccounted
    BY DEF Init, MemoryInit, BlocksAligned, HeapAccounted, Outstanding, Building
  <1>2. MemorySound /\ BlocksAligned /\ HeapAccounted /\ [Next]_vars
          => (MemorySound /\ BlocksAligned /\ HeapAccounted)'
    BY SoundStep, AlignedAccountedStep
  <1>. QED BY <1>1, <1>2, SoundInit, PTL DEF Spec

\* allocate of both resources returns addresses that are aligned as asked, whatever was
\* allocated before: the rounding of StackAllocator and the choice of aligned_alloc.
THEOREM BlocksAlignedHolds == Spec => []BlocksAligned
  BY AlignedAccounted, PTL

\* No block of the heap is lost by a constructor that throws in new_object, nor by a
\* deallocate of another Mallocator.
THEOREM HeapAccountedHolds == Spec => []HeapAccounted
  BY AlignedAccounted, PTL

-----------------------------------------------------------------------------
(* Nothing is lost below the first free address of a stack.                 *)

LEMMA NothingLostGrant ==
  ASSUME MemorySound, NothingLost, NEW b, Grants(b)
  PROVE  NothingLost'
  <1>0. /\ Outstanding' = Outstanding \cup {b}
        /\ \A a \in Stacks : p_m[a] \in Nat /\ Base[a] \in Nat
    BY StacksAssumption DEF Grants, MemorySound, TypeOK
  <1>1. PICK al \in Allocators, bytes \in Nat, alignment \in Nat \ {0} :
          Alive(al) /\ b \in Granted(al, bytes, alignment)
    BY DEF Grants
  <1>2. b \in Block
    BY <1>1, Granting DEF Grants
  <1>3. CASE b.by \in Stacks
    <2>1. /\ b.lo = Aligned(b.by, b.alignment)
          /\ p_m' = [p_m EXCEPT ![b.by] = Aligned(b.by, b.alignment) + b.bytes]
          /\ disciplined' = (disciplined /\ b.lo = p_m[b.by])
      BY <1>1, <1>3, StacksAssumption DEF Granted, Places, Grants, Grant, StackTake
    <2>2. SUFFICES ASSUME disciplined, b.lo = p_m[b.by], NEW a \in Stacks,
                          NEW x \in Base[a] .. p_m'[a] - 1
                   PROVE  \E c \in Outstanding' : c.by = a /\ c.lo <= x /\ x < c.lo + c.bytes
      BY <2>1 DEF NothingLost
    <2>3. CASE a = b.by /\ x >= b.lo
      <3>1. p_m'[a] = b.lo + b.bytes /\ x < b.lo + b.bytes
        BY <1>0, <1>2, <2>1, <2>3 DEF Block, MemorySound, TypeOK
      <3>. QED BY <1>0, <2>3, <3>1
    <2>4. CASE ~(a = b.by /\ x >= b.lo)
      <3>1. x \in Base[a] .. p_m[a] - 1
        BY <1>0, <1>2, <2>1, <2>2, <2>4 DEF Block
      <3>. QED BY <1>0, <2>2, <3>1 DEF NothingLost
    <2>. QED BY <2>3, <2>4
  <1>4. CASE b.by \notin Stacks
    <2>1. p_m' = p_m /\ disciplined' = disciplined
      BY <1>4 DEF Grants, Grant, HeapTake
    <2>. QED BY <1>0, <2>1 DEF NothingLost
  <1>. QED BY <1>3, <1>4

\* The topmost block of a stack with nothing lost ends where the next one begins, and is
\* taken back.
LEMMA TopmostIsTop ==
  ASSUME MemorySound, NothingLost, disciplined, NEW b \in Outstanding, b.by \in Stacks, Topmost(b)
  PROVE  IsTop(b.by, b.lo, b.bytes)
  <1> DEFINE a == b.by
  <1>0. /\ Outstanding \subseteq Block
        /\ \A c \in Outstanding : Placed(c) /\ c.bytes # 0
        /\ p_m[a] \in Nat /\ Base[a] \in Nat /\ Top(a) \in Nat /\ p_m[a] <= Top(a)
    BY OutstandingType, PlacedBlocks, StacksAssumption DEF MemorySound, TypeOK, BlocksDistinct, Top
  <1>1. /\ b.lo \in Nat /\ b.bytes \in Nat \ {0}
        /\ Base[a] <= b.lo /\ b.lo + b.bytes <= p_m[a]
    BY <1>0, StacksAssumption DEF Placed, Block
  <1>2. PICK c \in Outstanding : c.by = a /\ c.lo <= p_m[a] - 1 /\ p_m[a] - 1 < c.lo + c.bytes
    <2>1. p_m[a] - 1 \in Base[a] .. p_m[a] - 1
      BY <1>0, <1>1
    <2>. QED BY <2>1 DEF NothingLost
  <1>3. c.lo \in Nat /\ c.bytes \in Nat /\ c.lo <= b.lo
    BY <1>0, <1>2 DEF Topmost, Block
  <1>4. c = b
    <2>1. CASE c # b
      <3>1. Apart(c.lo, c.bytes, b.lo, b.bytes)
        BY <2>1 DEF MemorySound, BlocksApart
      <3>. QED BY <1>0, <1>1, <1>2, <1>3, <3>1 DEF Apart
    <2>. QED BY <2>1
  <1>. QED BY <1>0, <1>1, <1>2, <1>4 DEF IsTop

LEMMA NothingLostRelease ==
  ASSUME MemorySound, NothingLost, NEW b \in Outstanding, Releases(b)
  PROVE  NothingLost'
  <1>1. PICK r \in Resources : Equal(r, b.by) /\ Release(r, b)
    BY DEF Releases
  <1>2. Outstanding' = Outstanding \ {b}
    BY DEF Releases
  <1>3. CASE r \in Stacks
    <2>1. /\ b.by = r
          /\ p_m' = [p_m EXCEPT ![r] = IF IsTop(r, b.lo, b.bytes) THEN @ - b.bytes ELSE @]
          /\ disciplined' = (disciplined /\ Topmost(b))
      BY <1>1, <1>3, StacksAssumption DEF Equal, Release, StackGive
    <2>2. SUFFICES ASSUME disciplined, Topmost(b), NEW a \in Stacks,
                          NEW x \in Base[a] .. p_m'[a] - 1
                   PROVE  \E c \in Outstanding' : c.by = a /\ c.lo <= x /\ x < c.lo + c.bytes
      BY <2>1 DEF NothingLost
    <2>3. IsTop(r, b.lo, b.bytes)
      BY <1>3, <2>1, <2>2, TopmostIsTop
    <2>4. /\ p_m \in [Stacks -> Nat] /\ Base[a] \in Nat
          /\ b.lo \in Nat /\ b.bytes \in Nat
      BY OutstandingType, StacksAssumption DEF MemorySound, TypeOK, Block
    <2>5. p_m' = [p_m EXCEPT ![r] = b.lo] /\ b.lo <= p_m[r]
      BY <1>3, <2>1, <2>3, <2>4 DEF IsTop
    <2>6. x \in Base[a] .. p_m[a] - 1 /\ (a = r => x < b.lo)
      BY <1>3, <2>4, <2>5
    <2>7. PICK c \in Outstanding : c.by = a /\ c.lo <= x /\ x < c.lo + c.bytes
      BY <2>2, <2>6 DEF NothingLost
    <2>8. c # b
      BY <2>1, <2>4, <2>6, <2>7
    <2>. QED BY <1>2, <2>7, <2>8
  <1>4. CASE r \in Mallocators
    <2>1. p_m' = p_m /\ disciplined' = disciplined /\ b.by \notin Stacks
      BY <1>1, <1>4, StacksAssumption DEF Equal, Release, HeapGive
    <2>. QED BY <1>2, <2>1 DEF NothingLost
  <1>. QED BY <1>3, <1>4 DEF Resources

\* A stack that is used last in first out and without padding gets every byte back: what it
\* is given is then always the block that ends at its first free address.
THEOREM NothingLostHolds == Spec => []NothingLost
  <1>1. Init => NothingLost
    BY StacksAssumption DEF Init, MemoryInit, NothingLost
  <1>2. MemorySound /\ NothingLost /\ [Next]_vars => NothingLost'
    <2> SUFFICES ASSUME MemorySound, NothingLost, [Next]_vars PROVE NothingLost'
      OBVIOUS
    <2>1. CASE UNCHANGED <<Outstanding, p_m, heap, disciplined>>
      BY <2>1 DEF NothingLost
    <2>. QED BY <2>1, BlockStep, NothingLostGrant, NothingLostRelease
  <1>. QED BY <1>1, <1>2, MemorySoundHolds, PTL DEF Spec

=============================================================================
