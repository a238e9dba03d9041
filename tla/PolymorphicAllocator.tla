------------------------ MODULE PolymorphicAllocator ------------------------
(***************************************************************************)
(* PolymorphicAllocator over the memory resources: allocator variables     *)
(* that name a resource, requests that go through them, objects built and  *)
(* destroyed in what they hand out.  A constructor run by new_object is    *)
(* client code: it may use the allocators itself, and it may throw.        *)
(***************************************************************************)
EXTENDS MemoryResources, Sequences

CONSTANTS
  Allocators, \* variables of type PolymorphicAllocator
  Types,      \* element and object types
  SizeOf,     \* sizeof(T), for each type
  AlignOf,    \* alignof(T), for each type
  Counts,     \* the n of allocate(n)
  RawRequests,\* the <<nbytes, alignment>> of allocate_bytes
  MaxSize,    \* the greatest std::size_t
  Depth,      \* bound: constructors running inside one another
  Mallocator, \* the default resource at start-up
  None        \* an allocator variable out of its lifetime

ASSUME TypesAssumption ==
  /\ SizeOf \in [Types -> Nat \ {0}]
  /\ AlignOf \in [Types -> Nat \ {0}]
  /\ Counts \subseteq Nat
  /\ RawRequests \subseteq Nat \X (Nat \ {0})
  /\ MaxSize \in Nat
  /\ Depth \in Nat
  /\ Mallocator \in Mallocators
  /\ None \notin Resources

\* No request reaches the end of the address space, where pointers would wrap.
ASSUME NoWrapAssumption ==
  \A a \in Stacks :
    /\ \A t \in Types, n \in Counts :
         n <= MaxSize \div SizeOf[t] => Top(a) + AlignOf[t] + n * SizeOf[t] <= MaxSize
    /\ \A q \in RawRequests : Top(a) + q[1] + q[2] <= MaxSize

VARIABLES
  resource_m,       \* the resource of each allocator variable
  default_resource, \* getDefaultMemoryResource()
  held,             \* the blocks clients hold
  building,         \* the blocks whose object's constructor is running, outermost first
  disciplined       \* history: stacks were used last in first out and without padding

client == <<resource_m, default_resource, held, building, disciplined>>
vars == <<memory, client>>

Block == [by : Resources, lo : Nat, bytes : Nat, alignment : Nat]

Building == {building[i].block : i \in DOMAIN building}
Outstanding == held \cup Building

Init ==
  /\ MemoryInit
  /\ resource_m = [al \in Allocators |-> None]
  /\ default_resource = Mallocator
  /\ held = {}
  /\ building = <<>>
  /\ disciplined = TRUE

Alive(al) == resource_m[al] # None

\* operator==: the types of the resources are compared, then is_equal of that type, which
\* is true of any two Mallocators and compares the addresses of two StackAllocators.
Equal(r1, r2) == r1 = r2 \/ {r1, r2} \subseteq Mallocators

-----------------------------------------------------------------------------
(* The lifetime of an allocator variable; there is no assignment.           *)

Bind(al, r) ==
  /\ ~Alive(al)
  /\ resource_m' = [resource_m EXCEPT ![al] = r]
  /\ UNCHANGED <<memory, default_resource, held, building, disciplined>>

Create(al) == Bind(al, default_resource)
CreateFrom(al, r) == Bind(al, r)
Copy(al, other) == Alive(other) /\ Bind(al, resource_m[other])
select_on_container_copy_construction(al, other) == Alive(other) /\ Bind(al, default_resource)

Drop(al) ==
  /\ Alive(al)
  /\ \A i \in DOMAIN building : building[i].via # al
  /\ resource_m' = [resource_m EXCEPT ![al] = None]
  /\ UNCHANGED <<memory, default_resource, held, building, disciplined>>

setDefaultMemoryResource(r) ==
  /\ default_resource' = r
  /\ UNCHANGED <<memory, resource_m, held, building, disciplined>>

-----------------------------------------------------------------------------
(* Requests.                                                                *)

\* The block b is taken from its resource.
Grant(b) ==
  \/ /\ b.by \in Stacks
     /\ StackFits(b.by, b.bytes, b.alignment)
     /\ StackTake(b.by, b.bytes, b.alignment)
     /\ disciplined' = (disciplined /\ b.lo = p_m[b.by])
  \/ /\ b.by \in Mallocators
     /\ HeapTake(b.lo, b.bytes, b.alignment)
     /\ UNCHANGED disciplined

\* The addresses at which r may place a block.
Places(r, bytes, alignment) ==
  IF r \in Stacks THEN {Aligned(r, alignment)}
  ELSE HeapGaps(roundLengthToAlignment(bytes, alignment), alignment)

\* No block of the resource of b lies above b.
Topmost(b) == \A c \in Outstanding : c.by = b.by => c.lo <= b.lo

\* The block b is passed to deallocate of resource r.
Release(r, b) ==
  \/ /\ r \in Stacks
     /\ StackGive(r, b.lo, b.bytes)
     /\ disciplined' = (disciplined /\ Topmost(b))
  \/ /\ r \in Mallocators
     /\ HeapGive(b.lo)
     /\ UNCHANGED disciplined

\* The blocks the resource of al may hand out for a request.  A request that is empty or
\* does not fit has none: bad_alloc is thrown and nothing changes.
Granted(al, bytes, alignment) ==
  LET r == resource_m[al]
  IN  {[by |-> r, lo |-> lo, bytes |-> bytes, alignment |-> alignment] :
         lo \in Places(r, bytes, alignment)}

Obtain(al, bytes, alignment) ==
  /\ \E b \in Granted(al, bytes, alignment) : Grant(b) /\ held' = held \cup {b}
  /\ UNCHANGED <<resource_m, default_resource, building>>

\* allocate(n) of an allocator of T, allocate_object<T>(n): n objects of T have to have a
\* size at all.
Allocate(al, t, n) ==
  /\ Alive(al)
  /\ n <= MaxSize \div SizeOf[t]
  /\ Obtain(al, n * SizeOf[t], AlignOf[t])

allocate_bytes(al, nbytes, alignment) ==
  /\ Alive(al)
  /\ Obtain(al, nbytes, alignment)

\* deallocate, deallocate_object, delete_object: by any allocator that compares equal to
\* the one the block came from, with the size and the alignment it was asked for.
Deallocate(al, b) ==
  /\ Alive(al)
  /\ b \in held
  /\ Equal(resource_m[al], b.by)
  /\ Release(resource_m[al], b)
  /\ held' = held \ {b}
  /\ UNCHANGED <<resource_m, default_resource, building>>

-----------------------------------------------------------------------------
(* new_object: the block is allocated, the constructor runs, and if it      *)
(* throws the block is deallocated before the exception goes on.            *)

new_object(al, t) ==
  /\ Alive(al)
  /\ Len(building) < Depth
  /\ \E b \in Granted(al, SizeOf[t], AlignOf[t]) :
       /\ Grant(b)
       /\ building' = Append(building, [block |-> b, via |-> al])
  /\ UNCHANGED <<resource_m, default_resource, held>>

Innermost == building[Len(building)]
Finished == SubSeq(building, 1, Len(building) - 1)

ConstructorReturns ==
  /\ building # <<>>
  /\ held' = held \cup {Innermost.block}
  /\ building' = Finished
  /\ UNCHANGED <<memory, resource_m, default_resource, disciplined>>

\* Slip: the exception goes on without deallocate_object.
ConstructorThrowsLeaking ==
  /\ building # <<>>
  /\ building' = Finished
  /\ UNCHANGED <<memory, resource_m, default_resource, held, disciplined>>

ConstructorThrows ==
  /\ building # <<>>
  /\ Release(resource_m[Innermost.via], Innermost.block)
  /\ building' = Finished
  /\ UNCHANGED <<resource_m, default_resource, held>>

-----------------------------------------------------------------------------

Next ==
  \/ \E al \in Allocators :
       \/ Create(al)
       \/ \E r \in Resources : CreateFrom(al, r)
       \/ \E other \in Allocators :
            \/ Copy(al, other)
            \/ select_on_container_copy_construction(al, other)
       \/ Drop(al)
       \/ \E t \in Types :
            \/ \E n \in Counts : Allocate(al, t, n)
            \/ new_object(al, t)
       \/ \E q \in RawRequests : allocate_bytes(al, q[1], q[2])
       \/ \E b \in held : Deallocate(al, b)
  \/ ConstructorReturns
  \/ ConstructorThrows
  \/ \E r \in Resources : setDefaultMemoryResource(r)

Spec == Init /\ [][Next]_vars

-----------------------------------------------------------------------------
(* Properties.                                                              *)

\* The state has its types, and the first free address of a stack stays in its buffer or
\* at its end.
TypeOK ==
  /\ p_m \in [Stacks -> Nat]
  /\ \A a \in Stacks : Base[a] <= p_m[a] /\ p_m[a] <= Top(a)
  /\ heap \subseteq [lo : Nat, size : Nat]
  /\ resource_m \in [Allocators -> Resources \cup {None}]
  /\ default_resource \in Resources
  /\ held \subseteq Block
  /\ building \in Seq([block : Block, via : Allocators])
  /\ disciplined \in BOOLEAN

\* Every block out there lies in the storage of its resource and below the first free
\* address, so that nothing allocated later can reach into it.
BlocksPlaced ==
  \A b \in Outstanding :
    \/ /\ b.by \in Stacks
       /\ Base[b.by] <= b.lo
       /\ b.lo + b.bytes <= p_m[b.by]
    \/ /\ b.by \in Mallocators
       /\ \E h \in heap : h.lo = b.lo /\ b.bytes <= h.size

\* No two blocks out there share a byte, in whatever order blocks are returned and
\* constructors nest and fail.
BlocksApart ==
  \A b, c \in Outstanding : b # c => Apart(b.lo, b.bytes, c.lo, c.bytes)

\* A block is aligned as asked, behind blocks of any other alignment.
BlocksAligned ==
  \A b \in Outstanding : b.lo % b.alignment = 0

\* Each block of the C heap in use is one that a client holds or is building in: neither
\* a failing constructor nor an equal allocator of another resource loses one.
HeapAccounted ==
  \A h \in heap : \E b \in Outstanding : b.by \in Mallocators /\ b.lo = h.lo

\* Used last in first out and without padding, a stack loses no byte: every address below
\* the first free one belongs to a block.
NothingLost ==
  disciplined =>
    \A a \in Stacks : \A x \in Base[a] .. p_m[a] - 1 :
      \E b \in Outstanding : b.by = a /\ b.lo <= x /\ x < b.lo + b.bytes

=============================================================================
