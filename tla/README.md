# cxx_plugins in TLA+

A verification project for the cxx_plugins library: TLA+ modules translated from the
source, TLC runs on small instances, and theorems proved with TLAPS for every instance.
Paths are relative to the repository; `polymorphic.hpp` and the like are in
`include/cxx_plugins/`.

1. [The system](#the-system)
2. [The modules](#the-modules)
3. [What the runs show](#what-the-runs-show)
4. [What is proved](#what-is-proved)
5. [Where code and documentation disagree](#where-code-and-documentation-disagree)
6. [What is not modelled](#what-is-not-modelled)
7. [Plan](#plan)

## The system

| part | state it keeps | operations | correct when |
|---|---|---|---|
| `Polymorphic` (`polymorphic.hpp`) | a function table, a type index, and `data_m`: the object itself, or a pointer to a block, its size, alignment and allocator; a state byte | constructors, assignments, `emplace`, `reset`, destructor, `operator[]`, `call`, `data` | one object has one owner, is destroyed once, by the function of its type; blocks go back where they came from |
| `PolymorphicPtr`, `VTable` (`polymorphic_ptr.hpp`, `vtable.hpp`) | type index, pointer to someone else's object, function array and positions in it | made from objects, `Polymorphic`s and other `PolymorphicPtr`s; copy, `reset`, `operator[]`, `call` | a call under a tag runs the function of that tag and of the object's type, on the object |
| `PolymorphicAllocator` (`polymorphic_allocator.hpp`) | a pointer to a memory resource | `allocate`, `deallocate`, `*_bytes`, `*_object`, `new_object`, `delete_object`, `==` | blocks do not overlap, are aligned, are returned to a resource that can take them, also when a constructor throws |
| `StackAllocator`, `Mallocator` (`memory/`) | a buffer and its first free address; nothing | `allocate`, `deallocate`, `is_equal` | as above |
| default memory resource (`src/polymorphic_allocator.cpp`) | one static `MemoryResourcePtr`, a mutex | get, set (returns the previous one) | threads see an atomic register |
| parser (`parser.hpp`, `src/parser.cpp`) | none; it writes into the object it is given | `parse` per type, exceptions rewrapped at each level | the object is what the document says, or an exception tells that it is not |
| plugin loading (`plugin_builder.hpp`) | a loaded library, the directory of the configuration, member pointers into the library | `loadPluginFromFile`, `loadPluginFromString` | every member pointer points into the library that is loaded |
| `FunctionRef`, `OverloadSetRef` (`functionref.hpp`, `overload_set.hpp`) | a variant of pointers, one for each signature | construct, assign, copy, `reset`, `swap`, call, compare | a call reaches the target that was assigned last, and throws when there is none |
| `Tuple`, `TupleMap` (`include/tuple/`) | its elements in one buffer at computed offsets | construct (also from pairs), `get`, assign, swap, compare, `tupleCat`, `apply`, `forEach` | elements do not overlap, are aligned, are destroyed once |
| sequence algorithms (`include/sequence/`, `type_traits.hpp`) | none, evaluated by the compiler | scans, maps, index of a type | equal to their definitions |
| type and function traits, `type_index`, container aliases | none | | |

How they interact. `Polymorphic` takes blocks from a `PolymorphicAllocator<std::byte>`
that is default constructed at every allocation, so through the *default memory
resource* of that moment; the allocator is stored in the buffer next to the block and
gives the block back. A memory resource is called through a
`PrimitivePolymorphicPtr<allocate, deallocate>`. `PolymorphicPtr` and `polymorphicCast`
look into a `Polymorphic` from outside: they keep the address of an object that the
`Polymorphic` may move, replace or destroy. The parser fills tuples, maps and
containers; plugin loading is the parser plus a shared library that some of the parsed
values point into.

What is hard here: sequences of legal calls on several variables (moves duplicate bytes,
emptied variables keep their tables); exceptions in the middle of an operation;
ownership across a change of the default resource; addresses with alignment and
out-of-order returns; threads in the default resource and its initialisation among other
static initialisers; chains of conversions between tables; stale pointers into a moved
object. `PROJECT.json` lists each hazard at its line with the properties aimed at it.

## The modules

```
ValueHolder <--- Polymorphic -------> MCPolymorphic
 (refinement)         |
           VTable -> PolymorphicPtr -> MCPolymorphicPtr
                              \-----> PolymorphicProofs (of both)
MemoryResources -> PolymorphicAllocator -> MCPolymorphicAllocator
                              \-----> PolymorphicAllocatorProofs
ResourceRegister <- DefaultResource -> MCDefaultResource
 (refinement)                 \-----> DefaultResourceProofs
ParsingErrors -> Parser -------------> MCParser
                     \--------------> ParserProofs <--+
PluginLoading -----------------------> MCPluginLoading |
           \------------------------> PluginLoadingProofs
                                                  Recursion
TupleLayout, TupleCat -> Tuple ------> MCTuple         |
                             \------> TupleProofs <----+
FunctionRef -------------------------> MCFunctionRef
         \--------------------------> FunctionRefProofs
```

Three conventions. Definitions carry the names of the source where it has one. A
`slot` is a variable of a class; it is *absent* out of its lifetime, so construction and
destruction are actions too. An operator commented `Slip:` is a form the definition after
it would have after a plausible mistake; no specification uses it, and each property is
shown to fail with one of them put in place.

**Polymorphic.** `slot[s]` has the members of the class. `state`, `size` and `val` stand
for `data_m`, `block` and `alloc` for `FallbackAllocData`, `obj` for the identity of the
object whose bytes are in the storage. `object` is each identity's lifetime: alive, its
type, and the slot it was built in if inline. `heap` is who handed out each block for
which size. One action per constructor, assignment, `emplace`, `reset`, destructor and
call. Moves copy `slot[r]` and with it `obj`, which is how two slots come to hold one
object, as `memcpy` of `data_m` does. The program stops at the first undefined behaviour
or `std::terminate`, and `outcome` says which; whatever a `noexcept` function lets
escape is `"terminated"`. Types are told apart by whether they fit the buffer
(`Inline`), may throw in a constructor (`Throwing`) and may be copied by their bytes
(`Relocatable`). `Next` is any client; `TidyNext` a client that avoids six uses, listed
there. `ValueHolder` is what a user expects: variables that are empty or hold a value.

**PolymorphicPtr** (with **VTable**) puts pointers over the slots of Polymorphic and over
variables of the program. `ref[p]` has the three members. A function is known by its tag
and its type, an array of functions by the class and type it was made for, positions are
those of `permutations_m` counted from 1. Constructors and assignments write the same
members, so one action stands for both. A slot stands for the address of its buffer. Two
history variables: `made`, the object a pointer was made for while that object lives, and
`straight`, that it was not converted from a pointer with permuted positions.
`OwnerStep` is any step of Polymorphic below the pointers. `CallRef` is `call`.
`operator[]` returns a proxy, the function and the address as they were then, which a client
may keep and call later, whatever became of the pointer: `Proxy` takes it of a PolymorphicPtr,
`ProxyHeld` of a Polymorphic, and both write it into a pointer whose table is
that one function (`OneFunction`).

**PolymorphicAllocator** (with **MemoryResources**) uses numbers as addresses. `p_m[a]` is
the first free address of a stack, `heap` the C heap, from which `aligned_alloc` may take
any aligned gap. `held` are the blocks of clients, `building` the stack of constructors
running in `new_object`: any request may happen inside one, and it may return or throw; it may
copy the allocator that `allocator_helpers.hpp` hands to the constructors of types that take one.
A block returned goes through any allocator that compares equal to its own.
`Polymorphic` abstracts this to whether a block is free.

**DefaultResource** copies the three words of a `MemoryResourcePtr` one at a time, in any
order, under `resource_mutex`; `Initialise` is the dynamic initialisation of the static,
before which only the initialising thread runs and may already get and set.
`ResourceRegister` is an atomic register, and DefaultResource implements it: that is why
`default_resource` is one variable, changed in one step, in the other modules.

**Parser** (with **ParsingErrors**). `Parse[s][json][old]` is the value that a call of
`parse` leaves in a target of type `s` that held `old`, and the exception it ends with. A
type is a record that says what kind it is and, in `parts`, the types it is made of, as
the template arguments of the code do; `Parse` is a function that for each type takes the
overload of its kind (`ParseOf`), given the functions of its parts. `Value`, `Default` and
what the properties say of documents (`Meant`, `Complete`, `Faults`) follow the nesting of
types in the same way. The machine is a client that reads documents one after another into
one target, so that each starts from what the last one left, failed or not. `InOrder` is a
loop over parts that ends at the first one to throw: the values before it have been read,
the one at which it ended is what its own failure made of it. `Rewrapped` is
`parsingLippincott`, through which an exception passes once per container around it.
`MayBeLeftOut` says which members of a TupleMap a document may leave out. The code asks
whether `nullopt` or `nullptr` converts to their type (`parser.hpp:102`), which is meant for
optionals and pointers and is true of `std::string` too, and of a tuple whose only element is
such; these stay as they were, without an exception. A path, a container, a number or a
nested TupleMap may not be left out. The
properties rest on `Says`, which relates a document to the values that are what it says,
and on `Faults`, which lists what is wrong with a document in the order of reading; only
`NothingStale` uses `Parse`, to compare a target that was used before with a fresh one.

**PluginLoading** is the parser for one class, the plugin that `makePlugin` makes, with a
step per section of the document, because other threads load other plugins in between.
`library[p]` is what `library_m` holds, `pointers` and `list` are the members, and a
pointer remembers the library, its symbol and the `era` of the mapping it points into.
`config` has the settings, which are read one after another in the step that reads their
section: one that the document leaves out keeps its value, which is an error unless
`MayBeLeftOut` has it, and a failure leaves those before it read. `configPath` is the
parent path of the last file, which a bare file name does not have (`NoDirectory`); the
library is then looked for in the root (`SearchedDirectory`), since "/" is put behind it.
`before` is a history variable: what the plugin had when the load under way began.
`Hold` is what `boost::dll` and the dynamic linker do (external): a library is let go of
before another one is loaded, and unmapped when nobody holds it. The parser is not
instantiated here: it would parse a plugin in one step. Settings are of types that are read
as a whole, and which exception a load throws is left out: both are Parser's subject.

**TupleLayout** is `operator|` of `tuple_storage.hpp`, folded over the element types by the
compiler one type at a time; the fold is a machine with a step per type so that a theorem
about it can be proved by induction over its steps. **TupleCat** has the index sequences of
`tupleCat`. **Tuple** is variables of tuple classes: `fields[s]` are the template arguments
of the class, `element[s]` the values, `Raw` where no object is alive. A `TupleMap` is a
`Tuple` of `TaggedValue`s; a plain `Tuple` has its positions for tags. Elements are
copied or moved in order and a copy of a `Throwing` type may throw, which leaves a
constructor's variable unbuilt (and, in the code, the elements before undestroyed) and an
assignment half done. Pairs (`PairConstruct`, `PairAssign`) go through the same
`ConstructFrom`, from values that are nobody's elements afterwards. TupleCat also has the index
sequences by which `apply` walks over several tuples at once (`Applied`). `PairsByTag` is the condition under which overload resolution picks
the functions of TupleMap; otherwise the inherited functions of Tuple are called, if the
elements at the same positions convert.

**FunctionRef.** A variable is an OverloadSetRef, which has a FunctionRef for each signature of
its class; a FunctionRef by itself is a variable with one signature. `fn_m[v][s]` is what
its variant holds: nothing (`Monostate`), a function pointer, a method, or the address of
an object and the function that casts it back to its class and calls it. A null pointer
of any type leaves the variant empty. Copies and moves are the implicit ones. A reference
owns nothing: `object[a]` is the object at an address, which a client ends
(`DestroyObject`) and whose storage it uses again without telling any reference.
`PartsOf` says which bases and first members share the address of an object. `meant` is
the history of what each reference was last given, and `called` what the last call
reached.

## What the runs show

| run | instance | distinct states | time |
|---|---|---|---|
| `poly_any` | 3 slots, 3 objects, 3 blocks, 4 types, 2 values, 2 resources | 34 thousand up to symmetry | 1 min |
| `poly_tidy` | the same, `TidySpec` | 3.5 thousand up to symmetry | ½ min |
| `allocator` | 2 allocators, stacks of 5 and 1 bytes, 2 bytes of heap, 2 Mallocators, types of size and alignment 1 and 2, constructors nested 2 deep | 2.1 million | 1½ min |
| `default_resource` | 3 threads, 3 resources, 4 calls | 260 thousand | ½ min |
| `ptr` | 2 Polymorphics of a class with 2 functions, 3 pointers of 2 classes (one of which is also the class of proxies), 1 variable | 1.9 million | 2½ min |
| `parser` | the shapes and documents of MCParser: containers nested in each other, members good, mistyped, doubled, and missing in every type that may be left out or not | 2.3 thousand | ½ min |
| `plugins` | 2 plugins on 2 threads, 2 libraries in 2 directories, 2 settings of which one may be left out, 12 documents, each library unmapped at most once or twice | 1.1 million | 2 min |
| `tuples` | 2 variables of any two of 48 classes of up to 3 elements of 4 types | 89 thousand | 1 min |
| `function_ref` | 2 OverloadSetRefs of 2 signatures and a FunctionRef, 2 addresses, 2 classes of which one begins with the other | 29 thousand up to symmetry | ½ min |

*poly_any*: whatever a client does, up to the first undefined behaviour each block has
one owner that can return it (`BlocksHeldOnce`, with throwing constructors, moved-from
slots and a changing default resource), no object is lost and none in a block is shared
(`ObjectsAccounted`), table, type index, storage and object agree (`Coherent`), and a copy
that returns is deep (`ValueSemantics`).
*poly_tidy*: a client that stays clear of the six uses meets nothing undefined
(`WellDefined`), slots and objects correspond one to one (`SoleOwner`), and the buffer, the
blocks and the byte-wise moves implement plain values, as a whole
(`ImplementsValueHolder`) and operation by operation (`OperationByOperation`). The first
alone would let an assignment do what another operation of ValueHolder does; the second
alone would not see effects in other slots.
*allocator*: blocks out there are in the storage of their resource below what is handed
out next (`BlocksPlaced`), do not overlap (`BlocksApart`), are aligned (`BlocksAligned`);
the heap holds no block that nobody can return (`HeapAccounted`); in a stack used last in
first out without padding, every byte below what is handed out next belongs to a block
(`NothingLost`).
*default_resource*: never an empty default once initialised (`NeverEmpty`), an atomic
register (`ImplementsRegister`, which excludes torn pointers), and every call returns
(`CallsReturn`).
*ptr*: no position leads beyond the array (`IndexInTable`), calls find the function of
the tag and of the type (`RightFunction`), a pointer that is not `isEmpty` has a table
(`NotEmptyHasTable`), and while an object in a block lives, the pointers made for it stay
good whatever the Polymorphics do, and so do the proxies taken of them
(`UsableWhileAlive`; the conversions' exception, `straight`, is the third finding below, and pointers to inline objects dangle after a
move, which is why the property is about blocks).
*parser*: after success the target is what the document says (`SuccessSaysDocument`), and
a document that leaves out no member of a TupleMap leaves nothing of earlier ones, or of the remains of one that failed (`NothingStale`); the client catches the kind of the first fault, however deep
(`FirstFaultCaught`); a failure leaves the members behind it untouched
(`FailureStopsThere`).
*plugins*: after a load that returned, the library, every setting and every member the
document gives are the document's, and the members can be called whatever other plugins do
(`Installed`); lists never mix libraries (`ListOfOneLibrary`); wherever a load throws, no
setting, pointer or list has changed before all that precedes it in the document was read,
and what the document leaves out is as it was before (`ChangedInOrder`); every load ends
(`LoadsEnd`).
*tuples*: elements do not overlap and are aligned (`LayoutSound`); values move to the
element of their tag (`TransfersByTag`, with the exception of the second finding below);
equality, order, concatenation and `apply` answer as `std::tuple`'s (`AnswersLikeStdTuple`).
`TupleTypeOK` includes that a variable in its lifetime has all its elements.
*function_ref*: a call reaches the target its reference was last given, through every copy,
swap and assignment of a part of a set, and whatever was built where other objects had
been; only a target that is gone is not promised (`CallsMeant`). Two references with live
targets are equal exactly if the target is the same, with one exception: comparison
looks at addresses, so an object equals its first member (`EqualIsSameObject`).

**Bounds.** Three slots let a value pass through a third one between two operations on a
pair; there are as many objects and blocks as slots can hold, so a full heap (allocation
throws) and a fresh object beside a full set are both reached. Four types are one per
combination that matters of inline, throwing and relocatable. The stacks are one that
fits padding and several blocks, to be returned out of order, and one of a single byte,
where each comparison is at its boundary; the count 24 is the first that the check
`n <= max / sizeof(T)` refuses for one type and not for the other. Depth 2 lets a
constructor that runs inside another throw. Four calls let two setters and a getter
overlap after a first call before the initialisation. Values, objects, blocks, slots and
equivalent pointers are interchanged by symmetry, which no invariant or action property
tells apart; the runs with a liveness property declare none.
Numbers in documents are counted in halves, so that an integral target meets one that is
not whole. The path `here` is one library in the working directory and another in the root,
so that a stale `config_path_m` and a file without a parent path show, and one library lacks
a symbol. Of the two settings the first must be given and the second may be left out. `MaxEra` stops new loads after
an unmapping; a load already under way may unmap once more, so a mapping, its successor and
a pointer into each are reached. The tuple classes of `MCFieldLists` include the empty one,
those with padding, those whose types convert, and maps of the same tags in every order; three
elements are the fewest with which some tags stay in place and others do not, and three
tuples (`MaxCat`) the fewest with an empty one between two others.
In `function_ref` two variables of one class are the fewest that can be swapped and copied as
wholes, and the third, of a single signature, can be copied from a part of a set; two addresses
let an object be equal to its own part and differ from another object of the class.

**Deadlock** is checked where the program cannot stop (`allocator`, `parser`, `plugins`);
elsewhere it may end by termination or undefined behaviour, or threads may stop calling.

**Fairness.** In `default_resource` a thread inside a call is scheduled again and again
(weak fairness of its steps, one formula per thread). `std::mutex` promises no more, and
under endless contention a waiting thread may starve; so the property is about finitely
many calls, which the bound `MaxCalls` makes them. In `plugins` each thread that is loading
goes on (weak fairness of `Step`, per plugin); a load waits for nobody.

## What is proved

No theorem has a bound on slots, types, objects, threads, stacks, addresses, classes,
plugins, libraries, documents, elements, references or nesting (only the counters of calls and eras
guard new calls); the assumptions are the named `ASSUME`s, which TLC evaluates in each run.
Every safety property that a run checks is a theorem.

* **PolymorphicProofs** `TypeCorrect`, `BlocksHeldOnceHolds`,
  `ObjectsAccountedHolds`, `CoherentHolds`. The inductive invariant `Ownership` is the
  conjunction of the four properties of `poly_any`. None of them is inductive alone: a
  copy has the form of its source, so the new slot is sound only if the source's table,
  state and size agree (`Coherent`); a release frees one block only if no other slot has
  it. The sixteen kinds of steps are first shown to have one of six shapes (`Shape`:
  quiet, builds, leaves unbuilt, clears, transfers, writes), and then each part of the
  invariant is shown to survive each shape. `ValueSemanticsHolds` follows from it: a copy
  that returns has a block or a buffer of its own.
* The same module for a tidy client: `WellDefinedHolds`, `SoleOwnerHolds`,
  `ImplementsValueHolderHolds` and `OperationByOperationHolds`, that is, the refinement of
  ValueHolder. `TidyInv` adds to `Ownership` the two properties themselves, that an object
  which must not be moved by its bytes is where it was built (`AtHome`), and that a full
  slot has a value. They need each other: whatever a slot holds can be destroyed because the
  object is there, and the object is there because no second slot has destroyed it. In the
  refinement a moved-from slot is void because, were it full, two slots would hold one
  object after the step (`MoveStep`).
* **PolymorphicAllocatorProofs** `TypeCorrect`, `BlocksPlacedHolds`, `BlocksApartHolds`,
  `BlocksAlignedHolds`, `HeapAccountedHolds`, from `MemorySound`: besides the first three, the C heap's own blocks do not overlap, no block
  is out there twice, and a block under construction came from the resource its allocator
  still names, which is what makes the rollback of a throwing constructor go to the right
  place. `StacksAssumption`, `ApartAssumption` and `HeapAssumption` say that storages are
  disjoint, `NoWrapAssumption` that no request reaches the end of the address space.
  `NothingLostHolds` needs that in a stack without gaps the block on top ends at `p_m`
  (`TopmostIsTop`), so that its return frees its own bytes and no others.
* **DefaultResourceProofs** `TypeCorrect` (with mutual exclusion), `NoTornPointerHolds`,
  `NeverEmptyHolds` and the refinement `ImplementsRegisterHolds`. The invariant relates
  the words already copied to their source, for a reader, and to the value stored, for a
  writer; a setter takes effect when it has read the last word of the previous value.
* **PolymorphicProofs** again, for pointers of any classes: `PtrTypeCorrect`,
  `IndexInTableHolds`, `RightFunctionHolds`, `NotEmptyHasTableHolds`,
  `UsableWhileAliveHolds`. They rest on `Ownership`, which
  every step of the pointers preserves: a table taken from a Polymorphic is that of its
  type index because the two never come apart there. A conversion keeps a table right
  because, where the positions of the source are in order, the index of a tag in the
  source's class is its place in the array. `UsableWhileAlive` needs to know where the object of
  a pointer is: `Placed` says that some slot, perhaps another one by now, has it in the block
  that the pointer names, since moves hand the block on and never copy it.
* **PluginLoadingProofs** `PluginTypeCorrect`, `InstalledHolds`, `ListOfOneLibraryHolds`,
  `ChangedInOrderHolds`. `Installed` speaks of loads that returned; the invariant (`Got`,
  `LoadsGetThere`) says what each section of a load under way has put in place, and
  (`GotBefore`) what is still as it was when the load began. What a plugin has survives
  the steps of the others because a library is not unmapped while somebody holds it.
  `DocumentsAssumption` says, besides the types, that "absent" and "mistyped" are no values.
* **TupleProofs** `TupleTypeCorrect`, `LayoutSoundHolds`, `TransfersByTagHolds`,
  `AnswersLikeStdTupleHolds`. The offsets
  are a fold over the types; since it is modelled as steps, the invariant says of the
  types folded so far that each begins behind the end of the one before, at a multiple of
  its alignment, and that alignments divide the larger ones (`TypesAssumption`: they are powers of
  two). `TransfersByTag` needs that a class is a Tuple or a TupleMap and the two are not
  mixed (`KindsApart`), and that a tag occurs once (`FieldListsAssumption`; the code asserts it
  of the first tag only, see the remarks below, and cannot `get` another one that occurs
  twice). `AnswersLikeStdTuple` is about functions rather than states. The elements from the
  i-th on decide an order if one of them does before which all are equal
  (`LessIsLexicographic`). In what is put one behind the other, the j-th element of the k-th
  tuple is at the sum of the sizes before the k-th, plus j (`FlattenLocated`), every position
  is of that form, and there the index sequences of `tupleCat` are k and j; those of
  `apply`, put together two at a time, come to the same (`IntegerSequenceCatIsFlatten`).
* **FunctionRefProofs** `FnTypeCorrect`, `CallsMeantHolds`, `EqualIsSameObjectHolds`. The
  invariant (`AllFit`) says of each reference that what it holds fits what was meant: it is
  empty, or holds the very target, which is alive; or the target is gone. Storage that is
  used again does not disturb it, since only references whose target is gone look there.

* **ParserProofs** `ParserTypeCorrect`, `SuccessSaysDocumentHolds`, `NothingStaleHolds`,
  `FirstFaultCaughtHolds`, `FailureStopsThereHolds`, for any types, however they nest, and
  any documents. What a document does to a target is a fact about `Parse`, `Good`, proved by
  induction over the nesting of types with a lemma per kind of type: whatever was there,
  the result is a value of the type, the exception is the first of the document's faults,
  without one the result is what the document says, and if the document is complete, or the
  type is a container that is cleared first, the result is the same from everywhere. The
  four parts need each other: a container stops where an element's exception says, and what
  it leaves there is a value of its type only because each failure leaves one. For maps the
  invariant of the loop (`Holds`) says that the keys are the names read so far and that each
  has the value of its first one. The state invariant is then the conjunction of the
  properties: what was read before left a value of the type, and the next document needs no
  more. `LeftOutIs` says which types a document may leave out, as the code's two traits do.
  `NestingAssumption` is what lets C++ types be written down: a type is nested deeper
  than its parts. `StringAssumption`, that `""` is a string, holds in TLA+, but the provers
  do not know it.
* **Recursion** has what both need. A recursive function has the value its definition says
  only if some function satisfies the definition; that one does is proved from
  approximations, up to each position of a sequence (`RecursionDownwards`,
  `RecursionUpwards`) or each depth of nesting (`TypeRecursion` in ParserProofs). Induction
  is about sets instead of predicates (`SetInduction`, `Upwards`, `Downwards`), so that it
  can be cited without an operator for a parameter: it comes from the
  strict inclusion of finite sets being well founded, which FiniteSetTheorems says.

Only model-checked: `CallsReturn` and `LoadsEnd`, which are liveness properties and need
`ENABLED`.

## Where code and documentation disagree

Each is a run that TLC ends with a counterexample of a few steps.

1. `poly_move_assign`: move assignment (`polymorphic.hpp:132`) empties its source only if
   that owns a block. With an inline object both variables then hold it and both
   destructors run, although the comment there says that the state is changed "to prevent
   from deallocating/destructing in destructor". The move constructor does it right.
2. `tuple_convert`: a `TupleMap` made from one with the same tags in another order is to get
   each value under its tag (`tuple_map.hpp:188`, `:271`), and it does if every tag is at another
   place. If some tag is at the same place, the condition at `tuple_map.hpp:278` fails, and the
   constructor inherited from Tuple copies by position: from `<A, B, C>` to `<A, C, B>`, B's
   value is found under C. Assignments have the same condition.
3. `ptr_upcast`: a converted table (`vtable.hpp:184`) ignores the positions its source
   has, so a PolymorphicPtr made from a converted one calls other functions than
   `README.md:168` promises; made from a PolymorphicPtr to a Polymorphic, it can call the
   destructor.

Disagreements seen in the source that no run is about:

* `reset()` of a Polymorphic that holds something (`polymorphic.hpp:259`) resets the table before
  it calls the destructor through it, and `vtable.hpp:322` asserts that the table is not
  empty. This one is in the model (outcome `null_table`), and is one of the uses that a tidy
  client avoids;
* a `std::string` that a document leaves out of a TupleMap is no error (`parser.hpp:565`;
  `nullptr` converts to it), so that it keeps its value; the test `TupleMapMissingMember`
  (`parser_tests.cpp:381`) expects `ObjectMemberMissing` for one, and `TupleMapSizeMismatch`
  (`:362`) expects `ObjectSizeMismatch`, which no TupleMap throws; both are commented out. What
  the code does is in the model (`MayBeLeftOut`);
* a plugin loaded from a bare file name looks for its library in the root directory
  (`plugin_builder.hpp:245`, `:192`), and for the path `"."` not only the program is loaded
  but "./." after it, for want of a `return` (`:187`). Both are in the model;
* the default resource is the library's own Mallocator, not
  `std::pmr::get_default_resource()` as `polymorphic_allocator.hpp:80` says;
* order comparison of TupleMaps (`tuple_map.hpp:401`) casts through the conversion operators
  at `:353`, which cast through themselves: the call never returns;
* `tupleCat` with an rvalue first argument names `helper::ReturnT`, which does not exist
  (`tuple_cat.hpp:102`);
* an element constructor that throws leaves the elements before it undestroyed
  (`tuple_storage.hpp:270`), which `std::tuple` does not;
* copy assignment of a TupleMap is `noexcept` (`tuple_map.hpp:255`), so that an element whose
  copy throws ends the program. This one is in the model (`outcome`);
* of the tags of a TupleMap only the first is compared with the others (`AreUnique`,
  `type_traits.hpp:30`), so `TupleMap<A, B, B>` compiles and `get<B>` of it does not;
* `get` of a `const &&` TupleMap (`tuple_map.hpp:482`) has no `return`; `tie(x, y) = tie(y, x)` does not
  compile; `depthFirstTraversal` visits the `TaggedValue`s of the top level only;
* `explicit operator bool` of FunctionRef (`functionref.hpp:243`) answers `isEmpty()`; a call of one
  that returns a value does not compile (`:209`), nor do the order operators (`:231`), nor
  `makeOverloadSetRef` with pointers to objects; an OverloadSetRef of one signature, copied
  from a variable that is not `const`, is given to the constructor for callables, which
  never ends;
* under C++17 `ref[tag](args...)` reads the function and the pointer before the arguments are
  evaluated and `ref.call<tag>(args...)` after: this is why a proxy is an object of its own in
  the model;
* names of types are compared after `class ` and `struct ` were cut out of them, also in the
  middle of a longer word, and `typeInfoConstructWithCVR` takes the length of the name
  without qualifiers (`type_index.hpp:106`), so that two different types may compare equal.

## What is not modelled

* In the modelled parts: alignment of inline storage and of blocks inside Polymorphic;
  copies of a `StackAllocator` (its `p_m` would point into the source); address
  arithmetic that wraps; `PrimitivePolymorphicPtr` apart from memory resources; `isA` of
  Polymorphic and PolymorphicPtr, which compares a function with a type index and does not
  compile when used; several threads using one Polymorphic, which the library does not
  allow.
* `GenericPlugin` (`cxx_plugins.hpp`, `plugin.hpp`): superseded, and not compilable against
  the present parser. Type and function traits, function casts, `type_index`,
  container aliases: no state at run time.
* Parser: the overload for C arrays, whose definition differs from its declaration; maps
  with keys that are not strings, whose parse always throws; `std::bad_alloc`. Plugin
  loading: copies of a plugin; settings that are nested TupleMaps, and which exception a load
  throws. The texts of exceptions.
* Tuple: elements that are references, `forEach` and the traversals, the order of TupleMaps,
  three-way comparison.
* FunctionRef: `OverloadSet`, whose bases are `std::function`s; what does not compile, above.

## Plan

Done, in this order: Polymorphic with its refinement and proofs; PolymorphicAllocator over
the memory resources; DefaultResource; PolymorphicPtr over Polymorphic; Parser; plugin
loading; Tuple with its layout, concatenation, `apply` and pairs; FunctionRef; the proofs of
every safety property, those about recursive functions last.

Left:

1. *Tuple*: references as elements, where `tie` makes two variables share a value.
2. *Parser and plugin loading*: that PluginLoading, with its step per section, reads each
   document as Parser would read it in one step when no other thread is at work.
