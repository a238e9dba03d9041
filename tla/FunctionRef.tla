---------------------------- MODULE FunctionRef ----------------------------
(***************************************************************************)
(* FunctionRef and OverloadSetRef: references to functions, methods and    *)
(* callable objects that they do not own.  A variable is an OverloadSetRef,*)
(* which has a FunctionRef for each signature of its class; a FunctionRef  *)
(* by itself is a variable with one signature.  Objects come and go below  *)
(* the references, and their storage is used again.                        *)
(***************************************************************************)
EXTENDS FiniteSets

CONSTANTS
  Variables,   \* OverloadSetRefs and FunctionRefs of the program
  SignaturesOf,\* SignaturesOf[v]: the signatures of the class of v
  Functions,   \* Functions[s]: the functions of signature s
  Methods,     \* Methods[s]: the methods whose object and arguments are those of s
  Classes,     \* classes with a call operator
  Callable,    \* Callable[s]: those whose call operator takes the arguments of s
  PartsOf,     \* PartsOf[c]: c and the bases and members at the address of a c
  Addresses,   \* storage for objects
  None

ASSUME FunctionRefAssumption ==
  /\ Classes \cap {None} = {}
  /\ None \notin Addresses
  /\ PartsOf \in [Classes -> SUBSET Classes]
  /\ \A c \in Classes : c \in PartsOf[c]

Signatures == UNION {SignaturesOf[v] : v \in Variables}

ASSUME SignaturesAssumption ==
  \A s \in Signatures : Callable[s] \subseteq Classes

VARIABLES
  fn_m,     \* fn_m[v][s]: what the variant of each FunctionRef holds
  exists,   \* the variables that are constructed
  object,   \* object[a]: the class of the object at a
  called,   \* what the last step called
  meant     \* history: the target each reference was last given

refs == <<fn_m, exists, meant>>
vars == <<fn_m, exists, object, called, meant>>

-----------------------------------------------------------------------------
(* Values of the variant, pointers a reference is made from, and what a     *)
(* call reaches, are written alike.                                         *)

Target(is, fn, obj_p_m) == [is |-> is, fn |-> fn, obj_p_m |-> obj_p_m]

Monostate == Target("Monostate", None, None)

\* What a call of an empty reference ends in, and of one to storage without the object.
LogicError == Target("logic_error", None, None)
Undefined == Target("undefined", None, None)

\* History: the object is gone.
Gone == Target("gone", None, None)

FunctionPointers(s) == {Target("FnPtr", f, None) : f \in Functions[s] \cup {None}}
MethodPointers(s) == {Target("Method", m, None) : m \in Methods[s] \cup {None}}
ObjectPointers(s) == {Target("Object", c, a) : c \in Callable[s], a \in Addresses \cup {None}}

\* Pointers a client has: nullptr, null ones of each type, and the addresses of objects that live.
Given(s) ==
  {Monostate} \cup FunctionPointers(s) \cup MethodPointers(s)
  \cup {p \in ObjectPointers(s) :
          p.obj_p_m # None => object[p.obj_p_m] # None /\ p.fn \in PartsOf[object[p.obj_p_m]]}

isNullptr(p) == IF p.is = "Object" THEN p.obj_p_m = None ELSE p.fn = None

\* What the variant holds after it was given a pointer.
Held(p) == IF isNullptr(p) THEN Monostate ELSE p

\* Slip: the function that calls the object is left as it was.
AssignedKeepingKick(held, p) ==
  IF held.is = "Object" /\ p.is = "Object" /\ p.obj_p_m # None
    THEN [p EXCEPT !.fn = held.fn]
    ELSE Held(p)

\* What it holds then, when it held something before.
Assigned(held, p) == Held(p)

isEmpty(held) == held.is = "Monostate"

\* Slip: two objects called by one function are equal.
EqualByKick(x, y) == x.is = y.is /\ x.fn = y.fn

\* operator==: objects are compared by address only.
Equal(x, y) ==
  /\ x.is = y.is
  /\ IF x.is = "Object" THEN x.obj_p_m = y.obj_p_m ELSE x.fn = y.fn

\* An object to call is there when what lives at the address is one of that class, or starts with one.
Alive(held) ==
  held.is = "Object" =>
    /\ object[held.obj_p_m] # None
    /\ held.fn \in PartsOf[object[held.obj_p_m]]

\* operator().
Reached(held) ==
  IF isEmpty(held) THEN LogicError
  ELSE IF Alive(held) THEN held
  ELSE Undefined

-----------------------------------------------------------------------------
(* Operations.                                                              *)

\* The references of v become f[s], s \in S, and mean t[s].
Write(v, S, f, t) ==
  /\ fn_m' = [fn_m EXCEPT ![v] = [s \in SignaturesOf[v] |-> IF s \in S THEN f[s] ELSE @[s]]]
  /\ meant' = [meant EXCEPT ![v] = [s \in SignaturesOf[v] |-> IF s \in S THEN t[s] ELSE @[s]]]
  /\ called' = None
  /\ UNCHANGED object

SameClass(v, w) == SignaturesOf[v] = SignaturesOf[w]

Pointers(S) == {p \in [S -> UNION {Given(s) : s \in S}] : \A s \in S : p[s] \in Given(s)}

\* What a client means by a pointer.
Meaning(p) == IF isNullptr(p) THEN LogicError ELSE p

\* From a pointer for each signature; a FunctionRef also from none.
Construct(v, p) ==
  /\ v \notin exists
  /\ exists' = exists \cup {v}
  /\ Write(v, SignaturesOf[v], [s \in SignaturesOf[v] |-> Held(p[s])],
           [s \in SignaturesOf[v] |-> Meaning(p[s])])

\* Copies and moves are the implicit ones and leave the source as it is.
CopyConstruct(v, w) ==
  /\ v \notin exists /\ w \in exists
  /\ SameClass(v, w)
  /\ exists' = exists \cup {v}
  /\ Write(v, SignaturesOf[v], fn_m[w], meant[w])

CopyAssign(v, w) ==
  /\ {v, w} \subseteq exists /\ v # w
  /\ SameClass(v, w)
  /\ Write(v, SignaturesOf[v], fn_m[w], meant[w])
  /\ UNCHANGED exists

\* assign of an OverloadSetRef, operator= of a FunctionRef.
Assign(v, p) ==
  /\ v \in exists
  /\ Write(v, SignaturesOf[v], [s \in SignaturesOf[v] |-> Assigned(fn_m[v][s], p[s])],
           [s \in SignaturesOf[v] |-> Meaning(p[s])])
  /\ UNCHANGED exists

\* The operations of one FunctionRef of an OverloadSetRef.
AssignOne(v, s, p) ==
  /\ v \in exists
  /\ Write(v, {s}, [i \in {s} |-> Assigned(fn_m[v][s], p)], [i \in {s} |-> Meaning(p)])
  /\ UNCHANGED exists

CopyOne(v, w, s) ==
  /\ {v, w} \subseteq exists /\ v # w
  /\ Write(v, {s}, [i \in {s} |-> fn_m[w][s]], [i \in {s} |-> meant[w][s]])
  /\ UNCHANGED exists

Reset(v, s) ==
  /\ v \in exists
  /\ Write(v, {s}, [i \in {s} |-> Monostate], [i \in {s} |-> LogicError])
  /\ UNCHANGED exists

Swap(v, w, s) ==
  /\ {v, w} \subseteq exists /\ v # w
  /\ fn_m' = [fn_m EXCEPT ![v][s] = fn_m[w][s], ![w][s] = fn_m[v][s]]
  /\ meant' = [meant EXCEPT ![v][s] = meant[w][s], ![w][s] = meant[v][s]]
  /\ called' = None
  /\ UNCHANGED <<exists, object>>

Destroy(v) ==
  /\ v \in exists
  /\ exists' = exists \ {v}
  /\ Write(v, SignaturesOf[v], [s \in SignaturesOf[v] |-> Monostate],
           [s \in SignaturesOf[v] |-> LogicError])

Call(v, s) ==
  /\ v \in exists
  /\ called' = Reached(fn_m[v][s])
  /\ UNCHANGED <<fn_m, exists, object, meant>>

\* The program builds an object, and ends the life of one: no reference is told.
CreateObject(a, c) ==
  /\ object[a] = None
  /\ object' = [object EXCEPT ![a] = c]
  /\ called' = None
  /\ UNCHANGED refs

DestroyObject(a) ==
  /\ object[a] # None
  /\ object' = [object EXCEPT ![a] = None]
  /\ meant' = [v \in Variables |-> [s \in SignaturesOf[v] |->
       IF meant[v][s].is = "Object" /\ meant[v][s].obj_p_m = a THEN Gone ELSE meant[v][s]]]
  /\ called' = None
  /\ UNCHANGED <<fn_m, exists>>

Init ==
  /\ fn_m = [v \in Variables |-> [s \in SignaturesOf[v] |-> Monostate]]
  /\ exists = {}
  /\ object = [a \in Addresses |-> None]
  /\ called = None
  /\ meant = [v \in Variables |-> [s \in SignaturesOf[v] |-> LogicError]]

Next ==
  \/ \E v \in Variables :
       \/ \E p \in Pointers(SignaturesOf[v]) : Construct(v, p) \/ Assign(v, p)
       \/ \E w \in Variables : CopyConstruct(v, w) \/ CopyAssign(v, w)
       \/ Destroy(v)
       \/ \E s \in SignaturesOf[v] :
            \/ \E p \in Given(s) : AssignOne(v, s, p)
            \/ Reset(v, s)
            \/ Call(v, s)
            \/ \E w \in Variables : s \in SignaturesOf[w] /\ (CopyOne(v, w, s) \/ Swap(v, w, s))
  \/ \E a \in Addresses :
       \/ \E c \in Classes : CreateObject(a, c)
       \/ DestroyObject(a)

FnSpec == Init /\ [][Next]_vars

-----------------------------------------------------------------------------
(* Correctness properties.                                                  *)

Variants(s) ==
  {Monostate} \cup {p \in FunctionPointers(s) \cup MethodPointers(s) \cup ObjectPointers(s) : ~isNullptr(p)}

\* Each member has its type: no reference holds a null pointer, and one that is not constructed is
\* as the default constructor leaves it.
FnTypeOK ==
  /\ exists \subseteq Variables
  /\ object \in [Addresses -> Classes \cup {None}]
  /\ DOMAIN fn_m = Variables /\ DOMAIN meant = Variables
  /\ \A v \in Variables :
       /\ DOMAIN fn_m[v] = SignaturesOf[v] /\ DOMAIN meant[v] = SignaturesOf[v]
       /\ \A s \in SignaturesOf[v] :
            /\ fn_m[v][s] \in Variants(s)
            /\ meant[v][s] \in Variants(s) \cup {LogicError, Gone}

\* A call reaches what its reference was last given, however the reference and those it was copied from
\* and swapped with were used since and whatever was built where other objects had been; one given a
\* null pointer of any type throws logic_error.  Only a target that is gone is not promised.
CallsMeant ==
  [][\A v \in Variables : \A s \in SignaturesOf[v] :
       Call(v, s) /\ meant[v][s] # Gone => called' = meant[v][s]]_vars

\* Two references with live targets are equal when they were given the same target, and otherwise only
\* when one target is the first part of the other, which is at the same address.
EqualIsSameObject ==
  \A v, w \in exists : \A s \in SignaturesOf[v] \cap SignaturesOf[w] :
    LET x == meant[v][s]
        y == meant[w][s]
    IN  Gone \notin {x, y} =>
          /\ x = y => Equal(fn_m[v][s], fn_m[w][s])
          /\ Equal(fn_m[v][s], fn_m[w][s]) =>
               \/ x = y
               \/ /\ x.is = "Object" /\ y.is = "Object"
                  /\ {x.fn, y.fn} \subseteq PartsOf[object[x.obj_p_m]]
                  /\ x.obj_p_m = y.obj_p_m
=============================================================================
