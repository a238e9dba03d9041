------------------------- MODULE FunctionRefProofs -------------------------
(***************************************************************************)
(* Type correctness of FunctionRef, that calls reach what was meant and    *)
(* that equal references are to one object, for any variables, signatures, *)
(* classes and storage.                                                    *)
(***************************************************************************)
EXTENDS FunctionRef, TLAPS

\* What a reference holds agrees with what was meant.
Fits(x, t) ==
  \/ t = Gone
  \/ t = LogicError /\ x = Monostate
  \/ t = x /\ x # Monostate /\ x.is \in {"FnPtr", "Method", "Object"} /\ Alive(x)

AllFit == \A v \in Variables : \A s \in SignaturesOf[v] : Fits(fn_m[v][s], meant[v][s])

FnInv == FnTypeOK /\ AllFit

\* A pair of a held and a meant target that a reference of signature s may have.
Proper(s, x, t) ==
  /\ x \in Variants(s)
  /\ t \in Variants(s) \cup {LogicError, Gone}
  /\ Fits(x, t)

LEMMA ProperEverywhere ==
  ASSUME FnInv, NEW v \in Variables, NEW s \in SignaturesOf[v]
  PROVE  Proper(s, fn_m[v][s], meant[v][s])
BY DEF FnInv, FnTypeOK, AllFit, Proper

\* Names apart, so that targets of different kinds differ.
LEMMA KindsDiffer ==
  /\ Gone # LogicError /\ Gone # Monostate /\ LogicError # Monostate
  /\ \A t : t.is \in {"FnPtr", "Method", "Object"} => t \notin {Gone, LogicError, Monostate}
BY DEF Gone, LogicError, Monostate, Target

LEMMA HeldIsProper ==
  ASSUME NEW s \in Signatures, NEW p \in Given(s)
  PROVE  Proper(s, Held(p), Meaning(p))
<1>1. CASE isNullptr(p)
  BY <1>1 DEF Held, Meaning, Proper, Variants, Fits
<1>2. CASE ~isNullptr(p)
  <2>1. p # Monostate
    BY <1>2 DEF isNullptr, Monostate, Target
  <2>2. p \in FunctionPointers(s) \cup MethodPointers(s) \cup ObjectPointers(s)
    BY <2>1 DEF Given
  <2>3. p.is \in {"FnPtr", "Method", "Object"}
    BY <2>2 DEF FunctionPointers, MethodPointers, ObjectPointers, Target
  <2>4. Alive(p)
    <3>1. CASE p.is # "Object"
      BY <3>1 DEF Alive
    <3>2. CASE p.is = "Object"
      <4>1. p \notin FunctionPointers(s) \cup MethodPointers(s)
        BY <3>2 DEF FunctionPointers, MethodPointers, Target
      <4>2. p.obj_p_m # None
        BY <1>2, <3>2 DEF isNullptr
      <4> QED
        BY <2>1, <4>1, <4>2 DEF Given, Alive
    <3> QED
      BY <3>1, <3>2
  <2> QED
    BY <1>2, <2>1, <2>2, <2>3, <2>4 DEF Held, Meaning, Proper, Variants, Fits
<1> QED
  BY <1>1, <1>2

LEMMA NothingIsProper ==
  ASSUME NEW s
  PROVE  Proper(s, Monostate, LogicError)
BY DEF Proper, Variants, Fits

-----------------------------------------------------------------------------
(* A write of proper targets keeps the invariant.                           *)

LEMMA WriteKeeps ==
  ASSUME FnInv, NEW v \in Variables, NEW S \in SUBSET SignaturesOf[v], NEW f, NEW t,
         \A s \in S : Proper(s, f[s], t[s]),
         Write(v, S, f, t), exists' \subseteq Variables
  PROVE  FnInv'
<1>1. object' = object
  BY DEF Write
<1>2. /\ DOMAIN fn_m' = Variables
      /\ DOMAIN meant' = Variables
  BY DEF Write, FnInv, FnTypeOK
<1>3. ASSUME NEW w \in Variables
      PROVE  /\ DOMAIN fn_m'[w] = SignaturesOf[w]
             /\ DOMAIN meant'[w] = SignaturesOf[w]
             /\ \A s \in SignaturesOf[w] : Proper(s, fn_m'[w][s], meant'[w][s])
  <2>1. CASE w # v
    BY <2>1, ProperEverywhere DEF Write, FnInv, FnTypeOK
  <2>2. CASE w = v
    <3>1. /\ fn_m'[w] = [s \in SignaturesOf[v] |-> IF s \in S THEN f[s] ELSE fn_m[v][s]]
          /\ meant'[w] = [s \in SignaturesOf[v] |-> IF s \in S THEN t[s] ELSE meant[v][s]]
      BY <2>2 DEF Write, FnInv, FnTypeOK
    <3> QED
      BY <2>2, <3>1, ProperEverywhere
  <2> QED
    BY <2>1, <2>2
<1>4. FnTypeOK'
  BY <1>1, <1>2, <1>3 DEF FnInv, FnTypeOK, Proper, Variants, FunctionPointers, MethodPointers,
       ObjectPointers
<1>5. AllFit'
  BY <1>1, <1>3 DEF AllFit, Proper, Fits, Alive
<1> QED
  BY <1>4, <1>5 DEF FnInv

LEMMA PointersAreGiven ==
  ASSUME NEW v \in Variables, NEW p \in Pointers(SignaturesOf[v]), NEW s \in SignaturesOf[v]
  PROVE  p[s] \in Given(s) /\ s \in Signatures
BY DEF Pointers, Signatures

LEMMA InvInitially == Init => FnInv
<1> SUFFICES ASSUME Init PROVE FnInv
  OBVIOUS
<1>1. \A v \in Variables : \A s \in SignaturesOf[v] : Proper(s, fn_m[v][s], meant[v][s])
  BY NothingIsProper DEF Init
<1> QED
  BY <1>1 DEF Init, FnInv, FnTypeOK, AllFit, Proper

LEMMA InvStep == FnInv /\ [Next]_vars => FnInv'
<1> SUFFICES ASSUME FnInv, [Next]_vars PROVE FnInv'
  OBVIOUS
<1> USE DEF FnInv
<1>1. ASSUME NEW v \in Variables, NEW p \in Pointers(SignaturesOf[v]),
             Construct(v, p) \/ Assign(v, p)
      PROVE  FnInv'
  <2> DEFINE F == [s \in SignaturesOf[v] |-> Held(p[s])]
             T == [s \in SignaturesOf[v] |-> Meaning(p[s])]
  <2>1. Write(v, SignaturesOf[v], F, T)
    BY <1>1 DEF Construct, Assign, Assigned
  <2>2. \A s \in SignaturesOf[v] : Proper(s, F[s], T[s])
    BY PointersAreGiven, HeldIsProper
  <2>3. exists' \subseteq Variables
    BY <1>1 DEF Construct, Assign, FnTypeOK
  <2> HIDE DEF F, T
  <2> QED
    BY <2>1, <2>2, <2>3, WriteKeeps
<1>2. ASSUME NEW v \in Variables, NEW w \in Variables, CopyConstruct(v, w) \/ CopyAssign(v, w)
      PROVE  FnInv'
  <2>1. Write(v, SignaturesOf[v], fn_m[w], meant[w]) /\ SignaturesOf[v] = SignaturesOf[w]
    BY <1>2 DEF CopyConstruct, CopyAssign, SameClass
  <2>2. \A s \in SignaturesOf[v] : Proper(s, fn_m[w][s], meant[w][s])
    BY <2>1, ProperEverywhere
  <2>3. exists' \subseteq Variables
    BY <1>2 DEF CopyConstruct, CopyAssign, FnTypeOK
  <2> QED
    BY <2>1, <2>2, <2>3, WriteKeeps
<1>3. ASSUME NEW v \in Variables, Destroy(v)
      PROVE  FnInv'
  <2> DEFINE F == [s \in SignaturesOf[v] |-> Monostate]
             T == [s \in SignaturesOf[v] |-> LogicError]
  <2>1. Write(v, SignaturesOf[v], F, T) /\ exists' \subseteq Variables
    BY <1>3 DEF Destroy, FnTypeOK
  <2>2. \A s \in SignaturesOf[v] : Proper(s, F[s], T[s])
    BY NothingIsProper
  <2> HIDE DEF F, T
  <2> QED
    BY <2>1, <2>2, WriteKeeps
<1>4. ASSUME NEW v \in Variables, NEW s \in SignaturesOf[v], NEW p \in Given(s), AssignOne(v, s, p)
      PROVE  FnInv'
  <2> DEFINE F == [i \in {s} |-> Held(p)]
             T == [i \in {s} |-> Meaning(p)]
  <2>1. Write(v, {s}, F, T) /\ exists' \subseteq Variables
    BY <1>4 DEF AssignOne, Assigned, FnTypeOK
  <2>2. \A i \in {s} : Proper(i, F[i], T[i])
    BY HeldIsProper DEF Signatures
  <2> HIDE DEF F, T
  <2> QED
    BY <2>1, <2>2, WriteKeeps
<1>5. ASSUME NEW v \in Variables, NEW s \in SignaturesOf[v], Reset(v, s)
      PROVE  FnInv'
  <2> DEFINE F == [i \in {s} |-> Monostate]
             T == [i \in {s} |-> LogicError]
  <2>1. Write(v, {s}, F, T) /\ exists' \subseteq Variables
    BY <1>5 DEF Reset, FnTypeOK
  <2>2. \A i \in {s} : Proper(i, F[i], T[i])
    BY NothingIsProper
  <2> HIDE DEF F, T
  <2> QED
    BY <2>1, <2>2, WriteKeeps
<1>6. ASSUME NEW v \in Variables, NEW s \in SignaturesOf[v], NEW w \in Variables,
             s \in SignaturesOf[w], CopyOne(v, w, s)
      PROVE  FnInv'
  <2> DEFINE F == [i \in {s} |-> fn_m[w][s]]
             T == [i \in {s} |-> meant[w][s]]
  <2>1. Write(v, {s}, F, T) /\ exists' \subseteq Variables
    BY <1>6 DEF CopyOne, FnTypeOK
  <2>2. \A i \in {s} : Proper(i, F[i], T[i])
    BY <1>6, ProperEverywhere
  <2> HIDE DEF F, T
  <2> QED
    BY <2>1, <2>2, WriteKeeps
<1>7. ASSUME NEW v \in Variables, NEW s \in SignaturesOf[v], NEW w \in Variables,
             s \in SignaturesOf[w], Swap(v, w, s)
      PROVE  FnInv'
  <2>1. /\ v # w /\ UNCHANGED <<exists, object>>
        /\ fn_m' = [fn_m EXCEPT ![v][s] = fn_m[w][s], ![w][s] = fn_m[v][s]]
        /\ meant' = [meant EXCEPT ![v][s] = meant[w][s], ![w][s] = meant[v][s]]
    BY <1>7 DEF Swap
  <2>2. DOMAIN fn_m' = Variables /\ DOMAIN meant' = Variables
    BY <2>1 DEF FnTypeOK
  <2>3. ASSUME NEW u \in Variables
        PROVE  /\ DOMAIN fn_m'[u] = SignaturesOf[u]
               /\ DOMAIN meant'[u] = SignaturesOf[u]
               /\ \A i \in SignaturesOf[u] : Proper(i, fn_m'[u][i], meant'[u][i])
    <3>1. CASE u \notin {v, w}
      BY <2>1, <3>1, ProperEverywhere DEF FnTypeOK
    <3>2. CASE u = v
      <4>1. /\ fn_m'[u] = [fn_m[v] EXCEPT ![s] = fn_m[w][s]]
            /\ meant'[u] = [meant[v] EXCEPT ![s] = meant[w][s]]
        BY <2>1, <3>2 DEF FnTypeOK
      <4>2. ASSUME NEW i \in SignaturesOf[v]
            PROVE  Proper(i, fn_m'[u][i], meant'[u][i])
        <5>1. Proper(i, fn_m[v][i], meant[v][i]) /\ Proper(s, fn_m[w][s], meant[w][s])
          BY <1>7, ProperEverywhere
        <5> QED
          BY <4>1, <5>1 DEF FnTypeOK
      <4> QED
        BY <3>2, <4>1, <4>2 DEF FnTypeOK
    <3>3. CASE u = w
      <4>1. /\ fn_m'[u] = [fn_m[w] EXCEPT ![s] = fn_m[v][s]]
            /\ meant'[u] = [meant[w] EXCEPT ![s] = meant[v][s]]
        BY <2>1, <3>3 DEF FnTypeOK
      <4>2. ASSUME NEW i \in SignaturesOf[w]
            PROVE  Proper(i, fn_m'[u][i], meant'[u][i])
        <5>1. Proper(i, fn_m[w][i], meant[w][i]) /\ Proper(s, fn_m[v][s], meant[v][s])
          BY ProperEverywhere
        <5> QED
          BY <1>7, <4>1, <5>1 DEF FnTypeOK
      <4> QED
        BY <3>3, <4>1, <4>2 DEF FnTypeOK
    <3> QED
      BY <3>1, <3>2, <3>3
  <2>4. exists' = exists /\ object' = object
    BY <2>1
  <2>5. FnTypeOK'
    BY <2>2, <2>3, <2>4 DEF FnTypeOK, Proper, Variants, FunctionPointers, MethodPointers,
         ObjectPointers
  <2>6. AllFit'
    BY <2>3, <2>4 DEF AllFit, Proper, Fits, Alive
  <2> QED
    BY <2>5, <2>6
<1>8. ASSUME NEW v \in Variables, NEW s \in SignaturesOf[v], Call(v, s)
      PROVE  FnInv'
  BY <1>8 DEF Call, FnTypeOK, AllFit, Fits, Alive, Variants, FunctionPointers, MethodPointers,
       ObjectPointers
<1>9. ASSUME NEW a \in Addresses, NEW c \in Classes, CreateObject(a, c)
      PROVE  FnInv'
  <2>1. object' = [object EXCEPT ![a] = c] /\ object[a] = None /\ UNCHANGED refs
    BY <1>9 DEF CreateObject
  <2>2. FnTypeOK'
    BY <2>1 DEF FnTypeOK, refs, Variants, FunctionPointers, MethodPointers, ObjectPointers
  <2>3. \A x, t : Fits(x, t) => Fits(x, t)'
    BY <2>1 DEF Fits, Alive, FnTypeOK
  <2>4. AllFit'
    BY <2>1, <2>3 DEF AllFit, Fits, Alive, refs
  <2> QED
    BY <2>2, <2>4
<1>10. ASSUME NEW a \in Addresses, DestroyObject(a)
       PROVE  FnInv'
  <2>1. /\ object' = [object EXCEPT ![a] = None]
        /\ UNCHANGED <<fn_m, exists>>
        /\ meant' = [v \in Variables |-> [s \in SignaturesOf[v] |->
             IF meant[v][s].is = "Object" /\ meant[v][s].obj_p_m = a THEN Gone ELSE meant[v][s]]]
    BY <1>10 DEF DestroyObject
  <2>2. \A x, t : Fits(x, t) /\ ~(t.is = "Object" /\ t.obj_p_m = a) => Fits(x, t)'
    BY <2>1 DEF Fits, Alive, FnTypeOK
  <2>3. \A v \in Variables : \A s \in SignaturesOf[v] :
          \/ meant'[v][s] = Gone
          \/ /\ meant'[v][s] = meant[v][s]
             /\ ~(meant[v][s].is = "Object" /\ meant[v][s].obj_p_m = a)
    BY <2>1
  <2>4. FnTypeOK'
    BY <2>1, <2>3 DEF FnTypeOK, Variants, FunctionPointers, MethodPointers, ObjectPointers
  <2>5. AllFit'
    BY <2>1, <2>2, <2>3 DEF AllFit, Fits, Alive
  <2> QED
    BY <2>4, <2>5
<1>11. CASE UNCHANGED vars
  BY <1>11 DEF vars, FnTypeOK, AllFit, Fits, Alive, Variants, FunctionPointers, MethodPointers,
       ObjectPointers
<1> QED
  BY <1>1, <1>2, <1>3, <1>4, <1>5, <1>6, <1>7, <1>8, <1>9, <1>10, <1>11 DEF Next

LEMMA InvAlways == FnSpec => []FnInv
BY InvInitially, InvStep, PTL DEF FnSpec

-----------------------------------------------------------------------------
(* Theorems.                                                                *)

\* Each member has its type, and no reference holds a null pointer.
THEOREM FnTypeCorrect == FnSpec => []FnTypeOK
<1>1. FnInv => FnTypeOK
  BY DEF FnInv
<1> QED
  BY <1>1, InvAlways, PTL

LEMMA CallStep ==
  ASSUME FnInv, NEW v \in Variables, NEW s \in SignaturesOf[v], Call(v, s), meant[v][s] # Gone
  PROVE  called' = meant[v][s]
<1>1. Fits(fn_m[v][s], meant[v][s]) /\ called' = Reached(fn_m[v][s])
  BY DEF FnInv, AllFit, Call
<1>2. CASE meant[v][s] = LogicError /\ fn_m[v][s] = Monostate
  BY <1>1, <1>2 DEF Reached, isEmpty, Monostate, Target
<1>3. CASE meant[v][s] = fn_m[v][s] /\ fn_m[v][s].is \in {"FnPtr", "Method", "Object"}
            /\ Alive(fn_m[v][s])
  BY <1>1, <1>3 DEF Reached, isEmpty
<1> QED
  BY <1>1, <1>2, <1>3 DEF Fits

\* A call reaches what its reference was last given, unless that is gone.
THEOREM CallsMeantHolds == FnSpec => CallsMeant
<1>1. FnInv /\ [Next]_vars
      => [\A v \in Variables : \A s \in SignaturesOf[v] :
            Call(v, s) /\ meant[v][s] # Gone => called' = meant[v][s]]_vars
  BY CallStep
<1> QED
  BY <1>1, InvAlways, PTL DEF FnSpec, CallsMeant

\* Equal references with live targets are to one object.
THEOREM EqualIsSameObjectHolds == FnSpec => []EqualIsSameObject
<1>1. ASSUME FnInv, NEW v \in exists, NEW w \in exists,
             NEW s \in SignaturesOf[v] \cap SignaturesOf[w],
             Gone \notin {meant[v][s], meant[w][s]}
      PROVE  /\ meant[v][s] = meant[w][s] => Equal(fn_m[v][s], fn_m[w][s])
             /\ Equal(fn_m[v][s], fn_m[w][s]) =>
                  \/ meant[v][s] = meant[w][s]
                  \/ /\ meant[v][s].is = "Object" /\ meant[w][s].is = "Object"
                     /\ {meant[v][s].fn, meant[w][s].fn} \subseteq PartsOf[object[meant[v][s].obj_p_m]]
                     /\ meant[v][s].obj_p_m = meant[w][s].obj_p_m
  <2>1. v \in Variables /\ w \in Variables
    BY <1>1 DEF FnInv, FnTypeOK
  <2>2. /\ Fits(fn_m[v][s], meant[v][s]) /\ Fits(fn_m[w][s], meant[w][s])
        /\ fn_m[v][s] \in Variants(s) /\ fn_m[w][s] \in Variants(s)
    BY <1>1, <2>1 DEF FnInv, FnTypeOK, AllFit
  <2>3. ASSUME NEW x \in Variants(s), NEW y \in Variants(s), NEW t, NEW u,
               Fits(x, t), Fits(y, u), t # Gone, u # Gone
        PROVE  /\ t = u => Equal(x, y)
               /\ Equal(x, y) => \/ t = u
                                 \/ /\ t.is = "Object" /\ u.is = "Object"
                                    /\ {t.fn, u.fn} \subseteq PartsOf[object[t.obj_p_m]]
                                    /\ t.obj_p_m = u.obj_p_m
    <3>1. x = Target(x.is, x.fn, x.obj_p_m) /\ (x.is # "Object" => x.obj_p_m = None)
      BY DEF Variants, FunctionPointers, MethodPointers, ObjectPointers, Monostate, Target
    <3>2. y = Target(y.is, y.fn, y.obj_p_m) /\ (y.is # "Object" => y.obj_p_m = None)
      BY DEF Variants, FunctionPointers, MethodPointers, ObjectPointers, Monostate, Target
    <3>3. (t = LogicError /\ x = Monostate) \/ (t = x /\ x # Monostate /\ Alive(x))
      BY <2>3 DEF Fits
    <3>4. (u = LogicError /\ y = Monostate) \/ (u = y /\ y # Monostate /\ Alive(y))
      BY <2>3 DEF Fits
    <3>5. t = u => x = y
      BY <2>3, <3>3, <3>4, KindsDiffer DEF Fits
    <3>6. CASE x.is # "Object"
      BY <3>1, <3>2, <3>3, <3>4, <3>5, <3>6 DEF Equal, Target
    <3>7. CASE x.is = "Object"
      <4>1. x # Monostate
        BY <3>7 DEF Monostate, Target
      <4>2. ASSUME Equal(x, y)
            PROVE  y.is = "Object" /\ y # Monostate /\ y.obj_p_m = x.obj_p_m
        BY <3>7, <4>2 DEF Equal, Monostate, Target
      <4> QED
        BY <3>3, <3>4, <3>5, <3>7, <4>1, <4>2 DEF Equal, Alive
    <3> QED
      BY <3>6, <3>7
  <2> DEFINE x == fn_m[v][s]
             y == fn_m[w][s]
             t == meant[v][s]
             u == meant[w][s]
  <2>4. /\ x \in Variants(s) /\ y \in Variants(s)
        /\ Fits(x, t) /\ Fits(y, u) /\ t # Gone /\ u # Gone
    BY <1>1, <2>2
  <2> HIDE DEF x, y, t, u
  <2>5. /\ t = u => Equal(x, y)
        /\ Equal(x, y) => \/ t = u
                          \/ /\ t.is = "Object" /\ u.is = "Object"
                             /\ {t.fn, u.fn} \subseteq PartsOf[object[t.obj_p_m]]
                             /\ t.obj_p_m = u.obj_p_m
    BY <2>3, <2>4
  <2> QED
    BY <2>5 DEF x, y, t, u
<1>2. FnInv => EqualIsSameObject
  BY <1>1 DEF EqualIsSameObject
<1> QED
  BY <1>2, InvAlways, PTL
=============================================================================
