--------------------------- MODULE MCFunctionRef ---------------------------
(***************************************************************************)
(* FunctionRef on a small instance: an OverloadSetRef of two signatures,   *)
(* another of its class and a FunctionRef of the first signature, over     *)
(* storage for two objects of two classes, one of them the first part of   *)
(* the other.                                                              *)
(***************************************************************************)
EXTENDS FunctionRef, TLC

CONSTANTS set1, set2, one, plain, taking, f, m, outer, inner, a1, a2

MCVariables == {set1, set2, one}
MCSignaturesOf == (set1 :> {plain, taking}) @@ (set2 :> {plain, taking}) @@ (one :> {plain})
MCFunctions == (plain :> {f}) @@ (taking :> {})
MCMethods == (plain :> {}) @@ (taking :> {m})
MCClasses == {outer, inner}
MCCallable == (plain :> MCClasses) @@ (taking :> {})
MCPartsOf == (outer :> {outer, inner}) @@ (inner :> {inner})
MCAddresses == {a1, a2}

Interchangeable == Permutations({a1, a2}) \cup Permutations({set1, set2})

=============================================================================
