---------------------------- MODULE ValueHolder ----------------------------
(***************************************************************************)
(* What a Polymorphic promises its user: a set of variables, each of which *)
(* is out of its lifetime, empty, or holds one value of one type.  Copying *)
(* duplicates a value, moving transfers it and leaves the source empty,    *)
(* and nothing a variable does is ever visible in another one.             *)
(***************************************************************************)

CONSTANTS
  Slots,    \* the variables of a Polymorphic type
  Types,    \* the types whose objects they hold
  Values,   \* the values of an object
  None      \* "no type", "no value"

VARIABLE hold

Full  == [kind : {"full"}, type : Types, val : Values]
Unborn == [kind |-> "absent", type |-> None, val |-> None]
Void  == [kind |-> "empty", type |-> None, val |-> None]

TypeOK == hold \in [Slots -> Full \cup {Unborn, Void}]

Born(s) == hold[s] # Unborn

Init == hold = [s \in Slots |-> Unborn]

\* A default constructed variable is empty.
Create(s) ==
  /\ ~Born(s)
  /\ hold' = [hold EXCEPT ![s] = Void]

\* A value given by the client: converting constructor, assignment, emplace.
Put(s, x) == hold' = [hold EXCEPT ![s] = x]

\* Copy construction (s not born) and copy assignment (s born).
Copy(s, r) ==
  /\ hold[r] \in Full
  /\ hold' = [hold EXCEPT ![s] = hold[r]]

\* Move construction and move assignment.
Move(s, r) ==
  /\ s # r
  /\ Born(r)
  /\ hold' = [hold EXCEPT ![s] = hold[r], ![r] = Void]

\* A call through the function table changes the value held.
Mutate(s, v) ==
  /\ hold[s] \in Full
  /\ hold' = [hold EXCEPT ![s].val = v]

Clear(s) ==
  /\ Born(s)
  /\ hold' = [hold EXCEPT ![s] = Void]

Drop(s) ==
  /\ Born(s)
  /\ hold' = [hold EXCEPT ![s] = Unborn]

Next ==
  \E s \in Slots :
    \/ Create(s)
    \/ \E x \in Full : Put(s, x)
    \/ \E r \in Slots : Copy(s, r)
    \/ \E r \in Slots : Move(s, r)
    \/ \E v \in Values : Mutate(s, v)
    \/ Clear(s)
    \/ Drop(s)

Spec == Init /\ [][Next]_hold

=============================================================================
