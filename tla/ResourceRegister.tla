-------------------------- MODULE ResourceRegister --------------------------
(***************************************************************************)
(* What getDefaultMemoryResource and setDefaultMemoryResource promise to   *)
(* threads: one register that holds a memory resource, read or exchanged   *)
(* at one instant of each call.                                            *)
(***************************************************************************)
CONSTANTS
  Threads,
  Resources,  \* memory resources
  Mallocator, \* what the register is initialised with
  NewDelete,  \* std::pmr::new_delete_resource()
  None        \* no resource: the empty MemoryResourcePtr

VARIABLES
  value,      \* the resource in the register
  initialised,\* it has got its first value
  call        \* the call each thread is in

Idle == [phase |-> "idle", resource |-> None]
Getting == [phase |-> "get", resource |-> None]
Setting(r) == [phase |-> "set", resource |-> r]
Done(r) == [phase |-> "done", resource |-> r]

\* The empty pointer stands for the resource of operator new.
Meant(r) == IF r = None THEN NewDelete ELSE r

Init ==
  /\ value = None
  /\ initialised = FALSE
  /\ call = [t \in Threads |-> Idle]

\* The register gets its first value, once; what was set before that is lost.
Initialise ==
  /\ ~initialised
  /\ initialised' = TRUE
  /\ value' = Mallocator
  /\ UNCHANGED call

Call(t) ==
  /\ call[t] = Idle
  /\ \E request \in {Getting} \cup {Setting(r) : r \in Resources \cup {None}} :
       call' = [call EXCEPT ![t] = request]
  /\ UNCHANGED <<value, initialised>>

Read(t) ==
  /\ call[t].phase = "get"
  /\ call' = [call EXCEPT ![t] = Done(value)]
  /\ UNCHANGED <<value, initialised>>

Exchange(t) ==
  /\ call[t].phase = "set"
  /\ value' = Meant(call[t].resource)
  /\ call' = [call EXCEPT ![t] = Done(value)]
  /\ UNCHANGED initialised

Return(t) ==
  /\ call[t].phase = "done"
  /\ call' = [call EXCEPT ![t] = Idle]
  /\ UNCHANGED <<value, initialised>>

Next ==
  \/ Initialise
  \/ \E t \in Threads : Call(t) \/ Read(t) \/ Exchange(t) \/ Return(t)

Spec == Init /\ [][Next]_<<value, initialised, call>>

=============================================================================
