----------------------- MODULE DefaultResourceProofs -----------------------
(***************************************************************************)
(* DefaultResource for any threads and resources: mutual exclusion, no     *)
(* torn pointer, no empty default, and the register it implements.         *)
(*                                                                         *)
(* The invariant says how far the words have got: those a reader has       *)
(* copied agree with the shared ones, those a writer has copied agree with *)
(* what it stores, and with no writer about the shared pointer is whole.   *)
(***************************************************************************)
EXTENDS DefaultResource, TLAPS

Readers(t) ==
  pc[t] = "read" => \A w \in Words \ todo[t] : result[t][w] = default_resource[w]

Writers(t) ==
  pc[t] = "write" =>
    /\ op[t] = "set"
    /\ \A w \in Words \ todo[t] : default_resource[w] = Stored(t)[w]

Busy(t) == todo[t] # {} <=> pc[t] \in {"read", "write"}

Answered(t) == pc[t] \in {"write", "unlock", "idle"} => result[t] \in Pointers

Quiet == \A t \in Threads : pc[t] # "write"

Whole ==
  Quiet => /\ default_resource \in Pointers
           /\ initialised => default_resource # Empty

Early == initialised \/ \A t \in Threads \ {Main} : pc[t] = "idle"

Inv ==
  /\ TypeOK
  /\ \A t \in Threads : Busy(t) /\ Readers(t) /\ Writers(t) /\ Answered(t)
  /\ Whole
  /\ Early

-----------------------------------------------------------------------------

LEMMA PointerFacts ==
  /\ Pointers \subseteq [Words -> Resources \cup {None}]
  /\ Empty \in Pointers
  /\ \A r \in Resources : Ptr(r) \in Pointers /\ Ptr(r) # Empty
  /\ \A p \in Pointers : p # Empty => Data(p) # None
  BY ResourcesAssumption DEF Pointers, Ptr, Empty, Words, Data

LEMMA StoredFacts ==
  ASSUME TypeOK, NEW t \in Threads
  PROVE  /\ Stored(t) \in Pointers
         /\ Stored(t) # Empty
         /\ Stored(t) \in [Words -> Resources \cup {None}]
  <1>1. mem_resource[t] \in Pointers
    BY DEF TypeOK
  <1>2. CASE isEmpty(mem_resource[t])
    BY <1>2, PointerFacts, ResourcesAssumption DEF Stored
  <1>3. CASE ~isEmpty(mem_resource[t])
    <2>1. mem_resource[t] # Empty
      BY <1>3 DEF isEmpty, Empty, Ptr, Words, Data
    <2>. QED BY <1>1, <1>3, <2>1, PointerFacts DEF Stored
  <1>. QED BY <1>2, <1>3

LEMMA InitInv == Init => Inv
  <1> SUFFICES ASSUME Init PROVE Inv
    OBVIOUS
  <1>1. TypeOK
    <2>1. resource_mutex = None /\ \A t \in Threads : pc[t] = "idle"
      BY DEF Init
    <2>2. \A t \in Threads : pc[t] \in Critical <=> resource_mutex = t
      BY <2>1, ThreadsAssumption DEF Critical
    <2>3. /\ default_resource \in [Words -> Resources \cup {None}]
          /\ result \in [Threads -> [Words -> Resources \cup {None}]]
          /\ mem_resource \in [Threads -> Pointers]
      BY PointerFacts DEF Init
    <2>4. /\ resource_mutex \in Threads \cup {None}
          /\ initialised \in BOOLEAN
          /\ pc \in [Threads -> {"idle", "lock"} \cup Critical]
          /\ op \in [Threads -> {"get", "set"}]
          /\ todo \in [Threads -> SUBSET Words]
      BY DEF Init
    <2>5. calls \in 0 .. MaxCalls
      BY BoundAssumption DEF Init
    <2>. QED BY <2>2, <2>3, <2>4, <2>5 DEF TypeOK
  <1>2. \A t \in Threads : Busy(t) /\ Readers(t) /\ Writers(t) /\ Answered(t)
    BY PointerFacts DEF Init, Busy, Readers, Writers, Answered
  <1>3. Whole /\ Early
    BY PointerFacts DEF Init, Whole, Early
  <1>. QED BY <1>1, <1>2, <1>3 DEF Inv

LEMMA InitialiseInv == ASSUME Inv, Initialise PROVE Inv'
  <1>1. \A t \in Threads : pc[t] = "idle"
    BY DEF Inv, Early, Initialise
  <1>2. TypeOK'
    BY PointerFacts, ResourcesAssumption DEF Inv, TypeOK, Initialise, local, Ptr
  <1>. QED
    BY <1>1, <1>2, PointerFacts, ResourcesAssumption
       DEF Inv, Initialise, local, Busy, Readers, Writers, Answered, Quiet, Whole, Early

LEMMA BeginInv ==
  ASSUME Inv, NEW t \in Threads, NEW o \in {"get", "set"}, NEW p \in Pointers, Begin(t, o, p)
  PROVE  Inv'
  <1>1. TypeOK'
    BY PointerFacts, BoundAssumption DEF Inv, TypeOK, Begin, shared, Critical
  <1>2. \A s \in Threads : (Busy(s) /\ Readers(s) /\ Writers(s) /\ Answered(s))'
    BY PointerFacts DEF Inv, TypeOK, Begin, shared, Busy, Readers, Writers, Answered, Stored
  <1>3. Whole' /\ Early'
    BY DEF Inv, TypeOK, Begin, shared, Whole, Quiet, Early
  <1>. QED BY <1>1, <1>2, <1>3 DEF Inv

LEMMA LockInv == ASSUME Inv, NEW t \in Threads, Lock(t) PROVE Inv'
  <1>1. TypeOK'
    BY ThreadsAssumption DEF Inv, TypeOK, Lock, Critical
  <1>2. \A s \in Threads : (Busy(s) /\ Readers(s) /\ Writers(s) /\ Answered(s))'
    BY DEF Inv, TypeOK, Lock, Busy, Readers, Writers, Answered, Stored, Words
  <1>3. Whole' /\ Early'
    BY DEF Inv, TypeOK, Lock, Whole, Quiet, Early
  <1>. QED BY <1>1, <1>2, <1>3 DEF Inv

LEMMA UnlockInv == ASSUME Inv, NEW t \in Threads, Unlock(t) PROVE Inv'
  <1>1. TypeOK'
    BY ThreadsAssumption DEF Inv, TypeOK, Unlock, Critical
  <1>2. \A s \in Threads : (Busy(s) /\ Readers(s) /\ Writers(s) /\ Answered(s))'
    BY DEF Inv, TypeOK, Unlock, Busy, Readers, Writers, Answered, Stored
  <1>3. Whole' /\ Early'
    BY DEF Inv, TypeOK, Unlock, Whole, Quiet, Early
  <1>. QED BY <1>1, <1>2, <1>3 DEF Inv

LEMMA ReadInv == ASSUME Inv, NEW t \in Threads, Read(t) PROVE Inv'
  <1> USE DEF Inv
  <1>1. PICK w \in todo[t] :
          /\ result' = [result EXCEPT ![t][w] = default_resource[w]]
          /\ IF op[t] = "set" THEN Copied(t, w, "write", Words) ELSE Copied(t, w, "unlock", {})
    BY DEF Read
  <1>2. /\ pc[t] = "read"
        /\ w \in Words
        /\ UNCHANGED <<shared, op, mem_resource, calls>>
        /\ resource_mutex = t
        /\ \A s \in Threads \ {t} : pc[s] \notin Critical
    BY DEF Read, TypeOK, Critical
  <1>3. Quiet /\ default_resource \in Pointers
    BY <1>2 DEF Quiet, Whole, Critical
  <1>4. /\ result' \in [Threads -> [Words -> Resources \cup {None}]]
        /\ \A v \in Words \ todo[t] : result'[t][v] = default_resource[v]
        /\ result'[t][w] = default_resource[w]
        /\ \A s \in Threads \ {t} : result'[s] = result[s]
    BY <1>1, <1>2 DEF TypeOK, Readers
  <1>5. CASE todo[t] = {w}
    <2>1. result'[t] = default_resource
      BY <1>4, <1>5 DEF TypeOK
    <2>2. /\ pc' = [pc EXCEPT ![t] = IF op[t] = "set" THEN "write" ELSE "unlock"]
          /\ todo' = [todo EXCEPT ![t] = IF op[t] = "set" THEN Words ELSE {}]
      BY <1>1, <1>5 DEF Copied
    <2>3. TypeOK'
      BY <1>2, <1>4, <2>2 DEF TypeOK, shared, Critical
    <2>4. \A s \in Threads : (Busy(s) /\ Readers(s) /\ Writers(s) /\ Answered(s))'
      BY <1>2, <1>3, <1>4, <2>1, <2>2
         DEF TypeOK, shared, Busy, Readers, Writers, Answered, Stored, Words
    <2>5. Whole' /\ Early'
      BY <1>2, <1>3, <2>2 DEF TypeOK, shared, Whole, Quiet, Early
    <2>. QED BY <2>3, <2>4, <2>5
  <1>6. CASE todo[t] # {w}
    <2>1. ASSUME NEW next, NEW left, Copied(t, w, next, left)
          PROVE  pc' = pc /\ todo' = [todo EXCEPT ![t] = @ \ {w}]
      BY <2>1, <1>6 DEF Copied, TypeOK
    <2>2. pc' = pc /\ todo' = [todo EXCEPT ![t] = @ \ {w}] /\ todo[t] \ {w} # {}
      <3>1. CASE op[t] = "set"
        BY <1>1, <1>6, <2>1, <3>1
      <3>2. CASE op[t] # "set"
        BY <1>1, <1>6, <2>1, <3>2
      <3>. QED BY <3>1, <3>2
    <2>3. TypeOK'
      BY <1>2, <1>4, <2>2 DEF TypeOK, shared, Critical
    <2>4. \A s \in Threads : (Busy(s) /\ Readers(s) /\ Writers(s) /\ Answered(s))'
      BY <1>2, <1>3, <1>4, <2>2
         DEF TypeOK, shared, Busy, Readers, Writers, Answered, Stored, Words
    <2>5. Whole' /\ Early'
      BY <1>2, <1>3, <2>2 DEF TypeOK, shared, Whole, Quiet, Early
    <2>. QED BY <2>3, <2>4, <2>5
  <1>. QED BY <1>5, <1>6

LEMMA WriteInv == ASSUME Inv, NEW t \in Threads, Write(t) PROVE Inv'
  <1> USE DEF Inv
  <1>1. PICK w \in todo[t] :
          /\ default_resource' = [default_resource EXCEPT ![w] = Stored(t)[w]]
          /\ Copied(t, w, "unlock", {})
    BY DEF Write
  <1>2. /\ pc[t] = "write"
        /\ op[t] = "set"
        /\ w \in Words
        /\ UNCHANGED <<resource_mutex, initialised, op, mem_resource, result, calls>>
        /\ \A s \in Threads \ {t} : pc[s] \notin Critical
        /\ initialised \/ t = Main
    BY DEF Write, TypeOK, Critical, Early, Writers
  <1>3. Stored(t)' = Stored(t) /\ Stored(t) \in Pointers /\ Stored(t) # Empty
        /\ Stored(t) \in [Words -> Resources \cup {None}]
    BY <1>2, StoredFacts DEF Stored
  <1>4. /\ default_resource' \in [Words -> Resources \cup {None}]
        /\ \A v \in Words \ todo[t] : default_resource'[v] = Stored(t)[v]
        /\ default_resource'[w] = Stored(t)[w]
    BY <1>1, <1>2, <1>3 DEF TypeOK, Writers
  <1>5. CASE todo[t] = {w}
    <2>1. default_resource' = Stored(t)
      BY <1>3, <1>4, <1>5
    <2>2. pc' = [pc EXCEPT ![t] = "unlock"] /\ todo' = [todo EXCEPT ![t] = {}]
      BY <1>1, <1>5 DEF Copied
    <2>3. TypeOK'
      BY <1>2, <1>4, <2>2 DEF TypeOK, Critical
    <2>4. \A s \in Threads : (Busy(s) /\ Readers(s) /\ Writers(s) /\ Answered(s))'
      BY <1>2, <2>2 DEF TypeOK, Busy, Readers, Writers, Answered, Critical
    <2>5. Whole' /\ Early'
      BY <1>2, <1>3, <2>1, <2>2 DEF TypeOK, Whole, Quiet, Early
    <2>. QED BY <2>3, <2>4, <2>5
  <1>6. CASE todo[t] # {w}
    <2>2. pc' = pc /\ todo' = [todo EXCEPT ![t] = @ \ {w}] /\ todo[t] \ {w} # {}
      BY <1>1, <1>6 DEF Copied, TypeOK
    <2>3. TypeOK'
      BY <1>2, <1>4, <2>2 DEF TypeOK, Critical
    <2>4. \A s \in Threads : (Busy(s) /\ Readers(s) /\ Writers(s) /\ Answered(s))'
      BY <1>2, <1>3, <1>4, <2>2 DEF TypeOK, Busy, Readers, Writers, Answered, Critical
    <2>5. Whole' /\ Early'
      BY <1>2, <2>2 DEF TypeOK, Whole, Quiet, Early
    <2>. QED BY <2>3, <2>4, <2>5
  <1>. QED BY <1>5, <1>6

LEMMA StepInv == Inv /\ [Next]_vars => Inv'
  <1>1. ASSUME Inv, UNCHANGED vars PROVE Inv'
    BY <1>1 DEF vars, shared, local, Inv, TypeOK, Critical, Busy, Readers, Writers, Answered,
                Stored, Quiet, Whole, Early
  <1>2. ASSUME Inv, NEW t \in Threads, getDefaultMemoryResource(t) PROVE Inv'
    BY <1>2, BeginInv, PointerFacts DEF getDefaultMemoryResource
  <1>3. ASSUME Inv, NEW t \in Threads, NEW p \in Pointers, setDefaultMemoryResource(t, p)
        PROVE  Inv'
    BY <1>3, BeginInv DEF setDefaultMemoryResource
  <1>. QED
    BY <1>1, <1>2, <1>3, InitialiseInv, LockInv, ReadInv, WriteInv, UnlockInv DEF Next, Step

\* How far the words have got is an invariant, for any number of threads.
THEOREM InvHolds == Spec => []Inv
  BY InitInv, StepInv, PTL DEF Spec

\* The state is well typed and resource_mutex excludes: whoever is in a critical section
\* of getDefaultMemoryResource or setDefaultMemoryResource holds it.
THEOREM TypeCorrect == Spec => []TypeOK
  <1>1. Inv => TypeOK
    BY DEF Inv
  <1>. QED BY <1>1, InvHolds, PTL

\* Word by word copies under the mutex never return words of two resources.
THEOREM NoTornPointerHolds == Spec => []NoTornPointer
  <1>1. Inv => NoTornPointer
    BY DEF Inv, Answered, NoTornPointer
  <1>. QED BY <1>1, InvHolds, PTL

\* After the static initialiser, the default that calls leave behind can be called.
THEOREM NeverEmptyHolds == Spec => []NeverEmpty
  <1>1. Inv => NeverEmpty
    BY ThreadsAssumption DEF Inv, TypeOK, Whole, Quiet, Critical, NeverEmpty
  <1>. QED BY <1>1, InvHolds, PTL

-----------------------------------------------------------------------------
(* The register.                                                            *)

CallsNow == [t \in Threads |-> CallOf(t)]

LEMMA RegisterInit == Init => Register!Init
  <1> SUFFICES ASSUME Init PROVE Register!Init
    OBVIOUS
  <1>1. Value = None
    BY DEF Init, Value, Data, Empty, Ptr, Words
  <1>2. \A t \in Threads : CallOf(t) = Register!Idle
    BY DEF Init, CallOf, Register!Idle
  <1>3. initialised = FALSE
    BY DEF Init
  <1>. QED BY <1>1, <1>2, <1>3 DEF Register!Init

\* A step that leaves the calls of the other threads alone changes one call.
LEMMA OneCall ==
  ASSUME NEW t \in Threads, NEW c, CallOf(t)' = c,
         \A s \in Threads \ {t} : CallOf(s)' = CallOf(s)
  PROVE  [s \in Threads |-> CallOf(s)]' = [[s \in Threads |-> CallOf(s)] EXCEPT ![t] = c]
  OBVIOUS

LEMMA SameCalls ==
  ASSUME \A s \in Threads : CallOf(s)' = CallOf(s)
  PROVE  [s \in Threads |-> CallOf(s)]' = [s \in Threads |-> CallOf(s)]
  OBVIOUS

LEMMA MeantStored ==
  ASSUME TypeOK, NEW t \in Threads
  PROVE  Data(Stored(t)) = Register!Meant(Data(mem_resource[t]))
  BY DEF Stored, isEmpty, Register!Meant, Data, Ptr, Words

LEMMA SimulateInitialise == ASSUME Inv, Initialise PROVE Register!Initialise
  <1>1. resource_mutex # None => pc[resource_mutex] # "write"
    BY DEF Inv, TypeOK, Early, Initialise
  <1>2. Value' = Mallocator
    BY <1>1 DEF Initialise, local, Value, Data, Ptr, Words
  <1>3. \A s \in Threads : CallOf(s)' = CallOf(s)
    BY DEF Initialise, local, CallOf
  <1>4. ~initialised /\ initialised' = TRUE
    BY DEF Initialise
  <1>. QED BY <1>2, <1>3, <1>4, SameCalls DEF Register!Initialise

LEMMA SimulateBegin ==
  ASSUME Inv, NEW t \in Threads, NEW o \in {"get", "set"}, NEW p \in Pointers,
         o = "get" => p = Empty, Begin(t, o, p)
  PROVE  Register!Call(t)
  <1>1. /\ CallOf(t) = Register!Idle
        /\ CallOf(t)' = [phase |-> o, resource |-> Data(p)]
        /\ \A s \in Threads \ {t} : CallOf(s)' = CallOf(s)
    BY DEF Inv, TypeOK, Begin, CallOf, Register!Idle
  <1>2. Value' = Value
    BY DEF Inv, TypeOK, Begin, shared, Value, Stored
  <1>3. Data(p) \in Resources \cup {None}
    BY DEF Pointers, Ptr, Data, Words
  <1>4. [phase |-> o, resource |-> Data(p)]
          \in {Register!Getting} \cup {Register!Setting(r) : r \in Resources \cup {None}}
    BY <1>3 DEF Register!Getting, Register!Setting, Empty, Ptr, Data, Words
  <1>5. initialised' = initialised
    BY DEF Begin, shared
  <1>. QED BY <1>1, <1>2, <1>4, <1>5, OneCall DEF Register!Call

LEMMA SimulateLock ==
  ASSUME Inv, NEW t \in Threads, Lock(t)
  PROVE  Value' = Value /\ initialised' = initialised /\ CallsNow' = CallsNow
  <1>1. \A s \in Threads : CallOf(s)' = CallOf(s)
    BY DEF Inv, TypeOK, Lock, CallOf
  <1>2. Value' = Value /\ initialised' = initialised
    BY ThreadsAssumption DEF Inv, TypeOK, Lock, Value, Data
  <1>. QED BY <1>1, <1>2, SameCalls DEF CallsNow

LEMMA SimulateUnlock == ASSUME Inv, NEW t \in Threads, Unlock(t) PROVE Register!Return(t)
  <1>1. /\ CallOf(t) = [phase |-> "done", resource |-> Data(result[t])]
        /\ CallOf(t)' = Register!Idle
        /\ \A s \in Threads \ {t} : CallOf(s)' = CallOf(s)
    BY DEF Inv, TypeOK, Unlock, CallOf, Register!Idle
  <1>2. Value' = Value /\ initialised' = initialised
    BY DEF Inv, TypeOK, Unlock, Value, Critical, Data
  <1>. QED BY <1>1, <1>2, OneCall DEF Register!Return

LEMMA SimulateRead ==
  ASSUME Inv, Inv', NEW t \in Threads, Read(t)
  PROVE  Register!Read(t) \/ Register!Exchange(t) \/ (Value' = Value /\ initialised' = initialised /\ CallsNow' = CallsNow)
  <1>1. /\ pc[t] = "read"
        /\ resource_mutex = t
        /\ UNCHANGED <<shared, op, mem_resource, calls>>
        /\ \A s \in Threads \ {t} : pc'[s] = pc[s] /\ result'[s] = result[s]
        /\ pc'[t] \in {"read", "write", "unlock"}
        /\ pc'[t] = "write" => op[t] = "set"
        /\ pc'[t] = "unlock" => op[t] = "get"
    BY DEF Inv, TypeOK, Read, Copied, Critical
  <1>2. /\ Value = Data(default_resource)
        /\ initialised' = initialised
        /\ CallOf(t) = [phase |-> op[t], resource |-> Data(mem_resource[t])]
        /\ \A s \in Threads \ {t} : CallOf(s)' = CallOf(s)
    BY <1>1 DEF Value, CallOf, shared
  <1>3. CASE pc'[t] = "read"
    <2>1. Value' = Value
      BY <1>1, <1>2, <1>3 DEF Value, shared, Data
    <2>2. CallOf(t)' = CallOf(t)
      BY <1>1, <1>3 DEF CallOf
    <2>. QED BY <1>2, <2>1, <2>2, SameCalls DEF CallsNow
  <1>4. ASSUME pc'[t] # "read"
        PROVE  CallOf(t)' = [phase |-> "done", resource |-> Value]
    <2>1. PICK w \in todo[t] :
            /\ result' = [result EXCEPT ![t][w] = default_resource[w]]
            /\ IF op[t] = "set" THEN Copied(t, w, "write", Words) ELSE Copied(t, w, "unlock", {})
      BY DEF Read
    <2>2. todo[t] = {w}
      BY <1>1, <1>4, <2>1 DEF Copied, Inv, TypeOK
    <2>3. \A v \in Words : result'[t][v] = default_resource[v]
      BY <1>1, <2>1, <2>2 DEF Inv, TypeOK, Readers
    <2>4. Data(result[t])' = Data(default_resource)
      BY <2>3 DEF Data, Words
    <2>. QED BY <1>1, <1>2, <1>4, <2>4 DEF CallOf, Data
  <1>5. CASE pc'[t] = "unlock"
    <2>1. Value' = Value
      BY <1>1, <1>2, <1>5 DEF Value, shared, Data
    <2>. QED BY <1>1, <1>2, <1>4, <1>5, <2>1, OneCall DEF Register!Read, Register!Done
  <1>6. CASE pc'[t] = "write"
    <2>1. Stored(t)' = Stored(t)
      BY <1>1 DEF Stored
    <2>2. Value' = Data(Stored(t))
      BY <1>1, <1>6, <2>1, ThreadsAssumption DEF Value, shared, Data
    <2>3. Value' = Register!Meant(Data(mem_resource[t]))
      BY <2>2, MeantStored DEF Inv
    <2>. QED BY <1>1, <1>2, <1>4, <1>6, <2>3, OneCall DEF Register!Exchange, Register!Done
  <1>. QED BY <1>1, <1>3, <1>5, <1>6

LEMMA SimulateWrite ==
  ASSUME Inv, Inv', NEW t \in Threads, Write(t)
  PROVE  Value' = Value /\ initialised' = initialised /\ CallsNow' = CallsNow
  <1>1. PICK w \in todo[t] :
          /\ default_resource' = [default_resource EXCEPT ![w] = Stored(t)[w]]
          /\ Copied(t, w, "unlock", {})
    BY DEF Write
  <1>2. /\ pc[t] = "write"
        /\ resource_mutex = t
        /\ UNCHANGED <<resource_mutex, initialised, op, mem_resource, result, calls>>
        /\ \A s \in Threads \ {t} : pc'[s] = pc[s]
        /\ pc'[t] \in {"write", "unlock"}
        /\ pc'[t] = "unlock" => todo[t] = {w}
    BY <1>1 DEF Inv, TypeOK, Write, Copied, Critical
  <1>3. \A s \in Threads : CallOf(s)' = CallOf(s)
    BY <1>2 DEF CallOf
  <1>4. Value = Data(Stored(t)) /\ Stored(t)' = Stored(t)
    BY <1>2, ThreadsAssumption DEF Value, Stored
  <1>5. ASSUME pc'[t] = "write" PROVE Value' = Value
    BY <1>2, <1>4, <1>5, ThreadsAssumption DEF Value, Data
  <1>6. ASSUME pc'[t] = "unlock" PROVE Value' = Value
    <2>1. \A v \in Words : default_resource'[v] = Stored(t)[v]
      BY <1>1, <1>2, <1>6 DEF Inv, TypeOK, Writers
    <2>2. Value' = Data(Stored(t))
      BY <1>2, <1>6, <2>1 DEF Value, Data, Words
    <2>. QED BY <1>4, <2>2
  <1>7. Value' = Value /\ initialised' = initialised
    BY <1>2, <1>5, <1>6
  <1>. QED BY <1>3, <1>7, SameCalls DEF CallsNow

LEMMA RegisterStep ==
  Inv /\ Inv' /\ [Next]_vars => [Register!Next]_<<Value, initialised, CallsNow>>
  <1> SUFFICES ASSUME Inv, Inv', [Next]_vars
               PROVE  Register!Next \/ (Value' = Value /\ initialised' = initialised /\ CallsNow' = CallsNow)
    OBVIOUS
  <1>1. CASE UNCHANGED vars
    <2>1. Value' = Value /\ initialised' = initialised
      BY <1>1 DEF vars, shared, local, Value, Stored
    <2>2. \A s \in Threads : CallOf(s)' = CallOf(s)
      BY <1>1 DEF vars, shared, local, CallOf
    <2>. QED BY <2>1, <2>2, SameCalls DEF CallsNow
  <1>2. CASE Initialise
    BY <1>2, SimulateInitialise DEF Register!Next
  <1>3. ASSUME NEW t \in Threads, getDefaultMemoryResource(t) PROVE Register!Call(t)
    BY <1>3, SimulateBegin, PointerFacts DEF getDefaultMemoryResource
  <1>4. ASSUME NEW t \in Threads, NEW p \in Pointers, setDefaultMemoryResource(t, p)
        PROVE  Register!Call(t)
    BY <1>4, SimulateBegin DEF setDefaultMemoryResource
  <1>. QED
    BY <1>1, <1>2, <1>3, <1>4, SimulateLock, SimulateRead, SimulateWrite, SimulateUnlock
       DEF Next, Step, Register!Next

\* getDefaultMemoryResource and setDefaultMemoryResource implement an atomic register, for
\* any number of threads: every step of a call is a step of the register or none.
THEOREM ImplementsRegisterHolds == Spec => ImplementsRegister
  <1>1. Init => Register!Init
    BY RegisterInit
  <1>2. Inv /\ Inv' /\ [Next]_vars => [Register!Next]_<<Value, initialised, CallsNow>>
    BY RegisterStep
  <1>. QED BY <1>1, <1>2, InvHolds, PTL DEF Spec, ImplementsRegister, Register!Spec, CallsNow

=============================================================================
