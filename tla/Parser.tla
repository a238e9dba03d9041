------------------------------- MODULE Parser -------------------------------
(***************************************************************************)
(* parse: reads a JSON value into a C++ value in place.  Parse gives what  *)
(* the C++ value has become when parse returns or throws, and the          *)
(* exception.  The machine is a client that reads one document after       *)
(* another into the same target.                                           *)
(*                                                                         *)
(* A JSON value is a record that says in "is" what it is.  A number is     *)
(* counted in halves, so that some are whole and some are not; an object   *)
(* has names and, at the same positions, values.                           *)
(* A type is a record that says in "is" what it is and in "parts" the      *)
(* types it is made of: one of a container, one for each element of a      *)
(* tuple.  What is defined for every type is a function of types that      *)
(* follows the nesting of their parts.                                     *)
(***************************************************************************)
EXTENDS Integers, ParsingErrors, SequencesExt

CONSTANTS
  Types,      \* C++ types; the types of their parts are among them
  Nesting,    \* how deep each of them is nested
  Json,       \* JSON values; what they consist of is among them
  Shapes,     \* the types of targets
  Documents,  \* Documents[s]: the documents a target of type s is given
  NoDocument

Containers == {"vector", "array", "map", "multimap", "optional"}

Tuples == {"tuple", "tuplemap"}

\* std::basic_string and std::filesystem::path.
TextTypes == {"string", "path"}

ASSUME TypesAssumption ==
  \A s \in Types :
    /\ s.is \in {"integral", "floating"} \cup TextTypes \cup Containers \cup Tuples
    /\ s.parts \in Seq(Types)
    /\ s.is \in Containers => Len(s.parts) = 1
    /\ s.is = "integral" => s.range \subseteq Int /\ 0 \in s.range
    /\ s.is = "array" => s.size \in Nat
    /\ s.is = "tuplemap" => s.names \in Seq(STRING) /\ Len(s.names) = Len(s.parts)

ASSUME NestingAssumption ==
  /\ Nesting \in [Types -> Nat]
  /\ \A s \in Types : \A i \in DOMAIN s.parts : Nesting[s.parts[i]] < Nesting[s]

ASSUME JsonAssumption ==
  \A json \in Json :
    /\ json.is = "number" => json.halves \in Int
    /\ json.is = "string" => json.string \in STRING
    /\ json.is = "array" => json.values \in Seq(Json)
    /\ json.is = "object" => /\ json.values \in Seq(Json)
                             /\ json.names \in Seq(STRING)
                             /\ Len(json.names) = Len(json.values)

ASSUME DocumentsAssumption ==
  Shapes \subseteq Types /\ Documents \in [Shapes -> SUBSET Json]

\* It is; the provers do not know.
ASSUME StringAssumption == "" \in STRING

VARIABLES shape, target, last, caught

vars == <<shape, target, last, caught>>

\* The name of a tag whose JsonName holds a null pointer.
Unnamed == "unnamed"

-----------------------------------------------------------------------------
(* C++ values: a number, a text, or what has parts; those of a map have     *)
(* keys, in the order in which they were emplaced.                          *)

Number(n) == [number |-> n, text |-> "", keys |-> <<>>, parts |-> <<>>]
Text(t) == [number |-> 0, text |-> t, keys |-> <<>>, parts |-> <<>>]
Map(keys, parts) == [number |-> 0, text |-> "", keys |-> keys, parts |-> parts]
Whole(parts) == Map(<<>>, parts)

Numbers(S) == [number : S, text : {""}, keys : {<<>>}, parts : {<<>>}]
Texts == [number : {0}, text : STRING, keys : {<<>>}, parts : {<<>>}]
Maps(V) == [number : {0}, text : {""}, keys : Seq(STRING), parts : Seq(V)]
Wholes(P) == [number : {0}, text : {""}, keys : {<<>>}, parts : P]

AnyOf(sets) ==
  LET any[i \in 1..(Len(sets) + 1)] ==
        IF i = Len(sets) + 1 THEN {} ELSE sets[i] \cup any[i + 1]
  IN any[1]

\* The values of type s, given the values of its parts.
ValuesOf(s, of) ==
  CASE s.is = "integral" -> Numbers(s.range)
    [] s.is = "floating" -> Numbers(Int)
    [] s.is \in TextTypes -> Texts
    [] s.is = "vector" -> Wholes(Seq(of[1]))
    [] s.is = "array" -> Wholes([1..s.size -> of[1]])
    [] s.is = "optional" -> Wholes({p \in Seq(of[1]) : Len(p) <= 1})
    [] s.is = "map" -> {m \in Maps(of[1]) : /\ Len(m.keys) = Len(m.parts)
                                            /\ IsInjective(m.keys)}
    [] s.is = "multimap" -> {m \in Maps(of[1]) : Len(m.keys) = Len(m.parts)}
    [] s.is \in Tuples ->
         Wholes({p \in [DOMAIN of -> AnyOf(of)] : \A i \in DOMAIN of : p[i] \in of[i]})

Value[s \in Types] == ValuesOf(s, [i \in DOMAIN s.parts |-> Value[s.parts[i]]])

\* What value initialisation makes.
DefaultOf(s, of) ==
  CASE s.is \in {"integral", "floating"} -> Number(0)
    [] s.is \in TextTypes -> Text("")
    [] s.is \in {"vector", "map", "multimap", "optional"} -> Whole(<<>>)
    [] s.is = "array" -> Whole([i \in 1..s.size |-> of[1]])
    [] s.is \in Tuples -> Whole(of)

Default[s \in Types] == DefaultOf(s, [i \in DOMAIN s.parts |-> Default[s.parts[i]]])

Result(value, error) == [value |-> value, error |-> error]

\* Nothing is written before the kind of the JSON value is checked.
Mismatch(old) == Result(old, "TypeMismatch")

-----------------------------------------------------------------------------
(* Leaves.                                                                  *)

IsWhole(json) == json.is = "number" /\ json.halves % 2 = 0

ParseIntegral(json, s, old) ==
  IF IsWhole(json) /\ json.halves \div 2 \in s.range
  THEN Result(Number(json.halves \div 2), NoError)
  ELSE Mismatch(old)

ParseFloating(json, old) ==
  IF json.is = "number" THEN Result(Number(json.halves), NoError) ELSE Mismatch(old)

ParseString(json, old) ==
  IF json.is = "string" THEN Result(Text(json.string), NoError) ELSE Mismatch(old)

-----------------------------------------------------------------------------
(* Sequences of values read in order, until one throws.  A function that    *)
(* parses a part maps a JSON value and the old value to a result.           *)

Failing(results) == {i \in DOMAIN results : results[i].error # NoError}

\* How many are read to their end before one throws.
Completed(results) == IF Failing(results) = {} THEN Len(results) ELSE Min(Failing(results)) - 1

FirstError(results) ==
  IF Failing(results) = {} THEN NoError ELSE results[Min(Failing(results))].error

\* Slip: a failure does not keep the later ones from being read.
InOrderToTheEnd(results, old) ==
  Result(Whole([i \in DOMAIN old |-> results[i].value]), FirstError(results))

\* The one that throws is what its failure has made of it.
InOrder(results, old) ==
  Result(Whole([i \in DOMAIN old |-> IF i <= Completed(results) + 1 THEN results[i].value
                                     ELSE old[i]]),
         FirstError(results))

Rewrap(result) == Result(result.value, Rewrapped(result.error))

ReadElements(values, parsers, old) ==
  InOrder([i \in DOMAIN old |-> Rewrap(parsers[i][values[i]][old[i]])], old)

\* Slip: the vector is resized and not cleared, so elements start from the old ones.
ParseVectorResized(json, s, old, parse) ==
  IF json.is # "array" THEN Mismatch(old)
  ELSE ReadElements(json.values, [i \in DOMAIN json.values |-> parse],
                    [i \in DOMAIN json.values |-> IF i \in DOMAIN old.parts THEN old.parts[i]
                                                  ELSE Default[s.parts[1]]])

ParseVector(json, s, old, parse) ==
  IF json.is # "array" THEN Mismatch(old)
  ELSE ReadElements(json.values, [i \in DOMAIN json.values |-> parse],
                    [i \in DOMAIN json.values |-> Default[s.parts[1]]])

\* std::array.
ParseArray(json, s, old, parse) ==
  IF json.is # "array" THEN Mismatch(old)
  ELSE IF Len(json.values) # s.size THEN Result(old, "ArraySizeMismatch")
  ELSE ReadElements(json.values, [i \in 1..s.size |-> parse], old.parts)

\* deserializeTupleImpl, for Tuple and std::tuple.
ParseTuple(json, s, old, parsers) ==
  IF json.is # "array" THEN Mismatch(old)
  ELSE IF Len(json.values) # Len(s.parts) THEN Result(old, "ArraySizeMismatch")
  ELSE ReadElements(json.values, parsers, old.parts)

-----------------------------------------------------------------------------
(* Objects.                                                                 *)

\* Slip: as operator[] would do.
EmplaceLast(map, key, value, s) ==
  IF s.is = "map" /\ key \in Range(map.keys)
  THEN Map(map.keys, [i \in DOMAIN map.keys |-> IF map.keys[i] = key THEN value ELSE map.parts[i]])
  ELSE Map(Append(map.keys, key), Append(map.parts, value))

\* emplace into a map leaves an entry of the same key alone.
Emplace(map, key, value, s) ==
  IF s.is = "map" /\ key \in Range(map.keys) THEN map
  ELSE Map(Append(map.keys, key), Append(map.parts, value))

\* deserializeMapImpl, for the four map types, with string keys.
ParseMap(json, s, old, parse) ==
  IF json.is # "object" THEN Mismatch(old)
  ELSE LET results == [i \in DOMAIN json.values |->
                         Rewrap(parse[json.values[i]][Default[s.parts[1]]])]
           emplaced[i \in 1..(Len(results) + 1)] ==
             IF i = 1 THEN Map(<<>>, <<>>)
             ELSE Emplace(emplaced[i - 1], json.names[i - 1], results[i - 1].value, s)
       IN Result(emplaced[Completed(results) + 1], FirstError(results))

\* FindMember: the first of the name.
Found(json, name) == json.values[Min({i \in DOMAIN json.names : json.names[i] = name})]

\* is_optional_v or is_pointer_v: nullopt or a null pointer converts to the type.
\* A null pointer converts to a string, by way of a pointer to characters, and not
\* to a path; to a tuple of one element converts what converts to the element.
ConvertsFromNull(s, of) ==
  \/ s.is \in {"optional", "string"}
  \/ s.is = "tuple" /\ Len(s.parts) = 1 /\ of[1]

MayBeLeftOut[s \in Types] ==
  ConvertsFromNull(s, [i \in DOMAIN s.parts |-> MayBeLeftOut[s.parts[i]]])

\* A member that is not in the document and may be left out stays what it was.
ReadField(json, name, part, old, parse) ==
  IF name = Unnamed THEN Result(old, "runtime_error")
  ELSE IF name \in Range(json.names) THEN Rewrap(parse[Found(json, name)][old])
  ELSE IF MayBeLeftOut[part] THEN Result(old, NoError)
  ELSE Result(old, "ObjectMemberMissing")

ParseTupleMap(json, s, old, parsers) ==
  IF json.is # "object" THEN Mismatch(old)
  ELSE InOrder([i \in DOMAIN s.parts |->
                  ReadField(json, s.names[i], s.parts[i], old.parts[i], parsers[i])],
               old.parts)

\* An empty optional is emplaced first, and stays so when its value throws.
ParseOptional(json, s, old, parse) ==
  IF json.is = "null" THEN Result(Whole(<<>>), NoError)
  ELSE LET r == parse[json][IF old.parts = <<>> THEN Default[s.parts[1]] ELSE old.parts[1]]
       IN Result(Whole(<<r.value>>), r.error)

ParseOf(s, of) ==
  [json \in Json |-> [old \in Value[s] |->
     CASE s.is = "integral" -> ParseIntegral(json, s, old)
       [] s.is = "floating" -> ParseFloating(json, old)
       [] s.is \in TextTypes -> ParseString(json, old)
       [] s.is = "vector" -> ParseVector(json, s, old, of[1])
       [] s.is = "array" -> ParseArray(json, s, old, of[1])
       [] s.is = "tuple" -> ParseTuple(json, s, old, of)
       [] s.is \in {"map", "multimap"} -> ParseMap(json, s, old, of[1])
       [] s.is = "optional" -> ParseOptional(json, s, old, of[1])
       [] s.is = "tuplemap" -> ParseTupleMap(json, s, old, of)]]

Parse[s \in Types] == ParseOf(s, [i \in DOMAIN s.parts |-> Parse[s.parts[i]]])

-----------------------------------------------------------------------------
Init ==
  /\ shape \in Shapes
  /\ target = Default[shape]
  /\ last = NoDocument
  /\ caught = NoError

Read(document) ==
  LET r == Parse[shape][document][target]
  IN /\ target' = r.value
     /\ caught' = r.error
     /\ last' = document
     /\ UNCHANGED shape

Next == \E document \in Documents[shape] : Read(document)

Spec == Init /\ [][Next]_vars

-----------------------------------------------------------------------------
(* Properties.                                                              *)

\* Type invariant: whatever documents are read and wherever they fail, the
\* target is a value of its type: arrays keep their size, integers their range.
ParserTypeOK ==
  /\ shape \in Shapes
  /\ target \in Value[shape]
  /\ last \in Documents[shape] \cup {NoDocument}
  /\ caught \in Outcomes

\* What it means that a value is what a JSON value says.
Says(json, s, v, of) ==
  CASE s.is = "integral" -> json.is = "number" /\ json.halves = 2 * v.number
    [] s.is = "floating" -> json.is = "number" /\ json.halves = v.number
    [] s.is \in TextTypes -> json.is = "string" /\ json.string = v.text
    [] s.is \in {"vector", "array", "tuple"} ->
         /\ json.is = "array"
         /\ Len(v.parts) = Len(json.values)
         /\ \A i \in DOMAIN v.parts :
              v.parts[i] \in of[IF s.is = "tuple" THEN i ELSE 1][json.values[i]]
    [] s.is = "map" ->
         /\ json.is = "object"
         /\ Range(v.keys) = Range(json.names)
         /\ \A i \in DOMAIN v.keys : v.parts[i] \in of[1][Found(json, v.keys[i])]
    [] s.is = "multimap" ->
         /\ json.is = "object"
         /\ v.keys = json.names
         /\ \A i \in DOMAIN v.keys : v.parts[i] \in of[1][json.values[i]]
    [] s.is = "optional" ->
         IF json.is = "null" THEN v.parts = <<>>
         ELSE Len(v.parts) = 1 /\ v.parts[1] \in of[1][json]
    [] s.is = "tuplemap" ->
         /\ json.is = "object"
         /\ \A i \in DOMAIN s.parts :
              IF s.names[i] \in Range(json.names)
              THEN v.parts[i] \in of[i][Found(json, s.names[i])]
              ELSE MayBeLeftOut[s.parts[i]]

MeantOf(s, of) == [json \in Json |-> {v \in Value[s] : Says(json, s, v, of)}]

\* The values of a type that are what a JSON value says.
Meant[s \in Types] == MeantOf(s, [i \in DOMAIN s.parts |-> Meant[s.parts[i]]])

\* A parse that returns has read all of the document: every container has the
\* elements of the JSON array or the keys of the JSON object and no others, and
\* of a name given twice a map and a TupleMap have the first.  What a TupleMap has
\* and the document does not give is of a type that may be left out.
SuccessSaysDocument ==
  last # NoDocument /\ caught = NoError => target \in Meant[shape][last]

LeavesNothingOut(json, s, of) ==
  /\ s.is = "optional" /\ json.is # "null" => of[1][json]
  /\ s.is \in {"vector", "array"} /\ json.is = "array" =>
       \A i \in DOMAIN json.values : of[1][json.values[i]]
  /\ s.is \in {"map", "multimap"} /\ json.is = "object" =>
       \A i \in DOMAIN json.values : of[1][json.values[i]]
  /\ s.is = "tuple" /\ json.is = "array" =>
       \A i \in DOMAIN json.values \cap DOMAIN s.parts : of[i][json.values[i]]
  /\ s.is = "tuplemap" /\ json.is = "object" =>
       \A i \in DOMAIN s.parts : /\ s.names[i] \in Range(json.names)
                                 /\ of[i][Found(json, s.names[i])]

CompleteOf(s, of) == [json \in Json |-> LeavesNothingOut(json, s, of)]

\* Whether a document leaves out no member of a TupleMap.
Complete[s \in Types] == CompleteOf(s, [i \in DOMAIN s.parts |-> Complete[s.parts[i]]])

\* Reloading: once a complete document has been read, nothing is left of what
\* the target was before, be it an earlier document or the remains of one that
\* failed half way.  Only what the document leaves out of a TupleMap can be stale,
\* optional members and strings too, never an element of a container that is
\* refilled.
NothingStale ==
  last # NoDocument /\ caught = NoError =>
    LET refilled == {"vector", "map", "multimap"}
        fresh == Parse[shape][last][Default[shape]].value
    IN /\ Complete[shape][last] => target = fresh
       /\ shape.is = "tuplemap" =>
            \A i \in DOMAIN shape.parts :
              /\ shape.parts[i].is \in refilled
              /\ shape.names[i] \in Range(last.names)
              => target.parts[i] = fresh.parts[i]

FaultsIn(json, s, of) ==
  LET Unless(right) == IF right THEN <<>> ELSE <<"TypeMismatch">>
      InValues == FlattenSeq([i \in DOMAIN json.values |-> of[1][json.values[i]]])
  IN CASE s.is = "integral" -> Unless(IsWhole(json) /\ \E n \in s.range : json.halves = 2 * n)
       [] s.is = "floating" -> Unless(json.is = "number")
       [] s.is \in TextTypes -> Unless(json.is = "string")
       [] s.is = "vector" -> IF json.is = "array" THEN InValues ELSE <<"TypeMismatch">>
       [] s.is = "array" ->
            IF json.is # "array" THEN <<"TypeMismatch">>
            ELSE IF Len(json.values) # s.size THEN <<"ArraySizeMismatch">> ELSE InValues
       [] s.is = "tuple" ->
            IF json.is # "array" THEN <<"TypeMismatch">>
            ELSE IF Len(json.values) # Len(s.parts) THEN <<"ArraySizeMismatch">>
            ELSE FlattenSeq([i \in DOMAIN s.parts |-> of[i][json.values[i]]])
       [] s.is \in {"map", "multimap"} ->
            IF json.is = "object" THEN InValues ELSE <<"TypeMismatch">>
       [] s.is = "optional" -> IF json.is = "null" THEN <<>> ELSE of[1][json]
       [] s.is = "tuplemap" ->
            IF json.is # "object" THEN <<"TypeMismatch">>
            ELSE FlattenSeq([i \in DOMAIN s.parts |->
                   IF s.names[i] = Unnamed THEN <<"runtime_error">>
                   ELSE IF s.names[i] \in Range(json.names) THEN of[i][Found(json, s.names[i])]
                   ELSE IF MayBeLeftOut[s.parts[i]] THEN <<>>
                   ELSE <<"ObjectMemberMissing">>])

FaultsOf(s, of) == [json \in Json |-> FaultsIn(json, s, of)]

\* The faults of a document, in the order in which it is read.
Faults[s \in Types] == FaultsOf(s, [i \in DOMAIN s.parts |-> Faults[s.parts[i]]])

\* The client catches the kind of the first fault of the document, however
\* deep it is and whatever the target was, and nothing when there is none.
FirstFaultCaught ==
  last # NoDocument =>
    caught = IF Faults[shape][last] = <<>> THEN NoError ELSE Head(Faults[shape][last])

\* A document that fails has changed a TupleMap up to one member: those before
\* are as the document says, those after it are untouched, and that member's
\* own part of the document is at fault.
ReadUpToTheFault ==
  LET names == shape.names
      parts == shape.parts
      Given(i) == names[i] \in Range(last'.names)
      AtFault(i) ==
        \/ names[i] = Unnamed
        \/ IF Given(i) THEN Faults[parts[i]][Found(last', names[i])] # <<>>
           ELSE ~MayBeLeftOut[parts[i]]
  IN shape.is = "tuplemap" /\ caught' # NoError /\ last'.is = "object" =>
       \E at \in DOMAIN parts :
         /\ AtFault(at)
         /\ \A i \in 1..(at - 1) :
              IF Given(i) THEN target'.parts[i] \in Meant[parts[i]][Found(last', names[i])]
              ELSE target'.parts[i] = target.parts[i]
         /\ \A i \in (at + 1)..Len(parts) : target'.parts[i] = target.parts[i]

FailureStopsThere == [][ReadUpToTheFault]_vars
=============================================================================
