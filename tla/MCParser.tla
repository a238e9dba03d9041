------------------------------ MODULE MCParser ------------------------------
(***************************************************************************)
(* Parser for four types of targets, with documents that are built from    *)
(* good, mistyped, missing, doubled and half given members.                *)
(***************************************************************************)
EXTENDS Parser

Leaf(is) == [is |-> is, parts |-> <<>>]
Integral == [is |-> "integral", parts |-> <<>>, range |-> 0..1]
Floating == Leaf("floating")
String == Leaf("string")
Path == Leaf("path")
Tuple(parts) == [is |-> "tuple", parts |-> parts]
Of(is, s) == [is |-> is, parts |-> <<s>>]
Optional(s) == Of("optional", s)
Vector(s) == Of("vector", s)
Pair(s) == [is |-> "array", parts |-> <<s>>, size |-> 2]
TupleMap(names, parts) == [is |-> "tuplemap", names |-> names, parts |-> parts]

Point == TupleMap(<<"x", "y">>, <<Integral, Optional(Integral)>>)

\* Nested sections and lists of them, with optional members at each level.
Config == TupleMap(<<"id", "at", "points", "next">>,
                   <<Integral, Point, Vector(Point), Optional(Point)>>)

\* One of each other container.
Table == TupleMap(<<"pair", "map", "all", "tuple">>,
                  <<Pair(Optional(Integral)), Of("map", Integral), Of("multimap", Vector(String)),
                    Tuple(<<Floating, Point>>)>>)

NoName == TupleMap(<<"id", Unnamed>>, <<Integral, Integral>>)

\* A null pointer converts to the string and to the tuple of a string.
Label == TupleMap(<<"id", "name", "alias", "age", "path">>,
                  <<Integral, String, Tuple(<<String>>), Tuple(<<Integral>>), Path>>)

MCShapes == {Config, Table, NoName, Label}

WithParts(S) == S \cup UNION {Range(s.parts) : s \in S}

MCTypes == WithParts(WithParts(WithParts(MCShapes)))

MCNesting[s \in MCTypes] == IF s.parts = <<>> THEN 0
                            ELSE 1 + Max({MCNesting[part] : part \in Range(s.parts)})

Null == [is |-> "null"]
Num(halves) == [is |-> "number", halves |-> halves]
Str(s) == [is |-> "string", string |-> s]
Arr(values) == [is |-> "array", values |-> values]
Obj(names, values) == [is |-> "object", names |-> names, values |-> values]

Points == {Obj(<<"x", "y">>, <<Num(2), Num(2)>>),
           Obj(<<"y", "x", "x">>, <<Null, Num(0), Num(2)>>),
           Obj(<<"x">>, <<Num(0)>>),
           Obj(<<"x", "y">>, <<Num(2), Str("a")>>)}

PointLists == {Arr(<<>>),
               Arr(<<Obj(<<"x">>, <<Num(2)>>), Obj(<<"x", "y">>, <<Num(2), Num(2)>>)>>),
               Arr(<<Obj(<<"x", "y">>, <<Num(2), Num(0)>>), Obj(<<"x">>, <<Num(0)>>), Num(0)>>)}

\* A member that may be left out is a sequence of at most one value.
Named(name, values) == IF values = <<>> THEN <<>> ELSE <<name>>

ConfigDocuments ==
  {Obj(<<"id", "at", "points">> \o Named("next", next), <<id, at, points>> \o next) :
     id \in {Num(2), Num(1)},
     at \in Points,
     points \in PointLists,
     next \in {<<>>, <<Obj(<<"x">>, <<Num(0)>>)>>, <<Obj(<<"y">>, <<Num(2)>>)>>}}
  \cup {Null, Obj(<<"at", "points">>, <<Obj(<<"x">>, <<Num(0)>>), Arr(<<>>)>>)}

TableDocuments ==
  {Obj(<<"pair", "map", "all", "tuple">>, <<pair, map, all, tuple>>) :
     pair \in {Arr(<<Num(2), Null>>), Arr(<<Null, Num(4)>>)},
     map \in {Obj(<<>>, <<>>), Obj(<<"k", "l", "k">>, <<Num(0), Num(2), Num(2)>>),
              Obj(<<"m", "k", "l">>, <<Num(0), Null, Num(2)>>)},
     all \in {Obj(<<"k", "l", "k">>, <<Arr(<<Str("a")>>), Arr(<<>>), Arr(<<Str("b")>>)>>),
              Obj(<<"k">>, <<Arr(<<Str("a"), Num(0)>>)>>)},
     tuple \in {Arr(<<Num(1), Obj(<<"x">>, <<Num(0)>>)>>),
                Arr(<<Num(2), Obj(<<"x", "y">>, <<Num(2), Num(2)>>)>>),
                Arr(<<Str("a"), Obj(<<>>, <<>>)>>), Arr(<<Num(1)>>)}}
  \cup {Arr(<<>>), Obj(<<"pair">>, <<Arr(<<Null>>)>>)}

NoNameDocuments == {Obj(<<"id">>, <<Num(2)>>), Obj(<<>>, <<>>), Str("a")}

\* Each member is left out of some, the name and the alias also of good ones.
LabelDocuments ==
  {Obj(<<"id">> \o Named("name", name) \o Named("alias", alias) \o Named("age", age)
                \o Named("path", path),
       <<Num(2)>> \o name \o alias \o age \o path) :
     name \in {<<>>, <<Str("a")>>, <<Null>>},
     alias \in {<<>>, <<Arr(<<Str("b")>>)>>},
     age \in {<<>>, <<Arr(<<Num(2)>>)>>},
     path \in {<<>>, <<Str("a")>>}}
  \cup {Obj(<<"name">>, <<Str("b")>>)}

MCDocuments ==
  [s \in MCShapes |->
     CASE s = Config -> ConfigDocuments
       [] s = Table -> TableDocuments
       [] s = NoName -> NoNameDocuments
       [] s = Label -> LabelDocuments]

WithInside(S) ==
  S \cup UNION {Range(json.values) : json \in {x \in S : x.is \in {"array", "object"}}}

AllJson == WithInside(WithInside(WithInside(UNION Range(MCDocuments))))

MCJson == AllJson
=============================================================================
