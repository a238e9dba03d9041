------------------------------- MODULE MCTuple -------------------------------
(***************************************************************************)
(* Two variables of any two classes from MCFieldLists.                     *)
(***************************************************************************)
EXTENDS Tuple

CONSTANTS a, b, c, byte, int, double, string

MCTags == {1, 2, 3, a, b, c}

\* The sizes of x86-64.
MCSize == byte :> 1 @@ int :> 4 @@ double :> 8 @@ string :> 32
MCAlignment == byte :> 1 @@ int :> 4 @@ double :> 8 @@ string :> 8

MCGiven == 1 :> 3 @@ 2 :> 5 @@ 3 :> 7 @@ a :> 3 @@ b :> 5 @@ c :> 7
MCGivenPair == <<7, 4>>
MCValues == {0} \cup 2..7

WithTags(tags, types) == [i \in DOMAIN tags |-> [tag |-> tags[i], type |-> types[i]]]

TupleTypes ==
  {<<>>, <<int>>, <<double>>, <<string>>, <<int, string>>, <<string, int>>, <<double, int>>,
   <<int, double>>, <<byte, double, int>>, <<double, byte, int>>, <<int, int, int>>,
   <<string, byte, string>>, <<int, double, int>>, <<string, int, int>>}

MapTypes == {<<int, int, int>>, <<int, double, double>>, <<double, int, int>>, <<string, int, string>>,
             <<string, string, byte>>}

MCFieldLists ==
  {WithTags(SubSeq(<<1, 2, 3>>, 1, Len(types)), types) : types \in TupleTypes}
  \cup {WithTags(tags, types) : tags \in SetToSeqs({a, b, c}), types \in MapTypes}
  \cup {WithTags(tags, <<int, string>>) : tags \in {<<a, b>>, <<b, a>>, <<a, c>>, <<c, b>>}}
=============================================================================
