----------------------------- MODULE TupleProofs -----------------------------
(***************************************************************************)
(* Proofs about Tuple.                                                     *)
(*                                                                         *)
(* The layout is sound for element types of any number, with any sizes and *)
(* alignments: each property of it is kept by one step of the fold.  The   *)
(* calls keep the types, for any classes and variables, and pair elements  *)
(* by tag, by the way in which each conversion chooses its function.       *)
(* Comparison, concatenation and apply answer as std::tuple does, for      *)
(* tuples of any number of elements: each fold and each recursion is a     *)
(* function on positions, which Recursion shows to exist, and what it      *)
(* computes is shown position by position.                                 *)
(***************************************************************************)
EXTENDS Tuple, Recursion

-----------------------------------------------------------------------------
(* Multiples.                                                               *)

LEMMA MultipleOfPositive ==
  ASSUME NEW k \in Nat, NEW a \in Nat \ {0}
  PROVE  (k * a) % a = 0
OBVIOUS

\* RoundedUp gives the alignment a multiple of it that is not below the start.
LEMMA RoundedUpIsNext ==
  ASSUME NEW start \in Nat, NEW a \in Nat \ {0}
  PROVE  /\ RoundedUp(start, a) \in Nat
         /\ RoundedUp(start, a) % a = 0
         /\ start <= RoundedUp(start, a)
<1>1. /\ start \div a \in Nat
      /\ start = a * (start \div a) + (start % a)
      /\ start % a < a
  OBVIOUS
<1>2. CASE start % a = 0
  BY <1>2 DEF RoundedUp
<1>3. CASE start % a # 0
  <2> DEFINE k == start \div a + 1
  <2>1. /\ k \in Nat
        /\ RoundedUp(start, a) = k * a
    BY <1>1, <1>3 DEF RoundedUp
  <2>2. k * a = a * (start \div a) + a
    BY <1>1
  <2> QED
    BY <1>1, <2>1, <2>2, MultipleOfPositive
<1> QED
  BY <1>2, <1>3

-----------------------------------------------------------------------------
(* One step of the fold.                                                    *)

\* Of any two alignments the greater is a multiple of the other.
Chained(seq) ==
  \A i, j \in DOMAIN seq :
    seq[i].alignment <= seq[j].alignment => seq[j].alignment % seq[i].alignment = 0

HasGreatest(seq) ==
  seq # <<>> => \E m \in DOMAIN seq : \A i \in DOMAIN seq : seq[i].alignment <= seq[m].alignment

Multiples(seq) == \A i \in DOMAIN seq : seq[i].offset % seq[i].alignment = 0

LEMMA InfoTypes ==
  ASSUME NEW seq \in Seq(TypeInfo)
  PROVE  \A i \in DOMAIN seq :
           /\ seq[i].offset \in Nat
           /\ seq[i].size \in Nat
           /\ seq[i].alignment \in Nat \ {0}
           /\ EndOf(seq[i]) \in Nat
           /\ EndOf(seq[i]) = seq[i].offset + seq[i].size
<1> SUFFICES ASSUME NEW i \in DOMAIN seq
             PROVE  seq[i].offset \in Nat /\ seq[i].size \in Nat /\ seq[i].alignment \in Nat \ {0}
  BY DEF EndOf
<1>1. seq[i] \in TypeInfo
  OBVIOUS
<1> QED
  BY <1>1 DEF TypeInfo

LEMMA GreatestIsMaxAlignment ==
  ASSUME NEW seq \in Seq(TypeInfo), HasGreatest(seq), Chained(seq)
  PROVE  \A i \in DOMAIN seq : MaxAlignment(seq) % seq[i].alignment = 0
<1> SUFFICES ASSUME NEW i \in DOMAIN seq
             PROVE  MaxAlignment(seq) % seq[i].alignment = 0
  OBVIOUS
<1> DEFINE S == {seq[k].alignment : k \in DOMAIN seq}
<1>1. PICK m \in DOMAIN seq : \A k \in DOMAIN seq : seq[k].alignment <= seq[m].alignment
  BY DEF HasGreatest
<1>2. \E a \in S : \A k \in DOMAIN seq : seq[k].alignment <= a
  BY <1>1
<1>3. /\ MaxAlignment(seq) \in S
      /\ \A k \in DOMAIN seq : seq[k].alignment <= MaxAlignment(seq)
  <2>1. seq # <<>>
    OBVIOUS
  <2>2. MaxAlignment(seq) = CHOOSE a \in S : \A k \in DOMAIN seq : seq[k].alignment <= a
    BY <2>1 DEF MaxAlignment
  <2> HIDE DEF S
  <2> QED
    BY <1>2, <2>2
<1>4. PICK n \in DOMAIN seq : MaxAlignment(seq) = seq[n].alignment
  BY <1>3
<1> QED
  BY <1>3, <1>4 DEF Chained

LEMMA JoinedExtends ==
  ASSUME NEW seq \in Seq(TypeInfo), NEW info \in TypeInfo
  PROVE  /\ Joined(seq, info) \in Seq(TypeInfo)
         /\ Len(Joined(seq, info)) = Len(seq) + 1
         /\ \A i \in DOMAIN seq : Joined(seq, info)[i] = seq[i]
         /\ Joined(seq, info)[Len(seq) + 1].size = info.size
         /\ Joined(seq, info)[Len(seq) + 1].alignment = info.alignment
         /\ Joined(seq, info)[Len(seq) + 1].offset % info.alignment = 0
         /\ seq # <<>> => EndOf(seq[Len(seq)]) <= Joined(seq, info)[Len(seq) + 1].offset
<1> DEFINE start == EndOf(seq[Len(seq)])
           offset == IF seq = <<>> THEN 0 ELSE RoundedUp(start, info.alignment)
           new == [info EXCEPT !.offset = offset]
<1>1. seq # <<>> => start \in Nat
  <2>1. seq # <<>> => Len(seq) \in DOMAIN seq
    OBVIOUS
  <2> QED
    BY <2>1, InfoTypes
<1>2. info.alignment \in Nat \ {0} /\ info.size \in Nat \ {0}
  BY DEF TypeInfo
<1>3. /\ offset \in Nat
      /\ offset % info.alignment = 0
      /\ seq # <<>> => start <= offset
  <2>1. CASE seq = <<>>
    BY <1>2, <2>1
  <2>2. CASE seq # <<>>
    BY <1>1, <1>2, <2>2, RoundedUpIsNext
  <2> QED
    BY <2>1, <2>2
<1>4. /\ new \in TypeInfo
      /\ new.size = info.size
      /\ new.alignment = info.alignment
      /\ new.offset = offset
  BY <1>3 DEF TypeInfo
<1>5. Joined(seq, info) = Append(seq, new)
  <2>1. CASE seq = <<>>
    BY <2>1 DEF Joined
  <2>2. CASE seq # <<>>
    BY <2>2 DEF Joined
  <2> QED
    BY <2>1, <2>2
<1> HIDE DEF new, offset, start
<1>6. /\ Joined(seq, info) \in Seq(TypeInfo)
      /\ Len(Joined(seq, info)) = Len(seq) + 1
      /\ \A i \in DOMAIN seq : Joined(seq, info)[i] = seq[i]
      /\ Joined(seq, info)[Len(seq) + 1] = new
  BY <1>4, <1>5
<1>7. seq # <<>> => EndOf(seq[Len(seq)]) <= offset
  BY <1>3 DEF start
<1> QED
  BY <1>3, <1>4, <1>6, <1>7

LEMMA JoinedInOrder ==
  ASSUME NEW seq \in Seq(TypeInfo), NEW info \in TypeInfo,
         InOrder(seq), Inside(seq)
  PROVE  InOrder(Joined(seq, info)) /\ Inside(Joined(seq, info))
<1> DEFINE new == Joined(seq, info)
           n == Len(seq) + 1
<1>1. /\ new \in Seq(TypeInfo)
      /\ Len(new) = n
      /\ n \in Nat
      /\ DOMAIN seq = 1..(n - 1)
      /\ DOMAIN new = 1..n
      /\ \A i \in DOMAIN seq : new[i] = seq[i]
      /\ seq # <<>> => EndOf(seq[Len(seq)]) <= new[n].offset
  BY JoinedExtends
<1> HIDE DEF new
<1>2. \A i \in DOMAIN new : /\ new[i].offset \in Nat
                            /\ new[i].size \in Nat
                            /\ EndOf(new[i]) = new[i].offset + new[i].size
  BY <1>1, InfoTypes
<1>3. TotalSize(new) = EndOf(new[n])
  BY <1>1 DEF TotalSize
<1>4. \A i \in DOMAIN seq : EndOf(new[i]) <= new[n].offset
  <2> SUFFICES ASSUME NEW i \in DOMAIN seq
               PROVE  EndOf(new[i]) <= new[n].offset
    OBVIOUS
  <2>1. seq # <<>> /\ TotalSize(seq) = EndOf(seq[Len(seq)])
    BY DEF TotalSize
  <2>2. EndOf(seq[i]) <= EndOf(seq[Len(seq)])
    BY <2>1 DEF Inside
  <2>3. EndOf(seq[i]) \in Int /\ EndOf(seq[Len(seq)]) \in Int /\ new[n].offset \in Int
    <3>1. Len(seq) \in DOMAIN seq /\ n \in DOMAIN new
      BY <1>1
    <3> QED
      BY <1>2, <3>1, InfoTypes
  <2> QED
    BY <1>1, <2>1, <2>2, <2>3
<1>5. InOrder(new)
  <2> SUFFICES ASSUME NEW i \in DOMAIN new, NEW j \in DOMAIN new, i < j
               PROVE  EndOf(new[i]) <= new[j].offset
    BY DEF InOrder
  <2>1. CASE j = n
    BY <1>1, <1>4, <2>1
  <2>2. CASE j # n
    <3>1. i \in DOMAIN seq /\ j \in DOMAIN seq
      BY <1>1, <2>2
    <3> QED
      BY <1>1, <3>1 DEF InOrder
  <2> QED
    BY <2>1, <2>2
<1>6. Inside(new)
  <2> SUFFICES ASSUME NEW i \in DOMAIN new
               PROVE  EndOf(new[i]) <= EndOf(new[n])
    BY <1>3 DEF Inside
  <2>1. CASE i = n
    BY <1>1, <1>2, <2>1
  <2>2. CASE i # n
    BY <1>1, <1>2, <1>4, <2>2
  <2> QED
    BY <2>1, <2>2
<1> QED
  BY <1>5, <1>6 DEF new

LEMMA JoinedAligned ==
  ASSUME NEW seq \in Seq(TypeInfo), NEW info \in TypeInfo,
         Multiples(seq), HasGreatest(seq)
  PROVE  Multiples(Joined(seq, info)) /\ HasGreatest(Joined(seq, info))
<1> DEFINE new == Joined(seq, info)
           n == Len(seq) + 1
<1>1. /\ new \in Seq(TypeInfo)
      /\ n \in Nat
      /\ DOMAIN seq = 1..(n - 1)
      /\ DOMAIN new = 1..n
      /\ \A i \in DOMAIN seq : new[i] = seq[i]
      /\ new[n].alignment = info.alignment
      /\ new[n].offset % info.alignment = 0
  BY JoinedExtends
<1> HIDE DEF new
<1>2. \A i \in DOMAIN new : i = n \/ i \in DOMAIN seq
  BY <1>1
<1>3. \A i \in DOMAIN new : new[i].alignment \in Nat
  BY <1>1, InfoTypes
<1>4. Multiples(new)
  BY <1>1, <1>2 DEF Multiples
<1>5. HasGreatest(new)
  <2>1. CASE seq = <<>>
    BY <1>1, <1>3, <2>1 DEF HasGreatest
  <2>2. CASE seq # <<>>
    <3>1. PICK m \in DOMAIN seq : \A i \in DOMAIN seq : seq[i].alignment <= seq[m].alignment
      BY <2>2 DEF HasGreatest
    <3>2. m \in DOMAIN new /\ n \in DOMAIN new
      BY <1>1
    <3>3. CASE info.alignment <= seq[m].alignment
      <4>1. \A i \in DOMAIN new : new[i].alignment <= new[m].alignment
        BY <1>1, <1>2, <3>1, <3>3
      <4> QED
        BY <3>2, <4>1 DEF HasGreatest
    <3>4. CASE seq[m].alignment < info.alignment
      <4>1. \A i \in DOMAIN new : new[i].alignment <= new[n].alignment
        <5> SUFFICES ASSUME NEW i \in DOMAIN new
                     PROVE  new[i].alignment <= new[n].alignment
          OBVIOUS
        <5>1. CASE i = n
          BY <1>3, <5>1
        <5>2. CASE i \in DOMAIN seq
          <6>1. new[i].alignment <= seq[m].alignment
            BY <1>1, <3>1, <5>2
          <6>2. seq[m].alignment \in Nat /\ new[n].alignment \in Nat
            BY <1>1, <1>3, <3>2
          <6> QED
            BY <1>1, <1>3, <3>4, <6>1, <6>2
        <5> QED
          BY <1>2, <5>1, <5>2
      <4> QED
        BY <3>2, <4>1 DEF HasGreatest
    <3>5. info.alignment \in Nat /\ seq[m].alignment \in Nat
      BY InfoTypes DEF TypeInfo
    <3> QED
      BY <3>3, <3>4, <3>5
  <2> QED
    BY <2>1, <2>2
<1> QED
  BY <1>4, <1>5 DEF new

-----------------------------------------------------------------------------
(* The layout.                                                              *)

\* The infos so far are those of the first element types.
Described(s) ==
  \A i \in DOMAIN infos[s] : infos[s][i].alignment = Alignment[fields[s][i].type]

LayoutInv ==
  /\ fields \in [Slots -> FieldLists]
  /\ infos \in [Slots -> Seq(TypeInfo)]
  /\ \A s \in Slots :
       /\ Len(infos[s]) <= Len(fields[s])
       /\ Described(s)
       /\ InOrder(infos[s])
       /\ Inside(infos[s])
       /\ Multiples(infos[s])
       /\ HasGreatest(infos[s])

LEMMA FieldTypes ==
  ASSUME fields \in [Slots -> FieldLists], NEW s \in Slots
  PROVE  /\ fields[s] \in Seq(Field)
         /\ \A i \in DOMAIN fields[s] : fields[s][i].tag \in Tags /\ fields[s][i].type \in Types
<1>1. fields[s] \in FieldLists
  OBVIOUS
<1>2. fields[s] \in Seq(Field)
  BY <1>1, FieldListsAssumption
<1>3. \A i \in DOMAIN fields[s] : fields[s][i] \in Field
  BY <1>2
<1> QED
  BY <1>2, <1>3 DEF Field

LEMMA LayoutInit_Inv == LayoutInit => LayoutInv
<1> SUFFICES ASSUME LayoutInit PROVE LayoutInv
  OBVIOUS
<1>1. /\ fields \in [Slots -> FieldLists]
      /\ infos \in [Slots -> Seq(TypeInfo)]
      /\ \A s \in Slots : infos[s] = <<>>
  BY DEF LayoutInit
<1>2. ASSUME NEW s \in Slots
      PROVE  Len(infos[s]) <= Len(fields[s])
  <2>1. fields[s] \in Seq(Field)
    BY <1>1, FieldTypes
  <2>2. Len(fields[s]) \in Nat /\ Len(infos[s]) = 0
    BY <1>1, <2>1
  <2> QED
    BY <2>2
<1>3. InOrder(<<>>) /\ Inside(<<>>) /\ Multiples(<<>>) /\ HasGreatest(<<>>)
  BY DEF InOrder, Inside, Multiples, HasGreatest
<1> QED
  BY <1>1, <1>2, <1>3 DEF LayoutInv, Described

LEMMA LayOut_Inv ==
  ASSUME LayoutInv, NEW s \in Slots, LayOut(s)
  PROVE  LayoutInv'
<1> DEFINE n == Len(infos[s]) + 1
           type == fields[s][n].type
           new == Joined(infos[s], InfoOf(type))
<1>1. /\ infos[s] \in Seq(TypeInfo)
      /\ Len(infos[s]) \in Nat
      /\ DOMAIN infos[s] = 1..Len(infos[s])
      /\ Len(infos[s]) <= Len(fields[s])
      /\ Len(infos[s]) # Len(fields[s])
      /\ fields[s] \in Seq(Field)
  BY FieldTypes DEF LayoutInv, LayOut, LaidOut
<1>2. n \in DOMAIN fields[s]
  BY <1>1
<1>3. type \in Types
  BY <1>2, FieldTypes DEF LayoutInv
<1>4. InfoOf(type) \in TypeInfo /\ InfoOf(type).alignment = Alignment[type]
  BY <1>3, TypesAssumption DEF InfoOf, TypeInfo
<1> HIDE DEF type
<1>5. /\ new \in Seq(TypeInfo)
      /\ Len(new) = n
      /\ \A i \in DOMAIN infos[s] : new[i] = infos[s][i]
      /\ new[n].alignment = Alignment[type]
  BY <1>1, <1>4, JoinedExtends
<1>6. InOrder(new) /\ Inside(new)
  BY <1>1, <1>4, JoinedInOrder DEF LayoutInv
<1>7. Multiples(new) /\ HasGreatest(new)
  BY <1>1, <1>4, JoinedAligned DEF LayoutInv
<1>8. \A i \in DOMAIN new : new[i].alignment = Alignment[fields[s][i].type]
  <2> SUFFICES ASSUME NEW i \in DOMAIN new
               PROVE  new[i].alignment = Alignment[fields[s][i].type]
    OBVIOUS
  <2>1. CASE i = n
    BY <1>5, <2>1 DEF type
  <2>2. CASE i # n
    <3>1. i \in DOMAIN infos[s]
      BY <1>1, <1>5, <2>2
    <3> QED
      BY <1>5, <3>1 DEF LayoutInv, Described
  <2> QED
    BY <2>1, <2>2
<1>9. fields' = fields /\ infos' = [infos EXCEPT ![s] = new]
  BY DEF LayOut, type
<1> HIDE DEF new
<1>10. infos' \in [Slots -> Seq(TypeInfo)]
  BY <1>5, <1>9 DEF LayoutInv
<1>11. ASSUME NEW r \in Slots
       PROVE  /\ Len(infos'[r]) <= Len(fields'[r])
              /\ Described(r)'
              /\ InOrder(infos'[r])
              /\ Inside(infos'[r])
              /\ Multiples(infos'[r])
              /\ HasGreatest(infos'[r])
  <2>1. CASE r = s
    <3>1. infos'[r] = new
      BY <1>9, <2>1 DEF LayoutInv
    <3>2. n <= Len(fields[s])
      BY <1>1
    <3> QED
      BY <1>5, <1>6, <1>7, <1>8, <1>9, <2>1, <3>1, <3>2 DEF Described
  <2>2. CASE r # s
    <3>1. infos'[r] = infos[r]
      BY <1>9, <2>2 DEF LayoutInv
    <3> QED
      BY <1>9, <3>1 DEF LayoutInv, Described
  <2> QED
    BY <2>1, <2>2
<1> QED
  BY <1>9, <1>10, <1>11 DEF LayoutInv

LEMMA LayoutInv_Sound == LayoutInv => LayoutSound
<1> SUFFICES ASSUME LayoutInv, NEW s \in Slots
             PROVE  InOrder(infos[s]) /\ Inside(infos[s]) /\ Aligned(infos[s])
  BY DEF LayoutSound
<1>1. /\ infos[s] \in Seq(TypeInfo)
      /\ InOrder(infos[s]) /\ Inside(infos[s]) /\ Multiples(infos[s]) /\ HasGreatest(infos[s])
      /\ DOMAIN infos[s] \subseteq DOMAIN fields[s]
  BY FieldTypes DEF LayoutInv
<1>2. \A i \in DOMAIN infos[s] : /\ fields[s][i].type \in Types
                                 /\ infos[s][i].alignment = Alignment[fields[s][i].type]
  BY <1>1, FieldTypes DEF LayoutInv, Described
<1>3. Chained(infos[s])
  BY <1>2, TypesAssumption DEF Chained
<1>4. \A i \in DOMAIN infos[s] : MaxAlignment(infos[s]) % infos[s][i].alignment = 0
  BY <1>1, <1>3, GreatestIsMaxAlignment
<1> QED
  BY <1>1, <1>4 DEF Aligned, Multiples

-----------------------------------------------------------------------------
(* Calls.                                                                   *)

\* No class changes, and TupleMaps and Tuples are not converted into each other.
KindsApart == (\A s \in Slots : IsTuple(fields[s])) \/ (\A s \in Slots : IsMap(s))

Inv == LayoutInv /\ TupleTypeOK /\ KindsApart

LEMMA ByPositionInside ==
  ASSUME fields \in [Slots -> FieldLists], NEW d \in Slots, NEW s \in Slots, SameSize(d, s)
  PROVE  \A i \in Positions(d) : ByPosition(d)[i] = i /\ i \in Positions(s)
BY FieldTypes DEF SameSize, ByPosition, Positions

LEMMA ByTagInside ==
  ASSUME NEW d \in Slots, NEW s \in Slots, TagsOf(d) \subseteq TagsOf(s)
  PROVE  \A i \in Positions(d) :
           /\ ByTag(d, s)[i] \in Positions(s)
           /\ fields[s][ByTag(d, s)[i]].tag = fields[d][i].tag
<1> SUFFICES ASSUME NEW i \in Positions(d)
             PROVE  /\ ByTag(d, s)[i] \in Positions(s)
                    /\ fields[s][ByTag(d, s)[i]].tag = fields[d][i].tag
  OBVIOUS
<1>1. \E j \in Positions(s) : fields[s][j].tag = fields[d][i].tag
  BY DEF TagsOf
<1>2. /\ Position(s, fields[d][i].tag) \in Positions(s)
      /\ fields[s][Position(s, fields[d][i].tag)].tag = fields[d][i].tag
  BY <1>1 DEF Position
<1> QED
  BY <1>2 DEF ByTag

LEMMA RawApart == Raw \notin Values /\ Moved # Raw
<1>1. Values \subseteq Nat /\ Moved \in Nat /\ Raw \notin Int
  BY ValuesAssumption
<1>2. Nat \subseteq Int
  OBVIOUS
<1> QED
  BY <1>1, <1>2, Zenon

LEMMA ConvertedValue ==
  ASSUME NEW from \in Types, NEW to \in Types, Converts(from, to),
         NEW v \in StorageOf(from), v # Raw
  PROVE  ConvertedTo(to, v) \in StorageOf(to) /\ ConvertedTo(to, v) # Raw
<1>1. Raw \notin Values /\ Moved # Raw
  BY RawApart
<1>2. CASE to \in Integral
  <2>1. from \notin Throwing
    BY <1>2, ValuesAssumption DEF Converts
  <2>2. v \in Values
    BY <2>1 DEF StorageOf
  <2> QED
    BY <1>1, <1>2, <2>2, ValuesAssumption DEF ConvertedTo, StorageOf
<1>3. CASE to \notin Integral
  <2>1. CASE from \in Throwing
    BY <1>3, <2>1, ValuesAssumption DEF Converts, ConvertedTo
  <2>2. CASE from \notin Throwing
    BY <1>3, <2>2 DEF ConvertedTo, StorageOf
  <2> QED
    BY <2>1, <2>2
<1> QED
  BY <1>2, <1>3

\* What a transfer makes of the two variables.
LEMMA TransferEffect ==
  ASSUME Inv, NEW d \in Slots, NEW s \in Slots, d # s, live[s],
         NEW from, \A i \in Positions(d) : from[i] \in Positions(s),
         NEW copied \in BOOLEAN, NEW stop \in Stops(d, copied),
         Transfer(d, s, from, copied, stop)
  PROVE  /\ fields' = fields
         /\ DOMAIN element' = Slots
         /\ \A r \in Slots :
              /\ DOMAIN element'[r] = Positions(r)
              /\ \A i \in Positions(r) :
                   /\ element'[r][i] \in StorageOf(fields[r][i].type)
                   /\ r # d => (element[r][i] # Raw => element'[r][i] # Raw)
         /\ \A i \in Positions(d) : element[d][i] # Raw => element'[d][i] # Raw
         /\ threw' \in BOOLEAN
         /\ ~threw' => \A i \in Positions(d) :
              /\ element'[d][i] = ConvertedTo(fields[d][i].type, element[s][from[i]])
              /\ element'[d][i] # Raw
<1>1. /\ fields' = fields
      /\ ConvertsTo(d, s, from)
      /\ element' = [element EXCEPT ![d] = Filled(d, s, from, stop),
                                    ![s] = IF copied THEN @ ELSE Emptied(d, s, from, stop)]
      /\ threw' = (stop \in Positions(d))
  BY DEF Transfer, layoutVars
<1>2. DOMAIN element = Slots
  BY DEF Inv, TupleTypeOK
<1>3. /\ DOMAIN element' = Slots
      /\ element'[d] = Filled(d, s, from, stop)
      /\ element'[s] = IF copied THEN element[s] ELSE Emptied(d, s, from, stop)
      /\ \A r \in Slots : r # d /\ r # s => element'[r] = element[r]
  BY <1>1, <1>2
<1>4. \A r \in Slots : \A i \in Positions(r) : fields[r][i].type \in Types
  BY FieldTypes DEF Inv, LayoutInv, Positions
<1>5. ASSUME NEW i \in Positions(d)
      PROVE  LET new == ConvertedTo(fields[d][i].type, element[s][from[i]])
             IN new \in StorageOf(fields[d][i].type) /\ new # Raw
  <2>1. from[i] \in Positions(s)
    OBVIOUS
  <2>2. /\ element[s][from[i]] \in StorageOf(fields[s][from[i]].type)
        /\ element[s][from[i]] # Raw
    BY <2>1 DEF Inv, TupleTypeOK
  <2>3. Converts(fields[s][from[i]].type, fields[d][i].type)
    BY <1>1 DEF ConvertsTo
  <2> QED
    BY <1>4, <2>1, <2>2, <2>3, ConvertedValue
<1>6. /\ DOMAIN element'[d] = Positions(d)
      /\ \A i \in Positions(d) :
           /\ element'[d][i] \in StorageOf(fields[d][i].type)
           /\ element[d][i] # Raw => element'[d][i] # Raw
  BY <1>3, <1>5 DEF Filled, Inv, TupleTypeOK
<1>7. /\ DOMAIN element'[s] = Positions(s)
      /\ \A i \in Positions(s) :
           /\ element'[s][i] \in StorageOf(fields[s][i].type)
           /\ element[s][i] # Raw => element'[s][i] # Raw
  <2>1. Moved # Raw
    BY RawApart
  <2>2. CASE copied
    BY <1>3, <2>2 DEF Inv, TupleTypeOK
  <2>3. CASE ~copied
    BY <1>3, <2>1, <2>3 DEF Emptied, StorageOf, Inv, TupleTypeOK
  <2> QED
    BY <2>2, <2>3
<1>8. \A r \in Slots \ {d, s} :
        /\ DOMAIN element'[r] = Positions(r)
        /\ \A i \in Positions(r) :
             /\ element'[r][i] \in StorageOf(fields[r][i].type)
             /\ element[r][i] # Raw => element'[r][i] # Raw
  BY <1>3 DEF Inv, TupleTypeOK
<1>9. ~threw' => \A i \in Positions(d) :
        /\ element'[d][i] = ConvertedTo(fields[d][i].type, element[s][from[i]])
        /\ element'[d][i] # Raw
  <2> SUFFICES ASSUME ~threw', NEW i \in Positions(d)
               PROVE  i < stop
    BY <1>3, <1>5 DEF Filled
  <2>1. stop = Len(fields[d]) + 1
    BY <1>1 DEF Stops
  <2>2. fields[d] \in Seq(Field)
    BY FieldTypes DEF Inv, LayoutInv
  <2> QED
    BY <2>1, <2>2 DEF Positions
<1> QED
  BY <1>1, <1>3, <1>6, <1>7, <1>8, <1>9

LEMMA TransferInv ==
  ASSUME Inv, NEW d \in Slots, NEW s \in Slots, d # s, live[s],
         NEW from, \A i \in Positions(d) : from[i] \in Positions(s),
         NEW copied \in BOOLEAN, NEW stop \in Stops(d, copied),
         Transfer(d, s, from, copied, stop),
         live' = [live EXCEPT ![d] = ~threw'] \/ (live[d] /\ live' = live),
         outcome' \in {"running", "terminated"}
  PROVE  Inv'
<1>1. /\ fields' = fields
      /\ DOMAIN element' = Slots
      /\ \A r \in Slots :
           /\ DOMAIN element'[r] = Positions(r)
           /\ \A i \in Positions(r) :
                /\ element'[r][i] \in StorageOf(fields[r][i].type)
                /\ r # d => (element[r][i] # Raw => element'[r][i] # Raw)
      /\ \A i \in Positions(d) : element[d][i] # Raw => element'[d][i] # Raw
      /\ threw' \in BOOLEAN
      /\ ~threw' => \A i \in Positions(d) : element'[d][i] # Raw
  BY TransferEffect
<1>2. /\ live \in [Slots -> BOOLEAN]
      /\ \A r \in Slots : \A i \in Positions(r) : live[r] => element[r][i] # Raw
  BY DEF Inv, TupleTypeOK
<1>3. /\ live' \in [Slots -> BOOLEAN]
      /\ \A r \in Slots : r # d => live'[r] = live[r]
      /\ live'[d] => ~threw' \/ live[d]
  BY <1>1, <1>2
<1>4. \A r \in Slots : \A i \in Positions(r) : live'[r] => element'[r][i] # Raw
  <2> SUFFICES ASSUME NEW r \in Slots, NEW i \in Positions(r), live'[r]
               PROVE  element'[r][i] # Raw
    OBVIOUS
  <2>1. CASE r = d
    BY <1>1, <1>2, <1>3, <2>1
  <2>2. CASE r # d
    BY <1>1, <1>2, <1>3, <2>2
  <2> QED
    BY <2>1, <2>2
<1>5. TupleTypeOK'
  <2>1. \A r \in Slots : Positions(r)' = Positions(r)
    BY <1>1 DEF Positions
  <2> QED
    BY <1>1, <1>3, <1>4, <2>1 DEF Inv, TupleTypeOK, StorageOf
<1>6. LayoutInv'
  <2>1. UNCHANGED layoutVars
    BY DEF Transfer
  <2> QED
    BY <2>1 DEF Inv, LayoutInv, Described, layoutVars
<1>7. KindsApart'
  BY <1>1 DEF Inv, KindsApart, IsMap
<1> QED
  BY <1>5, <1>6, <1>7 DEF Inv

\* Every transfer is one along some pairing of elements, and those it pairs
\* have the same tag, unless the maps are Mispaired.
Pairs(d, s, from) ==
  \A i \in Positions(d) : from[i] \in Positions(s) /\ fields[s][from[i]].tag = fields[d][i].tag

LEMMA SamePairs ==
  ASSUME Inv, NEW d \in Slots, NEW s \in Slots, SameClass(d, s)
  PROVE  Pairs(d, s, ByPosition(d))
BY DEF SameClass, Pairs, ByPosition, Positions

LEMMA SubMapPairs ==
  ASSUME Inv, NEW d \in Slots, NEW s \in Slots,
         \A i \in Positions(d) : \E j \in Positions(s) : fields[s][j] = fields[d][i]
  PROVE  Pairs(d, s, ByTag(d, s))
<1>1. TagsOf(d) \subseteq TagsOf(s)
  BY DEF TagsOf
<1> QED
  BY <1>1, ByTagInside DEF Pairs

LEMMA ByTagPairs ==
  ASSUME Inv, NEW d \in Slots, NEW s \in Slots, NEW byTypes, PairsByTag(d, s, byTypes)
  PROVE  Pairs(d, s, ByTag(d, s))
BY ByTagInside DEF Pairs, PairsByTag

LEMMA ByPositionPairs ==
  ASSUME Inv, NEW d \in Slots, NEW s \in Slots, NEW byTypes, SameSize(d, s),
         ~PairsByTag(d, s, byTypes), ~Mispaired(d, s)
  PROVE  Pairs(d, s, ByPosition(d))
<1>1. \A i \in Positions(d) : ByPosition(d)[i] = i /\ i \in Positions(s)
  BY ByPositionInside DEF Inv, LayoutInv
<1>2. \A i \in Positions(d) : fields[d][i].tag = fields[s][i].tag
  <2>1. CASE \A i \in Positions(d) : fields[d][i].tag = fields[s][i].tag
    BY <2>1
  <2>2. CASE TagsOf(d) = TagsOf(s) /\ TagsDiffer(d, s)
    <3>1. IsTuple(fields[d]) /\ IsTuple(fields[s])
      BY <2>2 DEF PairsByTag, IsMap, Inv, KindsApart
    <3> QED
      BY <1>1, <3>1 DEF IsTuple, Positions
  <2> QED
    BY <2>1, <2>2 DEF Mispaired
<1> QED
  BY <1>1, <1>2 DEF Pairs

LEMMA FilledFromTags ==
  ASSUME Inv, NEW d \in Slots, NEW s \in Slots, d # s, live[s],
         NEW from, Pairs(d, s, from),
         NEW copied \in BOOLEAN, NEW stop \in Stops(d, copied),
         Transfer(d, s, from, copied, stop), ~threw'
  PROVE  FromItsTag(d, s)
<1>1. \A i \in Positions(d) : from[i] \in Positions(s) /\ fields[s][from[i]].tag = fields[d][i].tag
  BY DEF Pairs
<1>2. \A i \in Positions(d) :
        element'[d][i] = ConvertedTo(fields[d][i].type, element[s][from[i]])
  BY <1>1, TransferEffect
<1> QED
  BY <1>1, <1>2 DEF FromItsTag

LEMMA BuildSound ==
  ASSUME Inv, NEW d \in Slots, NEW s \in Slots, NEW from, NEW copied \in BOOLEAN,
         Build(d, s, from, copied), \A i \in Positions(d) : from[i] \in Positions(s)
  PROVE  Inv' /\ (Pairs(d, s, from) /\ ~threw' => FromItsTag(d, s))
<1>1. PICK stop \in Stops(d, copied) : Transfer(d, s, from, copied, stop)
  BY DEF Build
<1>2. d # s /\ live[s] /\ live' = [live EXCEPT ![d] = ~threw'] /\ outcome' = outcome
  BY DEF Build
<1>3. outcome' \in {"running", "terminated"}
  BY <1>2 DEF Inv, TupleTypeOK
<1> QED
  BY <1>1, <1>2, <1>3, TransferInv, FilledFromTags

LEMMA AssignSound ==
  ASSUME Inv, NEW d \in Slots, NEW s \in Slots, d # s,
         NEW from, NEW copied \in BOOLEAN, NEW nothrow,
         Assign(d, s, from, copied, nothrow), \A i \in Positions(d) : from[i] \in Positions(s)
  PROVE  Inv' /\ (Pairs(d, s, from) /\ ~threw' => FromItsTag(d, s))
<1>1. PICK stop \in Stops(d, copied) : Transfer(d, s, from, copied, stop)
  BY DEF Assign
<1>2. live[d] /\ live[s] /\ live' = live
  BY DEF Assign
<1>3. outcome' \in {"running", "terminated"}
  BY DEF Assign, Inv, TupleTypeOK
<1> QED
  BY <1>1, <1>2, <1>3, TransferInv, FilledFromTags

-----------------------------------------------------------------------------
(* Steps.                                                                   *)

\* What the calls on two variables do, one by one.
LEMMA ConstructSound ==
  ASSUME Inv, NEW d \in Slots, NEW s \in Slots, NEW copied \in BOOLEAN, Construct(d, s, copied)
  PROVE  Inv' /\ (~threw' => FromItsTag(d, s))
<1>1. SameClass(d, s) /\ Build(d, s, ByPosition(d), copied)
  BY DEF Construct
<1>2. Pairs(d, s, ByPosition(d))
  BY <1>1, SamePairs
<1> QED
  BY <1>1, <1>2, BuildSound DEF Pairs

LEMMA ConvertingConstructSound ==
  ASSUME Inv, NEW d \in Slots, NEW s \in Slots, NEW copied \in BOOLEAN,
         ConvertingConstruct(d, s, copied)
  PROVE  Inv' /\ (~Mispaired(d, s) /\ ~threw' => FromItsTag(d, s))
<1>1. CASE PairsByTag(d, s, TRUE)
  <2>1. Build(d, s, ByTag(d, s), copied)
    BY <1>1 DEF ConvertingConstruct
  <2>2. Pairs(d, s, ByTag(d, s))
    BY <1>1, ByTagPairs
  <2> QED
    BY <2>1, <2>2, BuildSound DEF Pairs
<1>2. CASE ~PairsByTag(d, s, TRUE)
  <2>1. SameSize(d, s) /\ Build(d, s, ByPosition(d), copied)
    BY <1>2 DEF ConvertingConstruct
  <2>2. \A i \in Positions(d) : ByPosition(d)[i] \in Positions(s)
    BY <2>1, ByPositionInside DEF Inv, LayoutInv
  <2>3. ~Mispaired(d, s) => Pairs(d, s, ByPosition(d))
    BY <1>2, <2>1, ByPositionPairs
  <2> QED
    BY <2>1, <2>2, <2>3, BuildSound
<1> QED
  BY <1>1, <1>2

LEMMA SubMapSound ==
  ASSUME Inv, NEW d \in Slots, NEW s \in Slots, NEW copied \in BOOLEAN, SubMap(d, s, copied)
  PROVE  Inv' /\ (~threw' => FromItsTag(d, s))
<1>1. Build(d, s, ByTag(d, s), copied)
  BY DEF SubMap
<1>2. Pairs(d, s, ByTag(d, s))
  BY SubMapPairs DEF SubMap
<1> QED
  BY <1>1, <1>2, BuildSound DEF Pairs

LEMMA AssignSameSound ==
  ASSUME Inv, NEW d \in Slots, NEW s \in Slots, NEW copied \in BOOLEAN, AssignSame(d, s, copied)
  PROVE  Inv' /\ (~threw' => FromItsTag(d, s))
<1>1. d # s /\ SameClass(d, s) /\ Assign(d, s, ByPosition(d), copied, IsMap(d))
  BY DEF AssignSame
<1>2. Pairs(d, s, ByPosition(d))
  BY <1>1, SamePairs
<1> QED
  BY <1>1, <1>2, AssignSound DEF Pairs

LEMMA ConvertingAssignSound ==
  ASSUME Inv, NEW d \in Slots, NEW s \in Slots, NEW copied \in BOOLEAN,
         ConvertingAssign(d, s, copied)
  PROVE  Inv' /\ (~Mispaired(d, s) /\ ~threw' => FromItsTag(d, s))
<1>1. d # s
  BY DEF ConvertingAssign, SameClass
<1>2. CASE PairsByTag(d, s, ~copied)
  <2>1. Assign(d, s, ByTag(d, s), copied, FALSE)
    BY <1>2 DEF ConvertingAssign
  <2>2. Pairs(d, s, ByTag(d, s))
    BY <1>2, ByTagPairs
  <2> QED
    BY <1>1, <2>1, <2>2, AssignSound DEF Pairs
<1>3. CASE ~PairsByTag(d, s, ~copied)
  <2>1. SameSize(d, s) /\ Assign(d, s, ByPosition(d), copied, FALSE)
    BY <1>3 DEF ConvertingAssign
  <2>2. \A i \in Positions(d) : ByPosition(d)[i] \in Positions(s)
    BY <2>1, ByPositionInside DEF Inv, LayoutInv
  <2>3. ~Mispaired(d, s) => Pairs(d, s, ByPosition(d))
    BY <1>3, <2>1, ByPositionPairs
  <2> QED
    BY <1>1, <2>1, <2>2, <2>3, AssignSound
<1> QED
  BY <1>2, <1>3

\* The calls that leave the layout alone and are no transfers.
LEMMA OtherInv ==
  ASSUME Inv, UNCHANGED layoutVars,
         live' \in [Slots -> BOOLEAN], DOMAIN element' = Slots,
         threw' \in BOOLEAN, outcome' = outcome,
         \A s \in Slots :
           /\ DOMAIN element'[s] = Positions(s)
           /\ \A i \in Positions(s) :
                /\ element'[s][i] \in StorageOf(fields[s][i].type)
                /\ live'[s] => element'[s][i] # Raw
  PROVE  Inv'
<1>1. fields' = fields /\ infos' = infos
  BY DEF layoutVars
<1>2. LayoutInv' /\ KindsApart'
  BY <1>1 DEF Inv, LayoutInv, Described, KindsApart, IsMap
<1>3. TupleTypeOK'
  BY <1>1 DEF Inv, TupleTypeOK, Positions, StorageOf
<1> QED
  BY <1>2, <1>3 DEF Inv

\* Elements that get their values from the program.
LEMMA ReceiveInv ==
  ASSUME Inv, NEW s \in Slots, NEW values, \A i \in Positions(s) : values[i] \in Values,
         NEW copied \in BOOLEAN, Receive(s, values, copied),
         live' \in [Slots -> BOOLEAN],
         live'[s] => live[s] \/ ~threw',
         \A r \in Slots : r # s => live'[r] = live[r]
  PROVE  Inv'
<1>1. /\ DOMAIN element = Slots
      /\ \A r \in Slots :
           /\ DOMAIN element[r] = Positions(r)
           /\ \A i \in Positions(r) :
                /\ element[r][i] \in StorageOf(fields[r][i].type)
                /\ live[r] => element[r][i] # Raw
  BY DEF Inv, TupleTypeOK
<1>2. Raw \notin Values
  BY RawApart
<1>3. PICK stop \in Stops(s, copied) :
        /\ element' = [element EXCEPT ![s] =
             [i \in Positions(s) |->
                IF i < stop THEN ConvertedTo(fields[s][i].type, values[i]) ELSE @[i]]]
        /\ threw' = (stop \in Positions(s))
  BY DEF Receive
<1>4. ASSUME NEW i \in Positions(s)
      PROVE  ConvertedTo(fields[s][i].type, values[i]) \in Values
  BY ValuesAssumption DEF ConvertedTo
<1>5. /\ DOMAIN element'[s] = Positions(s)
      /\ \A i \in Positions(s) : element'[s][i] =
           IF i < stop THEN ConvertedTo(fields[s][i].type, values[i]) ELSE element[s][i]
      /\ \A r \in Slots : r # s => element'[r] = element[r]
      /\ threw' \in BOOLEAN
      /\ DOMAIN element' = Slots
  BY <1>1, <1>3
<1>6. ~threw' => \A i \in Positions(s) : i < stop
  <2>1. ~threw' => stop = Len(fields[s]) + 1
    BY <1>3 DEF Stops
  <2>2. fields[s] \in Seq(Field)
    BY FieldTypes DEF Inv, LayoutInv
  <2> QED
    BY <2>1, <2>2 DEF Positions
<1>7. \A i \in Positions(s) : /\ element'[s][i] \in StorageOf(fields[s][i].type)
                              /\ live'[s] => element'[s][i] # Raw
  BY <1>1, <1>2, <1>4, <1>5, <1>6 DEF StorageOf
<1>8. ASSUME NEW r \in Slots
      PROVE  /\ DOMAIN element'[r] = Positions(r)
             /\ \A i \in Positions(r) :
                  /\ element'[r][i] \in StorageOf(fields[r][i].type)
                  /\ live'[r] => element'[r][i] # Raw
  <2>1. CASE r = s
    BY <1>5, <1>7, <2>1
  <2>2. CASE r # s
    BY <1>1, <1>5, <2>2
  <2> QED
    BY <2>1, <2>2
<1>9. UNCHANGED layoutVars /\ outcome' = outcome
  BY DEF Receive
<1> QED
  BY <1>5, <1>8, <1>9, OtherInv

LEMMA ConstructFromInv ==
  ASSUME Inv, NEW s \in Slots, NEW values, \A i \in Positions(s) : values[i] \in Values,
         NEW copied \in BOOLEAN, ConstructFrom(s, values, copied)
  PROVE  Inv'
<1>1. /\ live \in [Slots -> BOOLEAN]
      /\ Receive(s, values, copied)
      /\ live' = [live EXCEPT ![s] = ~threw']
  BY DEF Inv, TupleTypeOK, ConstructFrom
<1>2. /\ live' \in [Slots -> BOOLEAN]
      /\ live'[s] = ~threw'
      /\ \A r \in Slots : r # s => live'[r] = live[r]
  <2>1. threw' \in BOOLEAN
    BY <1>1 DEF Receive
  <2> QED
    BY <1>1, <2>1
<1> QED
  BY <1>1, <1>2, ReceiveInv

LEMMA PairInside ==
  ASSUME Inv, NEW s \in Slots, Len(fields[s]) = 2
  PROVE  \A i \in Positions(s) : GivenPair[i] \in Values
<1>1. fields[s] \in Seq(Field)
  BY FieldTypes DEF Inv, LayoutInv
<1>2. Positions(s) = 1..2
  BY <1>1 DEF Positions
<1> QED
  BY <1>2, ValuesAssumption

LEMMA OneInv ==
  ASSUME Inv, NEW s \in Slots, One(s)
  PROVE  Inv'
<1>1. /\ DOMAIN element = Slots
      /\ live \in [Slots -> BOOLEAN]
      /\ \A r \in Slots :
           /\ DOMAIN element[r] = Positions(r)
           /\ \A i \in Positions(r) :
                /\ element[r][i] \in StorageOf(fields[r][i].type)
                /\ live[r] => element[r][i] # Raw
  BY DEF Inv, TupleTypeOK
<1>2. 0 \in Values /\ Raw \notin Values
  BY ValuesAssumption, RawApart
<1>3. CASE DefaultConstruct(s)
  <2>1. /\ element' = [element EXCEPT ![s] = [i \in Positions(s) |-> 0]]
        /\ live' = [live EXCEPT ![s] = TRUE]
        /\ UNCHANGED <<layoutVars, outcome>> /\ threw' = FALSE
    BY <1>3 DEF DefaultConstruct
  <2>2. element'[s] = [i \in Positions(s) |-> 0] /\ \A r \in Slots : r # s => element'[r] = element[r] /\ live'[r] = live[r]
    BY <1>1, <2>1
  <2> QED
    BY <1>1, <1>2, <2>1, <2>2, OtherInv DEF StorageOf
<1>4. CASE Destroy(s)
  <2>1. /\ element' = [element EXCEPT ![s] = [i \in Positions(s) |-> Raw]]
        /\ live' = [live EXCEPT ![s] = FALSE]
        /\ UNCHANGED <<layoutVars, outcome>> /\ threw' = FALSE
    BY <1>4 DEF Destroy
  <2>2. /\ element'[s] = [i \in Positions(s) |-> Raw] /\ ~live'[s]
        /\ \A r \in Slots : r # s => element'[r] = element[r] /\ live'[r] = live[r]
    BY <1>1, <2>1
  <2> QED
    BY <1>1, <2>1, <2>2, OtherInv DEF StorageOf
<1>5. CASE WithItself(s)
  BY <1>1, <1>5, OtherInv DEF WithItself
<1>6. CASE ValueConstruct(s)
  <2> DEFINE values == [i \in Positions(s) |-> Given[fields[s][i].tag]]
  <2>1. \A i \in Positions(s) : values[i] \in Values
    BY FieldTypes, ValuesAssumption DEF Inv, LayoutInv, Positions
  <2>2. ConstructFrom(s, values, TRUE)
    BY <1>6 DEF ValueConstruct
  <2> HIDE DEF values
  <2> QED
    BY <2>1, <2>2, ConstructFromInv
<1>7. ASSUME NEW copied \in BOOLEAN, PairConstruct(s, copied)
      PROVE  Inv'
  BY <1>7, PairInside, ConstructFromInv DEF PairConstruct
<1>8. ASSUME NEW copied \in BOOLEAN, PairAssign(s, copied)
      PROVE  Inv'
  <2>1. Len(fields[s]) = 2 /\ live[s] /\ live' = live /\ Receive(s, GivenPair, copied)
    BY <1>8 DEF PairAssign
  <2> QED
    BY <1>1, <2>1, PairInside, ReceiveInv
<1> QED
  BY <1>3, <1>4, <1>5, <1>6, <1>7, <1>8 DEF One

LEMMA SwapInv ==
  ASSUME Inv, NEW d \in Slots, NEW s \in Slots, Swap(d, s)
  PROVE  Inv'
<1>1. /\ DOMAIN element = Slots
      /\ live \in [Slots -> BOOLEAN]
      /\ \A r \in Slots :
           /\ DOMAIN element[r] = Positions(r)
           /\ \A i \in Positions(r) :
                /\ element[r][i] \in StorageOf(fields[r][i].type)
                /\ live[r] => element[r][i] # Raw
  BY DEF Inv, TupleTypeOK
<1>2. /\ fields[d] = fields[s] /\ d # s /\ live[d] /\ live[s]
      /\ element' = [element EXCEPT ![d] = element[s], ![s] = element[d]]
      /\ threw' = FALSE /\ live' = live /\ outcome' = outcome /\ UNCHANGED layoutVars
  BY DEF Swap, SameClass
<1>3. /\ DOMAIN element' = Slots
      /\ element'[d] = element[s] /\ element'[s] = element[d]
      /\ \A r \in Slots : r # d /\ r # s => element'[r] = element[r]
  BY <1>1, <1>2
<1>4. Positions(d) = Positions(s)
  BY <1>2 DEF Positions
<1>5. \A i \in Positions(d) : fields[d][i].type = fields[s][i].type
  BY <1>2
<1>6. ASSUME NEW r \in Slots
      PROVE  /\ DOMAIN element'[r] = Positions(r)
             /\ \A i \in Positions(r) :
                  /\ element'[r][i] \in StorageOf(fields[r][i].type)
                  /\ live'[r] => element'[r][i] # Raw
  <2>1. CASE r = d
    BY <1>1, <1>2, <1>3, <1>4, <1>5, <2>1
  <2>2. CASE r = s
    BY <1>1, <1>2, <1>3, <1>4, <1>5, <2>2
  <2>3. CASE r # d /\ r # s
    BY <1>1, <1>2, <1>3, <2>3
  <2> QED
    BY <2>1, <2>2, <2>3
<1>7. live' \in [Slots -> BOOLEAN] /\ threw' \in BOOLEAN
  BY <1>1, <1>2
<1> QED
  BY <1>2, <1>3, <1>6, <1>7, OtherInv

LEMMA Init_Inv == Init => Inv
<1> SUFFICES ASSUME Init PROVE Inv
  OBVIOUS
<1>1. LayoutInv
  BY LayoutInit_Inv DEF Init
<1>2. KindsApart
  BY DEF Init, KindsApart
<1>3. TupleTypeOK
  BY <1>1 DEF Init, TupleTypeOK, LayoutInv, StorageOf
<1> QED
  BY <1>1, <1>2, <1>3 DEF Inv

LEMMA Next_Inv == Inv /\ [Next]_vars => Inv'
<1> SUFFICES ASSUME Inv, [Next]_vars PROVE Inv'
  OBVIOUS
<1>1. CASE Compile
  <2>1. PICK s \in Slots : LayOut(s) /\ UNCHANGED tupleVars
    BY <1>1 DEF Compile
  <2>2. LayoutInv'
    BY <2>1, LayOut_Inv DEF Inv
  <2>3. fields' = fields
    BY <2>1 DEF LayOut
  <2> QED
    BY <2>1, <2>2, <2>3 DEF Inv, TupleTypeOK, KindsApart, IsMap, Positions, StorageOf, tupleVars
<1>2. ASSUME NEW s \in Slots, One(s) PROVE Inv'
  BY <1>2, OneInv
<1>3. ASSUME NEW d \in Slots, NEW s \in Slots, Two(d, s) PROVE Inv'
  BY <1>3, SwapInv, ConstructSound, ConvertingConstructSound, SubMapSound,
     AssignSameSound, ConvertingAssignSound DEF Two
<1>4. CASE UNCHANGED vars
  <2>1. UNCHANGED <<layoutVars, live, element, threw, outcome>>
    BY <1>4 DEF vars, tupleVars
  <2> QED
    BY <2>1 DEF layoutVars, Inv, LayoutInv, Described, TupleTypeOK, KindsApart, IsMap, Positions, StorageOf
<1> QED
  BY <1>1, <1>2, <1>3, <1>4 DEF Next

-----------------------------------------------------------------------------
(* Theorems.                                                                *)

LEMMA Invariance == Spec => []Inv
<1> QED
  BY Init_Inv, Next_Inv, PTL DEF Spec

\* Every variable has its types and, in its lifetime, all its elements, for any
\* classes of tuples: construction, assignment, swap and destruction.
THEOREM TupleTypeCorrect == Spec => []TupleTypeOK
<1>1. Inv => TupleTypeOK
  BY DEF Inv
<1> QED
  BY <1>1, Invariance, PTL

\* The offsets of TupleTypeInfoSequence keep the elements in order, apart, inside
\* of data_m and aligned, for any number of element types of any size.
THEOREM LayoutSoundHolds == Spec => []LayoutSound
<1>1. Inv => LayoutSound
  BY LayoutInv_Sound DEF Inv
<1> QED
  BY <1>1, Invariance, PTL

\* Copies, moves, conversions and sub-maps pair elements by tag, for any maps
\* that are not Mispaired: constructors and assignments of TupleMap and Tuple.
THEOREM TransfersByTagHolds == Spec => TransfersByTag
<1> DEFINE Pairwise ==
      \A d, s \in Slots : \A copied \in BOOLEAN :
        /\ \/ Construct(d, s, copied)
           \/ AssignSame(d, s, copied)
           \/ SubMap(d, s, copied)
           \/ Converting(d, s, copied) /\ ~Mispaired(d, s)
        /\ ~threw'
        => FromItsTag(d, s)
<1>1. Inv => Pairwise
  BY ConstructSound, AssignSameSound, SubMapSound, ConvertingConstructSound,
     ConvertingAssignSound DEF Converting
<1>2. Inv /\ [Next]_vars => [Pairwise]_vars
  BY <1>1
<1> QED
  BY <1>2, Invariance, PTL DEF Spec, TransfersByTag

-----------------------------------------------------------------------------
(* Sums of the first values of a sequence.                                  *)

\* The fold of PartialSum: its value from each position on.
SumsFrom(size, seq, sum) ==
  /\ sum \in [1..(Len(seq) + 1) -> Nat]
  /\ sum[Len(seq) + 1] = 0
  /\ \A i \in 1..Len(seq) : sum[i] = (IF i <= size THEN seq[i] ELSE 0) + sum[i + 1]

LEMMA PartialSumFold ==
  ASSUME NEW seq \in Seq(Nat), NEW size \in Int
  PROVE  \E sum : SumsFrom(size, seq, sum) /\ PartialSum(size, seq) = sum[1]
<1> DEFINE n == Len(seq)
           step == [i \in 1..n |-> [x \in Nat |-> (IF i <= size THEN seq[i] ELSE 0) + x]]
           Is(sum) == sum = [i \in 1..(n + 1) |->
                               IF i = n + 1 THEN 0
                               ELSE (IF i <= size THEN seq[i] ELSE 0) + sum[i + 1]]
<1>1. n \in Nat /\ DOMAIN seq = 1..n /\ \A i \in 1..n : seq[i] \in Nat
  OBVIOUS
<1>2. step \in Steps(n, Nat)
  BY <1>1 DEF Steps
<1>3. PICK f : Follows(f, n, Nat, 0, step)
  <2>1. 0 \in Nat /\ n \in Nat
    BY <1>1
  <2> HIDE DEF n, step
  <2> QED
    BY <1>2, <2>1, RecursionDownwards, Zenon
<1>4. /\ f \in [1..(n + 1) -> Nat]
      /\ f[n + 1] = 0
      /\ \A i \in 1..n : f[i] = step[i][f[i + 1]]
  BY <1>3 DEF Follows
<1>11. Is(f)
  <2> SUFFICES ASSUME NEW i \in 1..(n + 1)
               PROVE  f[i] = IF i = n + 1 THEN 0 ELSE (IF i <= size THEN seq[i] ELSE 0) + f[i + 1]
    BY <1>4
  <2>1. CASE i = n + 1
    BY <2>1, <1>4
  <2>2. CASE i # n + 1
    <3>1. i \in 1..n /\ i + 1 \in 1..(n + 1)
      BY <2>2, <1>1
    <3> QED
      BY <3>1, <2>2, <1>1, <1>4
  <2> QED
    BY <2>1, <2>2
<1> DEFINE sum == CHOOSE g : Is(g)
<1>5. Is(sum)
  <2> HIDE DEF Is
  <2> QED
    BY <1>11
<1>6. PartialSum(size, seq) = sum[1]
  BY DEF PartialSum
<1>7. \A i \in 1..(n + 1) : sum[i] = IF i = n + 1 THEN 0 ELSE (IF i <= size THEN seq[i] ELSE 0) + sum[i + 1]
  <2> HIDE DEF sum
  <2> QED
    BY <1>5
<1>8. DOMAIN sum = 1..(n + 1) /\ sum = [i \in 1..(n + 1) |-> sum[i]]
  <2> HIDE DEF sum
  <2> QED
    BY <1>5
<1> HIDE DEF sum, Is
<1>9. \A i \in 1..(n + 1) : sum[i] \in Nat
  <2> DEFINE S == {i \in 1..(n + 1) : sum[i] \in Nat}
  <2>1. n + 1 \in S
    BY <1>1, <1>7
  <2>2. ASSUME NEW i \in 1..n, i + 1 \in S
        PROVE  i \in S
    <3>1. i \in 1..(n + 1) /\ i # n + 1
      BY <1>1
    <3> QED
      BY <3>1, <2>2, <1>1, <1>7
  <2> HIDE DEF S
  <2>3. 1..(n + 1) \subseteq S
    BY <1>1, <2>1, <2>2, Downwards
  <2> QED
    BY <2>3 DEF S
<1>10. SumsFrom(size, seq, sum)
  <2>1. sum \in [1..(n + 1) -> Nat]
    BY <1>8, <1>9
  <2>2. \A i \in 1..n : i \in 1..(n + 1) /\ i # n + 1
    BY <1>1
  <2>3. n + 1 \in 1..(n + 1)
    BY <1>1
  <2> QED
    BY <2>1, <2>2, <2>3, <1>1, <1>7 DEF SumsFrom
<1> QED
  BY <1>6, <1>10

\* Nothing is before the first position, and each adds its value.
LEMMA PartialSumStep ==
  ASSUME NEW seq \in Seq(Nat)
  PROVE  /\ PartialSum(0, seq) = 0
         /\ \A k \in 1..Len(seq) : PartialSum(k, seq) = PartialSum(k - 1, seq) + seq[k]
         /\ \A k \in Int : PartialSum(k, seq) \in Nat
<1> DEFINE n == Len(seq)
<1>1. n \in Nat /\ DOMAIN seq = 1..n /\ \A i \in 1..n : seq[i] \in Nat
  OBVIOUS
<1>2. PartialSum(0, seq) = 0
  <2>1. PICK sum : SumsFrom(0, seq, sum) /\ PartialSum(0, seq) = sum[1]
    BY PartialSumFold
  <2> DEFINE S == {i \in 1..(n + 1) : sum[i] = 0}
  <2>2. n + 1 \in S
    BY <1>1, <2>1 DEF SumsFrom
  <2>3. ASSUME NEW i \in 1..n, i + 1 \in S
        PROVE  i \in S
    BY <1>1, <2>1, <2>3 DEF SumsFrom
  <2> HIDE DEF S
  <2>4. 1..(n + 1) \subseteq S
    BY <1>1, <2>2, <2>3, Downwards
  <2> QED
    BY <1>1, <2>1, <2>4 DEF S
<1>3. ASSUME NEW k \in 1..n
      PROVE  PartialSum(k, seq) = PartialSum(k - 1, seq) + seq[k]
  <2>1. k \in Int /\ k - 1 \in Int /\ k \in Nat
    BY <1>1
  <2>2. PICK sum : SumsFrom(k, seq, sum) /\ PartialSum(k, seq) = sum[1]
    BY <2>1, PartialSumFold
  <2>3. PICK less : SumsFrom(k - 1, seq, less) /\ PartialSum(k - 1, seq) = less[1]
    BY <2>1, PartialSumFold
  <2> DEFINE S == {i \in 1..(n + 1) : sum[i] = less[i] + (IF i <= k THEN seq[k] ELSE 0)}
  <2>4. n + 1 \in S
    BY <1>1, <2>2, <2>3 DEF SumsFrom
  <2>5. ASSUME NEW i \in 1..n, i + 1 \in S
        PROVE  i \in S
    <3>1. /\ sum[i] \in Nat /\ less[i] \in Nat /\ sum[i + 1] \in Nat /\ less[i + 1] \in Nat
          /\ sum[i] = (IF i <= k THEN seq[i] ELSE 0) + sum[i + 1]
          /\ less[i] = (IF i <= k - 1 THEN seq[i] ELSE 0) + less[i + 1]
          /\ i \in 1..(n + 1)
      <4>1. i \in 1..(n + 1) /\ i + 1 \in 1..(n + 1) /\ i \in 1..n
        BY <1>1
      <4>2. sum \in [1..(n + 1) -> Nat] /\ less \in [1..(n + 1) -> Nat]
        BY <2>2, <2>3 DEF SumsFrom
      <4>3. sum[i] = (IF i <= k THEN seq[i] ELSE 0) + sum[i + 1]
        BY <4>1, <2>2 DEF SumsFrom
      <4>4. less[i] = (IF i <= k - 1 THEN seq[i] ELSE 0) + less[i + 1]
        BY <4>1, <2>3 DEF SumsFrom
      <4> HIDE DEF n
      <4> QED
        BY <4>1, <4>2, <4>3, <4>4
    <3>2. sum[i + 1] = less[i + 1] + (IF i + 1 <= k THEN seq[k] ELSE 0)
      BY <2>5
    <3>3. seq[i] \in Nat /\ seq[k] \in Nat
      BY <1>1
    <3>5. i \in Int /\ k \in Int
      BY <1>1
    <3> HIDE DEF n
    <3>4. sum[i] = less[i] + (IF i <= k THEN seq[k] ELSE 0)
      <4>1. CASE i < k
        BY <4>1, <3>1, <3>2, <3>3, <3>5
      <4>2. CASE i = k
        BY <4>2, <3>1, <3>2, <3>3, <3>5
      <4>3. CASE i > k
        BY <4>3, <3>1, <3>2, <3>3, <3>5
      <4> QED
        BY <3>5, <4>1, <4>2, <4>3
    <3> QED
      BY <3>1, <3>4
  <2> HIDE DEF S
  <2>6. 1..(n + 1) \subseteq S
    BY <1>1, <2>4, <2>5, Downwards
  <2>7. 1 \in 1..(n + 1)
    BY <1>1
  <2>8. sum[1] = less[1] + seq[k]
    BY <2>1, <2>6, <2>7 DEF S
  <2> QED
    BY <2>2, <2>3, <2>8
<1>4. ASSUME NEW k \in Int
      PROVE  PartialSum(k, seq) \in Nat
  <2>1. PICK sum : SumsFrom(k, seq, sum) /\ PartialSum(k, seq) = sum[1]
    BY PartialSumFold
  <2> QED
    BY <1>1, <2>1 DEF SumsFrom
<1> QED
  BY <1>2, <1>3, <1>4

\* The sums do not decrease.
LEMMA PartialSumMonotone ==
  ASSUME NEW seq \in Seq(Nat), NEW k \in 0..Len(seq), NEW m \in k..Len(seq)
  PROVE  PartialSum(k, seq) <= PartialSum(m, seq)
<1> DEFINE n == Len(seq)
           S == {i \in Nat : i + k <= n => PartialSum(k, seq) <= PartialSum(k + i, seq)}
<1>1. 0 \in S
  BY PartialSumStep
<1>2. ASSUME NEW i \in Nat, i \in S
      PROVE  i + 1 \in S
  <2> SUFFICES ASSUME (i + 1) + k <= n
               PROVE  PartialSum(k, seq) <= PartialSum(k + (i + 1), seq)
    OBVIOUS
  <2>1. k + (i + 1) \in 1..n /\ (k + (i + 1)) - 1 = k + i
    OBVIOUS
  <2>2. PartialSum(k + (i + 1), seq) = PartialSum(k + i, seq) + seq[k + (i + 1)]
    BY <2>1, PartialSumStep
  <2>3. seq[k + (i + 1)] \in Nat /\ PartialSum(k, seq) \in Nat /\ PartialSum(k + i, seq) \in Nat
    <3>1. k \in Int /\ k + i \in Int /\ k + (i + 1) \in 1..Len(seq)
      OBVIOUS
    <3>2. seq[k + (i + 1)] \in Nat
      BY <3>1
    <3> QED
      BY <3>1, <3>2, PartialSumStep
  <2>4. PartialSum(k, seq) <= PartialSum(k + i, seq)
    BY <1>2
  <2> QED
    BY <2>2, <2>3, <2>4
<1> HIDE DEF S
<1>3. Nat \subseteq S
  BY <1>1, <1>2, SetInduction
<1>4. m - k \in Nat /\ (m - k) + k <= n /\ k + (m - k) = m
  OBVIOUS
<1> QED
  BY <1>3, <1>4 DEF S

-----------------------------------------------------------------------------
(* Sequences of sequences put one behind the other.                         *)

Sizes(seqs) == [k \in DOMAIN seqs |-> Len(seqs[k])]

\* Each element is where the sizes of the sequences before its own say.
Located(seqs, flat, n) ==
  \A k \in 1..n : \A j \in 1..Len(seqs[k]) :
    flat[PartialSum(k - 1, Sizes(seqs)) + j] = seqs[k][j]

LEMMA FlattenLocated ==
  ASSUME NEW T, NEW seqs \in Seq(Seq(T)), seqs # <<>>
  PROVE  /\ FlattenSeq(seqs) \in Seq(T)
         /\ Len(FlattenSeq(seqs)) = PartialSum(Len(seqs), Sizes(seqs))
         /\ Located(seqs, FlattenSeq(seqs), Len(seqs))
<1> DEFINE n == Len(seqs)
           sizes == Sizes(seqs)
<1>1. /\ n \in Nat \ {0} /\ DOMAIN seqs = 1..n
      /\ \A i \in 1..n : seqs[i] \in Seq(T) /\ Len(seqs[i]) \in Nat
  OBVIOUS
<1>2. sizes \in Seq(Nat) /\ Len(sizes) = n /\ \A i \in 1..n : sizes[i] = Len(seqs[i])
  BY <1>1 DEF Sizes
<1>3. PICK f : FlattenedUpTo(T, seqs, f) /\ FlattenSeq(seqs) = f[n]
  BY FlattenFold
<1> HIDE DEF n, sizes
<1>4. /\ f \in [1..n -> Seq(T)]
      /\ f[1] = seqs[1]
      /\ \A i \in 1..(n - 1) : f[i + 1] = f[i] \o seqs[i + 1]
  BY <1>3 DEF FlattenedUpTo, n
<1>5. /\ PartialSum(0, sizes) = 0
      /\ \A k \in 1..n : PartialSum(k, sizes) = PartialSum(k - 1, sizes) + sizes[k]
      /\ \A k \in Int : PartialSum(k, sizes) \in Nat
  BY <1>2, PartialSumStep
<1> DEFINE S == {i \in 1..n : Len(f[i]) = PartialSum(i, sizes) /\ Located(seqs, f[i], i)}
<1>6. 1 \in S
  <2>1. 1 \in 1..n /\ 1 - 1 = 0
    BY <1>1
  <2>2. PartialSum(1, sizes) = Len(seqs[1])
    <3>1. PartialSum(1, sizes) = PartialSum(1 - 1, sizes) + sizes[1]
      BY <2>1, <1>5
    <3>2. sizes[1] = Len(seqs[1]) /\ Len(seqs[1]) \in Nat
      BY <2>1, <1>1, <1>2
    <3> QED
      BY <2>1, <3>1, <3>2, <1>5
  <2>3. Located(seqs, f[1], 1)
    <3> SUFFICES ASSUME NEW j \in 1..Len(seqs[1])
                 PROVE  f[1][PartialSum(1 - 1, sizes) + j] = seqs[1][j]
      BY DEF Located, sizes
    <3>1. PartialSum(1 - 1, sizes) + j = j
      BY <2>1, <1>5
    <3> QED
      BY <3>1, <1>4
  <2> QED
    BY <2>1, <2>2, <2>3, <1>4
<1>7. ASSUME NEW i \in 1..(n - 1), i \in S
      PROVE  i + 1 \in S
  <2>1. i \in 1..n /\ i + 1 \in 1..n /\ (i + 1) - 1 = i /\ i \in Int
    BY <1>1
  <2> DEFINE next == seqs[i + 1]
  <2>2. f[i] \in Seq(T) /\ next \in Seq(T) /\ f[i + 1] = f[i] \o next
    BY <2>1, <1>1, <1>4
  <2>3. Len(f[i]) = PartialSum(i, sizes) /\ Located(seqs, f[i], i)
    BY <1>7
  <2>4. PartialSum(i + 1, sizes) = PartialSum(i, sizes) + Len(next)
    <3>1. PartialSum(i + 1, sizes) = PartialSum((i + 1) - 1, sizes) + sizes[i + 1]
      BY <2>1, <1>5
    <3> QED
      BY <2>1, <3>1, <1>2
  <2>5. Len(f[i + 1]) = PartialSum(i + 1, sizes)
    <3> HIDE DEF next
    <3> QED
      BY <2>2, <2>3, <2>4
  <2>6. ASSUME NEW k \in 1..(i + 1), NEW j \in 1..Len(seqs[k])
        PROVE  f[i + 1][PartialSum(k - 1, sizes) + j] = seqs[k][j]
    <3>1. k \in 1..n /\ k - 1 \in Int /\ j \in Nat \ {0} /\ j <= Len(seqs[k])
      BY <1>1
    <3>2. PartialSum(k - 1, sizes) \in Nat
      BY <3>1, <1>5
    <3>3. CASE k = i + 1
      <4>1. PartialSum(k - 1, sizes) = Len(f[i]) /\ seqs[k] = next
        BY <2>1, <2>3, <3>3
      <4> HIDE DEF next
      <4> QED
        BY <4>1, <3>1, <2>2
    <3>4. CASE k # i + 1
      <4>1. k \in 1..i
        BY <3>4
      <4>2. f[i][PartialSum(k - 1, sizes) + j] = seqs[k][j]
        BY <4>1, <2>3 DEF Located, sizes
      <4>3. PartialSum(k, sizes) = PartialSum(k - 1, sizes) + Len(seqs[k])
        BY <3>1, <1>2, <1>5
      <4>4. PartialSum(k, sizes) <= PartialSum(i, sizes)
        <5>1. k \in 0..Len(sizes) /\ i \in k..Len(sizes)
          BY <4>1, <2>1, <1>1, <1>2
        <5> QED
          BY <5>1, <1>2, PartialSumMonotone
      <4>5. PartialSum(k - 1, sizes) + j \in 1..Len(f[i])
        <5>1. PartialSum(k, sizes) \in Nat /\ PartialSum(i, sizes) \in Nat
          BY <1>5, <3>1, <2>1
        <5>2. Len(seqs[k]) \in Nat
          BY <1>1, <3>1
        <5> QED
          BY <5>1, <5>2, <4>3, <4>4, <3>1, <3>2, <2>3
      <4> HIDE DEF next
      <4> QED
        BY <4>2, <4>5, <2>2
    <3> QED
      BY <3>3, <3>4
  <2>7. Located(seqs, f[i + 1], i + 1)
    BY <2>6 DEF Located, sizes
  <2> QED
    BY <2>1, <2>5, <2>7
<1> HIDE DEF S
<1>8. 1..n \subseteq S
  BY <1>1, <1>6, <1>7, Upwards
<1>9. n \in 1..n
  BY <1>1
<1>10. f[n] \in Seq(T)
  BY <1>4, <1>9
<1> QED
  BY <1>3, <1>8, <1>9, <1>10 DEF S, n, sizes

\* And every position of the result is one of those.
LEMMA EveryPositionLocated ==
  ASSUME NEW sizes \in Seq(Nat), NEW i \in 1..PartialSum(Len(sizes), sizes)
  PROVE  \E k \in 1..Len(sizes) : \E j \in 1..sizes[k] : i = PartialSum(k - 1, sizes) + j
<1> DEFINE n == Len(sizes)
           S == {m \in Nat : m <= n => (i <= PartialSum(m, sizes) =>
                   \E k \in 1..n : \E j \in 1..sizes[k] : i = PartialSum(k - 1, sizes) + j)}
<1>1. n \in Nat /\ \A k \in 1..n : sizes[k] \in Nat
  OBVIOUS
<1>2. /\ PartialSum(0, sizes) = 0
      /\ \A k \in 1..n : PartialSum(k, sizes) = PartialSum(k - 1, sizes) + sizes[k]
      /\ \A k \in Int : PartialSum(k, sizes) \in Nat
  BY PartialSumStep
<1>3. i \in Nat \ {0} /\ i <= PartialSum(n, sizes)
  BY <1>1, <1>2
<1> HIDE DEF n
<1>4. 0 \in S
  BY <1>2, <1>3
<1>5. ASSUME NEW m \in Nat, m \in S
      PROVE  m + 1 \in S
  <2> SUFFICES ASSUME m + 1 <= n, i <= PartialSum(m + 1, sizes)
               PROVE  \E k \in 1..n : \E j \in 1..sizes[k] : i = PartialSum(k - 1, sizes) + j
    OBVIOUS
  <2>1. CASE i <= PartialSum(m, sizes)
    BY <1>1, <1>5, <2>1
  <2>2. CASE ~(i <= PartialSum(m, sizes))
    <3>1. m + 1 \in 1..n /\ (m + 1) - 1 = m /\ m \in Int
      BY <1>1
    <3>2. PartialSum(m + 1, sizes) = PartialSum(m, sizes) + sizes[m + 1]
      BY <3>1, <1>2
    <3>3. PartialSum(m, sizes) \in Nat /\ sizes[m + 1] \in Nat
      BY <3>1, <1>1, <1>2
    <3>4. i - PartialSum(m, sizes) \in 1..sizes[m + 1]
      BY <3>2, <3>3, <2>2, <1>3
    <3>5. i = PartialSum((m + 1) - 1, sizes) + (i - PartialSum(m, sizes))
      BY <3>1, <3>3, <1>3
    <3> QED
      BY <3>1, <3>4, <3>5
  <2> QED
    BY <2>1, <2>2
<1> HIDE DEF S
<1>6. n \in S
  BY <1>1, <1>4, <1>5, SetInduction
<1> QED
  BY <1>1, <1>3, <1>6 DEF S, n

-----------------------------------------------------------------------------
(* IntegerSequenceCat, which takes two sequences at a time.                 *)

LEMMA IntegerSequenceCatIsFlatten ==
  ASSUME NEW T, NEW seqs \in Seq(Seq(T)), seqs # <<>>
  PROVE  IntegerSequenceCat(seqs) = FlattenSeq(seqs)
<1> DEFINE n == Len(seqs)
           X == Seq(T)
           step == [i \in 1..n |-> [x \in X |-> seqs[i] \o x]]
           Is(c) == c = [k \in 1..n |->
                           IF k = n THEN seqs[n]
                           ELSE seqs[k] \o seqs[k + 1] \o (IF k + 1 = n THEN <<>> ELSE c[k + 2])]
<1>1. n \in Nat \ {0} /\ DOMAIN seqs = 1..n /\ \A i \in 1..n : seqs[i] \in X
  OBVIOUS
<1>2. step \in Steps(n, X)
  BY <1>1 DEF Steps
<1>3. PICK h : Follows(h, n, X, <<>>, step)
  <2>1. <<>> \in X /\ n \in Nat
    BY <1>1
  <2> HIDE DEF n, X, step
  <2> QED
    BY <1>2, <2>1, RecursionDownwards
<1>4. h \in [1..(n + 1) -> X] /\ h[n + 1] = <<>>
  BY <1>3 DEF Follows
<1>5. ASSUME NEW i \in 1..n
      PROVE  h[i] = seqs[i] \o h[i + 1]
  <2>1. h[i] = step[i][h[i + 1]]
    BY <1>3 DEF Follows
  <2>2. i + 1 \in 1..(n + 1)
    BY <1>1
  <2>3. h[i + 1] \in X
    BY <2>2, <1>4
  <2> QED
    BY <2>1, <2>3
<1> HIDE DEF n
<1>6. Is([k \in 1..n |-> h[k]])
  <2> DEFINE g == [k \in 1..n |-> h[k]]
  <2> SUFFICES ASSUME NEW k \in 1..n
               PROVE  g[k] = IF k = n THEN seqs[n]
                             ELSE seqs[k] \o seqs[k + 1] \o (IF k + 1 = n THEN <<>> ELSE g[k + 2])
    OBVIOUS
  <2>1. CASE k = n
    <3>1. seqs[n] \in Seq(T)
      BY <1>1
    <3>2. seqs[n] \o <<>> = seqs[n]
      BY <3>1
    <3> QED
      BY <3>2, <2>1, <1>1, <1>4, <1>5
  <2>2. CASE k # n
    <3>1. k + 1 \in 1..n /\ k \in 1..(n + 1) /\ k + 2 \in 1..(n + 1) /\ (k + 1) + 1 = k + 2
      BY <2>2, <1>1
    <3>2. h[k] = seqs[k] \o (seqs[k + 1] \o h[k + 2])
      BY <3>1, <1>5
    <3>3. seqs[k] \in Seq(T) /\ seqs[k + 1] \in Seq(T) /\ h[k + 2] \in Seq(T)
      BY <3>1, <1>1, <1>4
    <3>4. h[k] = (seqs[k] \o seqs[k + 1]) \o h[k + 2]
      <4>1. \A a, b, c \in Seq(T) : a \o (b \o c) = (a \o b) \o c
        OBVIOUS
      <4> QED
        BY <4>1, <3>2, <3>3
    <3>5. h[k + 2] = IF k + 1 = n THEN <<>> ELSE g[k + 2]
      <4>1. CASE k + 1 = n
        <5>1. k + 2 = n + 1
          BY <4>1, <1>1
        <5> QED
          BY <5>1, <4>1, <1>4
      <4>2. CASE k + 1 # n
        <5>1. k + 2 \in 1..n
          BY <4>2, <3>1, <1>1
        <5> QED
          BY <5>1, <4>2
      <4> QED
        BY <4>1, <4>2
    <3>6. g[k] = h[k]
      OBVIOUS
    <3> HIDE DEF g
    <3> QED
      BY <3>4, <3>5, <3>6, <2>2
  <2> QED
    BY <2>1, <2>2
<1> DEFINE cat == CHOOSE c : Is(c)
<1>7. Is(cat)
  <2> HIDE DEF Is
  <2> QED
    BY <1>6
<1>8. IntegerSequenceCat(seqs) = cat[1]
  BY DEF IntegerSequenceCat, n
<1> HIDE DEF cat
<1>9. \A k \in 1..n : cat[k] = IF k = n THEN seqs[n]
        ELSE seqs[k] \o seqs[k + 1] \o (IF k + 1 = n THEN <<>> ELSE cat[k + 2])
  BY <1>7
<1> HIDE DEF Is
\* The sequences from k on, by twos or one by one.
<1>10. cat[1] = h[1]
  <2> DEFINE S == {k \in 1..(n + 1) : \A m \in k..n : cat[m] = h[m]}
  <2>1. n + 1 \in S
    BY <1>1
  <2>2. ASSUME NEW k \in 1..n, k + 1 \in S
        PROVE  k \in S
    <3>1. k \in 1..(n + 1)
      BY <1>1
    <3>2. cat[k] = h[k]
      <4>1. CASE k = n
        <5>1. seqs[n] \in Seq(T)
          BY <1>1
        <5>2. seqs[n] \o <<>> = seqs[n]
          BY <5>1
        <5> QED
          BY <5>2, <4>1, <1>1, <1>4, <1>5, <1>9
      <4>2. CASE k # n
        <5>1. /\ k + 1 \in 1..n /\ k + 2 \in 1..(n + 1) /\ (k + 1) + 1 = k + 2
              /\ k + 1 # n => k + 2 \in (k + 1)..n
          BY <4>2, <1>1
        <5>2. (IF k + 1 = n THEN <<>> ELSE cat[k + 2]) = h[k + 2]
          <6>1. CASE k + 1 = n
            <7>1. k + 2 = n + 1
              BY <6>1, <1>1
            <7> QED
              BY <7>1, <6>1, <1>4
          <6>2. CASE k + 1 # n
            <7>1. cat[k + 2] = h[k + 2]
              BY <6>2, <5>1, <2>2
            <7> QED
              BY <7>1, <6>2
          <6> QED
            BY <6>1, <6>2
        <5>3. cat[k] = (seqs[k] \o seqs[k + 1]) \o h[k + 2]
          BY <5>2, <4>2, <1>9
        <5>4. h[k] = seqs[k] \o (seqs[k + 1] \o h[k + 2])
          BY <5>1, <1>5
        <5>5. seqs[k] \in Seq(T) /\ seqs[k + 1] \in Seq(T) /\ h[k + 2] \in Seq(T)
          BY <5>1, <1>1, <1>4
        <5>6. \A a, b, c \in Seq(T) : a \o (b \o c) = (a \o b) \o c
          OBVIOUS
        <5> QED
          BY <5>3, <5>4, <5>5, <5>6
      <4> QED
        BY <4>1, <4>2
    <3>3. \A m \in k..n : m = k \/ m \in (k + 1)..n
      BY <1>1
    <3> QED
      BY <3>1, <3>2, <3>3, <2>2
  <2> HIDE DEF S
  <2>3. 1..(n + 1) \subseteq S
    BY <1>1, <2>1, <2>2, Downwards
  <2>4. 1 \in 1..(n + 1) /\ 1 \in 1..n
    BY <1>1
  <2> QED
    BY <2>3, <2>4 DEF S
\* The ones before k and those from k on are always the same together.
<1>11. FlattenSeq(seqs) = h[1]
  <2>1. PICK f : FlattenedUpTo(T, seqs, f) /\ FlattenSeq(seqs) = f[n]
    BY FlattenFold DEF n
  <2>2. /\ f \in [1..n -> Seq(T)] /\ f[1] = seqs[1]
        /\ \A i \in 1..(n - 1) : f[i + 1] = f[i] \o seqs[i + 1]
    BY <2>1 DEF FlattenedUpTo, n
  <2> DEFINE S == {i \in 1..n : f[i] \o h[i + 1] = h[1]}
  <2>3. 1 \in S
    <3>1. 1 \in 1..n
      BY <1>1
    <3>2. h[1] = seqs[1] \o h[1 + 1]
      BY <3>1, <1>5
    <3> QED
      BY <3>1, <3>2, <2>2
  <2>4. ASSUME NEW i \in 1..(n - 1), i \in S
        PROVE  i + 1 \in S
    <3>1. i \in 1..n /\ i + 1 \in 1..n /\ (i + 1) + 1 \in 1..(n + 1)
      BY <1>1
    <3>2. f[i] \in Seq(T) /\ seqs[i + 1] \in Seq(T) /\ h[(i + 1) + 1] \in Seq(T)
      BY <3>1, <1>1, <1>4, <2>2
    <3>3. h[i + 1] = seqs[i + 1] \o h[(i + 1) + 1]
      BY <3>1, <1>5
    <3>4. f[i + 1] = f[i] \o seqs[i + 1]
      BY <2>2
    <3>5. f[i] \o h[i + 1] = h[1]
      BY <2>4
    <3>6. \A a, b, c \in Seq(T) : a \o (b \o c) = (a \o b) \o c
      OBVIOUS
    <3>8. f[i] \o (seqs[i + 1] \o h[(i + 1) + 1]) = (f[i] \o seqs[i + 1]) \o h[(i + 1) + 1]
      BY <3>2, <3>6
    <3>7. f[i + 1] \o h[(i + 1) + 1] = h[1]
      BY <3>3, <3>4, <3>5, <3>8
    <3> QED
      BY <3>1, <3>7
  <2> HIDE DEF S
  <2>5. 1..n \subseteq S
    BY <1>1, <2>3, <2>4, Upwards
  <2>6. n \in 1..n
    BY <1>1
  <2>7. f[n] \o <<>> = h[1] /\ f[n] \in Seq(T)
    BY <2>2, <2>5, <2>6, <1>4 DEF S
  <2>8. f[n] \o <<>> = f[n]
    BY <2>7
  <2> QED
    BY <2>1, <2>7, <2>8
<1> QED
  BY <1>8, <1>10, <1>11

-----------------------------------------------------------------------------
(* tupleCat and apply.                                                      *)

\* The tuple and the place that the compiler computes for each element of the
\* concatenation, and the element there.
LEMMA ConcatenatedIsFlatten ==
  ASSUME NEW T, NEW tuples \in Seq(Seq(T)), tuples # <<>>
  PROVE  Concatenated(tuples) = FlattenSeq(tuples)
<1> DEFINE n == Len(tuples)
           sizes == Sizes(tuples)
           total == PartialSum(n, sizes)
           result == ResultSequence(sizes)
           ends == InclusiveScan(sizes)
           outer == OuterSequence(sizes)
           inner == InnerSequence(sizes)
           flat == FlattenSeq(tuples)
<1>1. /\ n \in Nat \ {0} /\ DOMAIN tuples = 1..n
      /\ \A k \in 1..n : tuples[k] \in Seq(T) /\ Len(tuples[k]) \in Nat
  OBVIOUS
<1>2. sizes \in Seq(Nat) /\ Len(sizes) = n /\ \A k \in 1..n : sizes[k] = Len(tuples[k])
  BY <1>1 DEF Sizes
<1>3. flat \in Seq(T) /\ Len(flat) = total /\ Located(tuples, flat, n)
  BY FlattenLocated
<1> HIDE DEF n, sizes, flat
<1>4. /\ PartialSum(0, sizes) = 0
      /\ \A k \in 1..n : PartialSum(k, sizes) = PartialSum(k - 1, sizes) + sizes[k]
      /\ \A k \in Int : PartialSum(k, sizes) \in Nat
  BY <1>2, PartialSumStep
<1>5. total \in Nat
  BY <1>1, <1>4
<1> HIDE DEF total
<1>6. result = [i \in 1..total |-> i - 1]
  BY <1>2 DEF ResultSequence, total
<1>7. ends = [k \in 1..n |-> PartialSum(k, sizes)]
  <2>1. DOMAIN sizes = 1..n
    BY <1>2
  <2>2. ExclusiveScan(sizes) = [k \in 1..n |-> PartialSum(k - 1, sizes)]
    BY <2>1 DEF ExclusiveScan
  <2>3. ends = [k \in 1..n |-> PartialSum(k - 1, sizes) + sizes[k]]
    BY <2>2 DEF InclusiveScan, Plus
  <2> HIDE DEF ends
  <2> QED
    BY <2>3, <1>4
<1>8. outer = [i \in 1..total |-> CountLessOrEqual(i - 1, ends)]
  BY <1>6 DEF OuterSequence
<1> HIDE DEF ends
<1>9. inner = [i \in 1..total |-> (i - 1) - ExclusiveScan(sizes)[outer[i] + 1]]
  BY <1>6, <1>8 DEF InnerSequence, Minus, Mapped
<1>10. Concatenated(tuples) = [i \in 1..total |-> tuples[outer[i] + 1][inner[i] + 1]]
  <2>1. outer = OuterSequence(sizes) /\ inner = InnerSequence(sizes) /\ DOMAIN outer = 1..total
    BY <1>8
  <2>2. Concatenated(tuples) = [i \in DOMAIN OuterSequence(sizes) |->
            tuples[OuterSequence(sizes)[i] + 1][InnerSequence(sizes)[i] + 1]]
    BY DEF Concatenated, sizes, Sizes
  <2> QED
    BY <2>1, <2>2
<1> HIDE DEF outer, inner, result
<1>11. ASSUME NEW i \in 1..total
       PROVE  tuples[outer[i] + 1][inner[i] + 1] = flat[i]
  <2>1. i \in 1..PartialSum(Len(sizes), sizes)
    BY <1>2 DEF total
  <2>12. \E k \in 1..Len(sizes) : \E j \in 1..sizes[k] : i = PartialSum(k - 1, sizes) + j
    BY <2>1, <1>2, EveryPositionLocated
  <2>13. PICK k \in 1..n : \E j \in 1..sizes[k] : i = PartialSum(k - 1, sizes) + j
    BY <2>12, <1>2
  <2>2. PICK j \in 1..sizes[k] : i = PartialSum(k - 1, sizes) + j
    BY <2>13
  <2>3. /\ k \in Nat \ {0} /\ k - 1 \in Int /\ k - 1 \in 0..n /\ k \in 0..n
        /\ sizes[k] \in Nat /\ j \in Nat \ {0} /\ j <= sizes[k]
    BY <1>1, <1>2
  <2>4. PartialSum(k - 1, sizes) \in Nat
    BY <2>3, <1>4
  <2>5. {m \in 1..n : PartialSum(m, sizes) <= i - 1} = 1..(k - 1)
    <3>1. ASSUME NEW m \in 1..n, m <= k - 1
          PROVE  PartialSum(m, sizes) <= i - 1
      <4>1. m \in 0..Len(sizes) /\ k - 1 \in m..Len(sizes)
        BY <3>1, <2>3, <1>1, <1>2
      <4>2. PartialSum(m, sizes) <= PartialSum(k - 1, sizes)
        BY <4>1, <1>2, PartialSumMonotone
      <4>5. m \in Int
        BY <1>1
      <4>3. PartialSum(m, sizes) \in Nat
        BY <4>5, <1>4
      <4> QED
        BY <4>2, <4>3, <2>2, <2>3, <2>4
    <3>2. ASSUME NEW m \in 1..n, ~(m <= k - 1)
          PROVE  ~(PartialSum(m, sizes) <= i - 1)
      <4>1. k \in 0..Len(sizes) /\ m \in k..Len(sizes)
        BY <3>2, <2>3, <1>1, <1>2
      <4>2. PartialSum(k, sizes) <= PartialSum(m, sizes)
        BY <4>1, <1>2, PartialSumMonotone
      <4>5. m \in Int
        BY <1>1
      <4>3. PartialSum(m, sizes) \in Nat
        BY <4>5, <1>4
      <4>4. PartialSum(k, sizes) = PartialSum(k - 1, sizes) + sizes[k]
        BY <1>4
      <4> QED
        BY <4>2, <4>3, <4>4, <2>2, <2>3, <2>4
    <3>3. \A m \in 1..(k - 1) : m \in 1..n /\ m <= k - 1
      BY <2>3, <1>1
    <3>4. \A m \in 1..n : m <= k - 1 => m \in 1..(k - 1)
      BY <2>3, <1>1
    <3> QED
      BY <3>1, <3>2, <3>3, <3>4
  <2>6. CountLessOrEqual(i - 1, ends) = k - 1
    <3>1. CountLessOrEqual(i - 1, ends) = Cardinality(1..(k - 1))
      BY <2>5, <1>7 DEF CountLessOrEqual
    <3>2. Cardinality(1..(k - 1)) = k - 1
      BY <2>3, FS_Interval
    <3> QED
      BY <3>1, <3>2
  <2>7. outer[i] = k - 1
    BY <2>6, <1>8
  <2>8. ExclusiveScan(sizes)[k] = PartialSum(k - 1, sizes)
    BY <1>2 DEF ExclusiveScan
  <2>9. inner[i] = j - 1
    <3>1. outer[i] + 1 = k
      BY <2>3, <2>7
    <3>2. inner[i] = (i - 1) - PartialSum(k - 1, sizes)
      BY <3>1, <2>8, <1>9
    <3> QED
      BY <3>2, <2>2, <2>3, <2>4
  <2>10. flat[i] = tuples[k][j]
    BY <2>2, <1>2, <1>3 DEF Located, sizes
  <2>11. outer[i] + 1 = k /\ inner[i] + 1 = j
    BY <2>3, <2>7, <2>9
  <2> QED
    BY <2>10, <2>11
<1>12. flat = [i \in 1..total |-> flat[i]]
  BY <1>3
<1> QED
  BY <1>10, <1>11, <1>12 DEF flat

\* The index sequences of apply, computed in another way, say the same.
LEMMA AppliedIsFlatten ==
  ASSUME NEW T, NEW tuples \in Seq(Seq(T)), tuples # <<>>
  PROVE  Applied(tuples) = FlattenSeq(tuples)
<1> DEFINE n == Len(tuples)
           sizes == Sizes(tuples)
           total == PartialSum(n, sizes)
           whichs == [k \in DOMAIN sizes |-> [i \in 1..sizes[k] |-> k - 1]]
           places == [k \in DOMAIN sizes |-> [i \in 1..sizes[k] |-> i - 1]]
           which == RepeatingIndexSequence(sizes)
           place == EachIndexSequence(sizes)
           flat == FlattenSeq(tuples)
<1>1. /\ n \in Nat \ {0} /\ DOMAIN tuples = 1..n
      /\ \A k \in 1..n : tuples[k] \in Seq(T) /\ Len(tuples[k]) \in Nat
  OBVIOUS
<1>2. /\ sizes \in Seq(Nat) /\ Len(sizes) = n /\ DOMAIN sizes = 1..n
      /\ \A k \in 1..n : sizes[k] = Len(tuples[k]) /\ sizes[k] \in Nat
  BY <1>1 DEF Sizes
<1>3. flat \in Seq(T) /\ Len(flat) = total /\ Located(tuples, flat, n)
  BY FlattenLocated
<1> HIDE DEF n, sizes, flat
<1>4. /\ whichs \in Seq(Seq(Nat)) /\ places \in Seq(Seq(Nat))
      /\ Len(whichs) = n /\ Len(places) = n
      /\ \A k \in 1..n : /\ Len(whichs[k]) = sizes[k] /\ Len(places[k]) = sizes[k]
                         /\ \A j \in 1..sizes[k] : whichs[k][j] = k - 1 /\ places[k][j] = j - 1
  <2>1. ASSUME NEW k \in 1..n
        PROVE  /\ whichs[k] \in Seq(Nat) /\ places[k] \in Seq(Nat)
               /\ Len(whichs[k]) = sizes[k] /\ Len(places[k]) = sizes[k]
               /\ \A j \in 1..sizes[k] : whichs[k][j] = k - 1 /\ places[k][j] = j - 1
    <3> DEFINE m == sizes[k]
    <3>1. k - 1 \in Nat /\ m \in Nat
      BY <1>1, <1>2
    <3>2. whichs[k] = [i \in 1..m |-> k - 1] /\ places[k] = [i \in 1..m |-> i - 1]
      BY <1>2
    <3> HIDE DEF m
    <3>3. [i \in 1..m |-> k - 1] \in Seq(Nat) /\ [i \in 1..m |-> i - 1] \in Seq(Nat)
      BY <3>1
    <3>4. Len([i \in 1..m |-> k - 1]) = m /\ Len([i \in 1..m |-> i - 1]) = m
      BY <3>1
    <3> QED
      BY <3>2, <3>3, <3>4 DEF m
  <2>2. whichs = [k \in 1..n |-> whichs[k]] /\ places = [k \in 1..n |-> places[k]]
    BY <1>2
  <2> HIDE DEF whichs, places
  <2>3. n \in Nat
    BY <1>1
  <2>4. whichs \in [1..n -> Seq(Nat)] /\ places \in [1..n -> Seq(Nat)]
    BY <2>1, <2>2
  <2>5. whichs \in Seq(Seq(Nat)) /\ places \in Seq(Seq(Nat)) /\ Len(whichs) = n /\ Len(places) = n
    BY <2>3, <2>4
  <2> QED
    BY <2>1, <2>5
<1>5. Sizes(whichs) = sizes /\ Sizes(places) = sizes /\ whichs # <<>> /\ places # <<>>
  <2>1. sizes = [k \in 1..n |-> sizes[k]]
    BY <1>2
  <2>2. DOMAIN whichs = 1..n /\ DOMAIN places = 1..n
    BY <1>2
  <2> HIDE DEF whichs, places
  <2> QED
    BY <2>1, <2>2, <1>1, <1>4 DEF Sizes
<1> HIDE DEF whichs, places
<1>6. which = FlattenSeq(whichs) /\ place = FlattenSeq(places)
  BY <1>4, <1>5, IntegerSequenceCatIsFlatten DEF RepeatingIndexSequence, EachIndexSequence, whichs, places
<1> HIDE DEF which, place
<1>7. /\ which \in Seq(Nat) /\ Located(whichs, which, n)
      /\ place \in Seq(Nat) /\ Len(place) = total /\ Located(places, place, n)
  BY <1>4, <1>5, <1>6, FlattenLocated
<1>8. Len(tuples) # 1 => Applied(tuples) = [i \in 1..total |-> tuples[which[i] + 1][place[i] + 1]]
  <2>1. DOMAIN place = 1..total
    BY <1>7
  <2>2. Len(tuples) # 1 => Applied(tuples) = [i \in DOMAIN place |-> tuples[which[i] + 1][place[i] + 1]]
    BY DEF Applied, which, place, sizes, Sizes
  <2> QED
    BY <2>1, <2>2
<1>9. ASSUME NEW i \in 1..total
      PROVE  tuples[which[i] + 1][place[i] + 1] = flat[i]
  <2>1. \E k \in 1..Len(sizes) : \E j \in 1..sizes[k] : i = PartialSum(k - 1, sizes) + j
    BY <1>2, EveryPositionLocated DEF total
  <2>8. PICK k \in 1..n : \E j \in 1..sizes[k] : i = PartialSum(k - 1, sizes) + j
    BY <2>1, <1>2
  <2>2. PICK j \in 1..sizes[k] : i = PartialSum(k - 1, sizes) + j
    BY <2>8
  <2>3. k \in Int /\ j \in Int
    BY <1>1, <1>2
  <2>9. Len(whichs[k]) = sizes[k] /\ Len(places[k]) = sizes[k]
        /\ whichs[k][j] = k - 1 /\ places[k][j] = j - 1
    BY <1>4
  <2>4. which[i] = k - 1
    BY <2>2, <2>9, <1>5, <1>7 DEF Located
  <2>5. place[i] = j - 1
    BY <2>2, <2>9, <1>5, <1>7 DEF Located
  <2>6. flat[i] = tuples[k][j]
    BY <2>2, <1>2, <1>3 DEF Located, sizes
  <2>7. which[i] + 1 = k /\ place[i] + 1 = j
    BY <2>3, <2>4, <2>5
  <2> QED
    BY <2>6, <2>7
<1>10. flat = [i \in 1..total |-> flat[i]]
  BY <1>3
<1>11. CASE Len(tuples) = 1
  <2>1. Applied(tuples) = tuples[1]
    BY <1>11 DEF Applied
  <2>2. PICK f : FlattenedUpTo(T, tuples, f) /\ FlattenSeq(tuples) = f[Len(tuples)]
    BY FlattenFold
  <2>3. f[1] = tuples[1]
    BY <2>2 DEF FlattenedUpTo
  <2> QED
    BY <2>1, <2>2, <2>3, <1>11
<1>12. CASE Len(tuples) # 1
  BY <1>8, <1>9, <1>10, <1>12 DEF flat
<1> QED
  BY <1>11, <1>12

-----------------------------------------------------------------------------
(* Comparison and concatenation.                                            *)

LEMMA LessIsLexicographic ==
  ASSUME NEW lhs \in Seq(Int), NEW rhs \in Seq(Int), Len(lhs) = Len(rhs)
  PROVE  Less(lhs, rhs) <=> Lexicographic(lhs, rhs)
<1> DEFINE n == Len(lhs)
           First(i) == \E k \in i..n : lhs[k] < rhs[k] /\ \A m \in i..(k - 1) : lhs[m] = rhs[m]
           Is(f) == f = [i \in 1..(n + 1) |->
                           /\ i <= n
                           /\ \/ lhs[i] < rhs[i]
                              \/ ~(rhs[i] < lhs[i]) /\ f[i + 1]]
           closed == [i \in 1..(n + 1) |-> IF First(i) THEN TRUE ELSE FALSE]
<1>1. /\ n \in Nat /\ DOMAIN lhs = 1..n
      /\ \A i \in 1..n : lhs[i] \in Int /\ rhs[i] \in Int
  OBVIOUS
<1> HIDE DEF n
\* The elements from i on are decided at i or behind it.
<1>2. ASSUME NEW i \in 1..n
      PROVE  First(i) <=> lhs[i] < rhs[i] \/ (~(rhs[i] < lhs[i]) /\ First(i + 1))
  <2>1. i \in i..n /\ i \in Int /\ i + 1 \in Int /\ lhs[i] \in Int /\ rhs[i] \in Int
    BY <1>1
  <2>2. ASSUME lhs[i] < rhs[i]
        PROVE  First(i)
    <3>1. i..(i - 1) = {}
      BY <2>1
    <3> QED
      BY <2>1, <2>2, <3>1
  <2>3. ASSUME ~(rhs[i] < lhs[i]), ~(lhs[i] < rhs[i]), First(i + 1)
        PROVE  First(i)
    <3>1. PICK k \in (i + 1)..n : lhs[k] < rhs[k] /\ \A m \in (i + 1)..(k - 1) : lhs[m] = rhs[m]
      BY <2>3
    <3>2. k \in i..n /\ \A m \in i..(k - 1) : m = i \/ m \in (i + 1)..(k - 1)
      BY <1>1, <2>1
    <3>3. lhs[i] = rhs[i]
      BY <2>1, <2>3
    <3> QED
      BY <3>1, <3>2, <3>3
  <2>4. ASSUME First(i), ~(lhs[i] < rhs[i])
        PROVE  ~(rhs[i] < lhs[i]) /\ First(i + 1)
    <3>1. PICK k \in i..n : lhs[k] < rhs[k] /\ \A m \in i..(k - 1) : lhs[m] = rhs[m]
      BY <2>4
    <3>2. k # i
      BY <2>4, <3>1
    <3>3. k \in (i + 1)..n /\ i \in i..(k - 1) /\ \A m \in (i + 1)..(k - 1) : m \in i..(k - 1)
      BY <1>1, <2>1, <3>2
    <3> QED
      BY <2>1, <3>1, <3>3
  <2> HIDE DEF First
  <2> QED
    BY <2>2, <2>3, <2>4
<1>3. ~First(n + 1)
  BY <1>1
<1> HIDE DEF First
<1>4. Is(closed)
  <2>1. ASSUME NEW i \in 1..(n + 1)
        PROVE  First(i) <=> /\ i <= n
                            /\ \/ lhs[i] < rhs[i]
                               \/ ~(rhs[i] < lhs[i]) /\ closed[i + 1]
    <3>1. CASE i = n + 1
      BY <3>1, <1>1, <1>3
    <3>2. CASE i # n + 1
      <4>1. i \in 1..n /\ i <= n /\ i + 1 \in 1..(n + 1)
        BY <3>2, <1>1
      <4>2. closed[i + 1] <=> First(i + 1)
        BY <4>1
      <4> HIDE DEF closed
      <4> QED
        BY <4>1, <4>2, <1>2
    <3> QED
      BY <3>1, <3>2
  <2>2. ASSUME NEW i \in 1..(n + 1)
        PROVE  (IF First(i) THEN TRUE ELSE FALSE) = (/\ i <= n
                 /\ \/ lhs[i] < rhs[i]
                    \/ ~(rhs[i] < lhs[i]) /\ closed[i + 1])
    BY <2>1
  <2> QED
    BY <2>2
<1> DEFINE less == CHOOSE f : Is(f)
<1>5. Is(less)
  <2> HIDE DEF Is, closed
  <2> QED
    BY <1>4
<1>6. Less(lhs, rhs) = less[1]
  BY DEF Less, n
<1> HIDE DEF less
<1>7. \A i \in 1..(n + 1) : less[i] = (/\ i <= n
                                      /\ \/ lhs[i] < rhs[i]
                                         \/ ~(rhs[i] < lhs[i]) /\ less[i + 1])
  BY <1>5
<1> HIDE DEF Is
<1>8. less[1] <=> First(1)
  <2> DEFINE S == {i \in 1..(n + 1) : less[i] <=> First(i)}
  <2>1. n + 1 \in S
    <3>1. n + 1 \in 1..(n + 1) /\ ~(n + 1 <= n)
      BY <1>1
    <3>2. ~less[n + 1]
      BY <3>1, <1>7
    <3> QED
      BY <3>1, <3>2, <1>3
  <2>2. ASSUME NEW i \in 1..n, i + 1 \in S
        PROVE  i \in S
    <3>1. i \in 1..(n + 1) /\ i <= n
      BY <1>1
    <3>2. less[i] <=> lhs[i] < rhs[i] \/ (~(rhs[i] < lhs[i]) /\ less[i + 1])
      BY <3>1, <1>7
    <3>3. less[i + 1] <=> First(i + 1)
      BY <2>2
    <3> QED
      BY <3>1, <3>2, <3>3, <1>2
  <2> HIDE DEF S
  <2>3. 1..(n + 1) \subseteq S
    BY <1>1, <2>1, <2>2, Downwards
  <2>4. 1 \in 1..(n + 1)
    BY <1>1
  <2> QED
    BY <2>3, <2>4 DEF S
<1>9. First(1) <=> Lexicographic(lhs, rhs)
  BY <1>1 DEF First, Lexicographic
<1> QED
  BY <1>6, <1>8, <1>9

\* What the element values are a function of: the positions.
IsFunction(f) == f = [i \in DOMAIN f |-> f[i]]

ElementsAreFunctions == \A s \in Slots : IsFunction(element[s])

LEMMA TransferFunctions ==
  ASSUME Inv, ElementsAreFunctions, NEW d \in Slots, NEW s \in Slots, NEW from,
         NEW copied \in BOOLEAN, NEW stop \in Stops(d, copied),
         Transfer(d, s, from, copied, stop)
  PROVE  ElementsAreFunctions'
<1>1. IsFunction(Filled(d, s, from, stop)) /\ IsFunction(Emptied(d, s, from, stop))
  BY DEF IsFunction, Filled, Emptied
<1>2. ASSUME NEW r \in Slots
      PROVE  element'[r] \in {element[r], Filled(d, s, from, stop), Emptied(d, s, from, stop)}
  BY DEF Transfer, Inv, TupleTypeOK
<1> HIDE DEF IsFunction
<1> QED
  BY <1>1, <1>2 DEF ElementsAreFunctions

LEMMA ReceiveFunctions ==
  ASSUME Inv, ElementsAreFunctions, NEW s \in Slots, NEW values, NEW copied \in BOOLEAN,
         Receive(s, values, copied)
  PROVE  ElementsAreFunctions'
<1>1. PICK stop \in Stops(s, copied) :
        element' = [element EXCEPT ![s] =
          [i \in Positions(s) |->
             IF i < stop THEN ConvertedTo(fields[s][i].type, values[i]) ELSE @[i]]]
  BY DEF Receive
<1>2. ASSUME NEW r \in Slots
      PROVE  IsFunction(element'[r])
  <2>1. DOMAIN element = Slots
    BY DEF Inv, TupleTypeOK
  <2>2. CASE r = s
    <3>1. element'[r] = [i \in Positions(s) |->
             IF i < stop THEN ConvertedTo(fields[s][i].type, values[i]) ELSE element[s][i]]
      BY <1>1, <2>1, <2>2
    <3> QED
      BY <3>1 DEF IsFunction
  <2>3. CASE r # s
    BY <1>1, <2>1, <2>3 DEF ElementsAreFunctions
  <2> QED
    BY <2>2, <2>3
<1> QED
  BY <1>2 DEF ElementsAreFunctions

LEMMA NextFunctions ==
  ASSUME Inv, ElementsAreFunctions, [Next]_vars
  PROVE  ElementsAreFunctions'
<1>1. DOMAIN element = Slots
  BY DEF Inv, TupleTypeOK
<1>2. ASSUME element' = element
      PROVE  ElementsAreFunctions'
  BY <1>2 DEF ElementsAreFunctions
<1>3. ASSUME NEW s \in Slots, NEW v, IsFunction(v), element' = [element EXCEPT ![s] = v]
      PROVE  ElementsAreFunctions'
  BY <1>1, <1>3 DEF ElementsAreFunctions
<1>4. ASSUME NEW s \in Slots, One(s)
      PROVE  ElementsAreFunctions'
  <2>1. CASE DefaultConstruct(s)
    BY <1>3, <2>1 DEF DefaultConstruct, IsFunction
  <2>2. CASE Destroy(s)
    BY <1>3, <2>2 DEF Destroy, IsFunction
  <2>3. CASE WithItself(s)
    BY <1>2, <2>3 DEF WithItself
  <2>4. CASE ValueConstruct(s)
    BY <2>4, ReceiveFunctions DEF ValueConstruct, ConstructFrom
  <2>5. ASSUME NEW copied \in BOOLEAN, PairConstruct(s, copied) \/ PairAssign(s, copied)
        PROVE  ElementsAreFunctions'
    BY <2>5, ReceiveFunctions DEF PairConstruct, PairAssign, ConstructFrom
  <2> QED
    BY <1>4, <2>1, <2>2, <2>3, <2>4, <2>5 DEF One
<1>5. ASSUME NEW d \in Slots, NEW s \in Slots, NEW from, NEW copied \in BOOLEAN,
             Build(d, s, from, copied)
      PROVE  ElementsAreFunctions'
  BY <1>5, TransferFunctions DEF Build
<1>6. ASSUME NEW d \in Slots, NEW s \in Slots, NEW from, NEW copied \in BOOLEAN,
             NEW nothrow, Assign(d, s, from, copied, nothrow)
      PROVE  ElementsAreFunctions'
  BY <1>6, TransferFunctions DEF Assign
<1>7. ASSUME NEW d \in Slots, NEW s \in Slots, Two(d, s)
      PROVE  ElementsAreFunctions'
  <2>1. CASE Swap(d, s)
    <3>1. element' = [element EXCEPT ![d] = element[s], ![s] = element[d]]
      BY <2>1 DEF Swap
    <3>2. \A r \in Slots : element'[r] \in {element[r], element[s], element[d]}
      BY <3>1, <1>1
    <3> HIDE DEF IsFunction
    <3> QED
      BY <3>2 DEF ElementsAreFunctions
  <2>2. ASSUME NEW copied \in BOOLEAN,
               Construct(d, s, copied) \/ ConvertingConstruct(d, s, copied) \/ SubMap(d, s, copied)
        PROVE  ElementsAreFunctions'
    BY <2>2, <1>5 DEF Construct, ConvertingConstruct, SubMap
  <2>3. ASSUME NEW copied \in BOOLEAN, AssignSame(d, s, copied) \/ ConvertingAssign(d, s, copied)
        PROVE  ElementsAreFunctions'
    BY <2>3, <1>6 DEF AssignSame, ConvertingAssign
  <2> QED
    BY <1>7, <2>1, <2>2, <2>3 DEF Two
<1>8. CASE Compile
  BY <1>2, <1>8 DEF Compile, tupleVars
<1>9. CASE UNCHANGED vars
  BY <1>2, <1>9 DEF vars, tupleVars
<1> QED
  BY <1>4, <1>7, <1>8, <1>9 DEF Next

LEMMA FunctionsInvariance == Spec => []ElementsAreFunctions
<1>1. Init => ElementsAreFunctions
  BY DEF Init, ElementsAreFunctions, IsFunction
<1> QED
  BY <1>1, NextFunctions, Invariance, PTL DEF Spec

\* The values of a variable in its lifetime.
LEMMA LiveElements ==
  ASSUME Inv, ElementsAreFunctions, NEW s \in Slots, live[s]
  PROVE  element[s] \in Seq(Nat) /\ Len(element[s]) = Len(fields[s])
<1>1. fields[s] \in Seq(Field)
  BY FieldTypes DEF Inv, LayoutInv
<1>2. Positions(s) = 1..Len(fields[s]) /\ Len(fields[s]) \in Nat
  BY <1>1 DEF Positions
<1>3. \A i \in Positions(s) : element[s][i] \in Nat
  <2>1. Values \subseteq Nat /\ Moved \in Nat
    BY ValuesAssumption
  <2> QED
    BY <2>1 DEF Inv, TupleTypeOK, StorageOf
<1>4. DOMAIN element[s] = Positions(s) /\ IsFunction(element[s])
  BY DEF Inv, TupleTypeOK, ElementsAreFunctions
<1>5. element[s] \in [1..Len(fields[s]) -> Nat]
  BY <1>2, <1>3, <1>4 DEF IsFunction
<1> QED
  BY <1>2, <1>5

\* The elements that a comparison pairs are those with the same tag.
LEMMA EqualIsSameContents ==
  ASSUME Inv, NEW d \in Slots, NEW s \in Slots, Comparable(d, s)
  PROVE  Equal(d, s) <=> Contents(d) = Contents(s)
<1>1. SameSize(d, s) /\ TagsOf(d) = TagsOf(s)
  BY DEF Comparable
<1>2. /\ \A i \in Positions(d) : Position(s, fields[d][i].tag) \in Positions(s)
      /\ \A i \in Positions(d) : fields[s][Position(s, fields[d][i].tag)].tag = fields[d][i].tag
  BY <1>1, ByTagInside DEF ByTag
<1>3. \A i, j \in Positions(s) : fields[s][i].tag = fields[s][j].tag => i = j
  BY FieldListsAssumption DEF Positions, Inv, LayoutInv
<1>4. EqualByTag(d, s) <=> Contents(d) = Contents(s)
  <2>1. ASSUME EqualByTag(d, s), NEW i \in Positions(d)
        PROVE  <<fields[d][i].tag, element[d][i]>> \in Contents(s)
    BY <2>1, <1>2 DEF EqualByTag, Contents
  <2>2. ASSUME EqualByTag(d, s), NEW j \in Positions(s)
        PROVE  <<fields[s][j].tag, element[s][j]>> \in Contents(d)
    <3>1. PICK i \in Positions(d) : fields[d][i].tag = fields[s][j].tag
      BY <1>1 DEF TagsOf
    <3>2. Position(s, fields[d][i].tag) = j
      BY <1>2, <1>3, <3>1
    <3> QED
      BY <2>2, <3>1, <3>2 DEF EqualByTag, Contents
  <2>3. ASSUME Contents(d) = Contents(s), NEW i \in Positions(d)
        PROVE  element[d][i] = element[s][Position(s, fields[d][i].tag)]
    <3>1. PICK j \in Positions(s) : fields[s][j].tag = fields[d][i].tag /\ element[s][j] = element[d][i]
      <4>1. <<fields[d][i].tag, element[d][i]>> \in Contents(s)
        BY <2>3 DEF Contents
      <4> QED
        BY <4>1 DEF Contents
    <3>2. Position(s, fields[d][i].tag) = j
      BY <1>2, <1>3, <3>1
    <3> QED
      BY <3>1, <3>2
  <2>4. EqualByTag(d, s) => Contents(d) = Contents(s)
    BY <2>1, <2>2 DEF Contents
  <2> QED
    BY <2>3, <2>4 DEF EqualByTag
<1>5. CASE IsMap(d)
  BY <1>4, <1>5 DEF Equal
<1>6. CASE ~IsMap(d)
  <2>1. IsTuple(fields[d]) /\ IsTuple(fields[s])
    BY <1>6 DEF IsMap, Inv, KindsApart
  <2>2. Positions(d) = Positions(s)
    <3>1. fields[d] \in Seq(Field) /\ fields[s] \in Seq(Field)
      BY FieldTypes DEF Inv, LayoutInv
    <3> QED
      BY <1>1, <3>1 DEF SameSize, Positions
  <2>3. \A i \in Positions(d) : fields[d][i].tag = i /\ fields[s][i].tag = i
    BY <2>1, <2>2 DEF IsTuple, Positions
  <2>4. \A i \in Positions(d) : Position(s, fields[d][i].tag) = i
    BY <1>2, <1>3, <2>2, <2>3
  <2>5. DOMAIN element[d] = Positions(d)
    BY DEF Inv, TupleTypeOK
  <2>6. EqualByTag(d, s) <=> EqualByPosition(element[d], element[s])
    BY <2>4, <2>5 DEF EqualByTag, EqualByPosition
  <2> QED
    BY <1>4, <1>6, <2>6 DEF Equal
<1> QED
  BY <1>5, <1>6

\* Equality, order, tupleCat and apply answer as those of std::tuple for any number
\* and sizes of tuples: the comparison operators, tupleCat and apply.
THEOREM AnswersLikeStdTupleHolds == Spec => []AnswersLikeStdTuple
<1>1. ASSUME Inv, ElementsAreFunctions
      PROVE  AnswersLikeStdTuple
  <2>1. ASSUME NEW d \in Slots, NEW s \in Slots, Comparable(d, s)
        PROVE  /\ Equal(d, s) <=> Contents(d) = Contents(s)
               /\ Less(element[d], element[s]) <=> Lexicographic(element[d], element[s])
    <3>1. element[d] \in Seq(Nat) /\ element[s] \in Seq(Nat) /\ Len(element[d]) = Len(element[s])
      BY <1>1, <2>1, LiveElements DEF Comparable, SameSize
    <3>2. element[d] \in Seq(Int) /\ element[s] \in Seq(Int)
      BY <3>1
    <3> QED
      BY <1>1, <2>1, <3>1, <3>2, EqualIsSameContents, LessIsLexicographic
  <2>2. ASSUME NEW n \in 1..MaxCat, NEW args \in [1..n -> {s \in Slots : live[s] /\ ~IsMap(s)}]
        PROVE  LET tuples == [k \in 1..n |-> element[args[k]]]
               IN /\ Concatenated(tuples) = FlattenSeq(tuples)
                  /\ Applied(tuples) = FlattenSeq(tuples)
    <3> DEFINE tuples == [k \in 1..n |-> element[args[k]]]
    <3>1. n \in Nat \ {0}
      BY MaxCatAssumption
    <3>2. \A k \in 1..n : element[args[k]] \in Seq(Nat)
      BY <1>1, LiveElements
    <3>3. tuples \in [1..n -> Seq(Nat)]
      BY <3>2
    <3> HIDE DEF tuples
    <3>4. tuples \in Seq(Seq(Nat)) /\ tuples # <<>>
      BY <3>1, <3>3
    <3>5. Concatenated(tuples) = FlattenSeq(tuples) /\ Applied(tuples) = FlattenSeq(tuples)
      BY <3>4, ConcatenatedIsFlatten, AppliedIsFlatten
    <3> QED
      BY <3>5 DEF tuples
  <2> QED
    BY <2>1, <2>2 DEF AnswersLikeStdTuple
<1> QED
  BY <1>1, Invariance, FunctionsInvariance, PTL
=============================================================================
