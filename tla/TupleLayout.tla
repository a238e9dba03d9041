----------------------------- MODULE TupleLayout -----------------------------
(***************************************************************************)
(* Where the elements of a TupleStorage are.  They are built by placement  *)
(* new in one array of char, at offsets that the compiler computes by      *)
(* folding operator| over the element types, one step for each type.  The  *)
(* steps below are those of that fold, for the class of each variable.     *)
(***************************************************************************)
EXTENDS Integers, Sequences

CONSTANTS
  Slots,       \* variables of the program, each of a tuple class
  Tags, Types, \* of elements
  Size,        \* Size[t]: sizeof
  Alignment,   \* Alignment[t]: alignof
  FieldLists   \* the template arguments a class may have

Field == [tag : Tags, type : Types]

ASSUME FieldListsAssumption ==
  /\ FieldLists \subseteq Seq(Field)
  /\ \A list \in FieldLists : \A i, j \in DOMAIN list : list[i].tag = list[j].tag => i = j

\* Every size is at least 1 and every alignment a power of two.
ASSUME TypesAssumption ==
  /\ Size \in [Types -> Nat \ {0}]
  /\ Alignment \in [Types -> Nat \ {0}]
  /\ \A t, u \in Types :
       Alignment[t] <= Alignment[u] => Alignment[u] % Alignment[t] = 0

VARIABLES
  fields,  \* fields[s]: the tags and types of the elements
  infos    \* infos[s]: their TupleTypeInfos, as far as the fold has come

layoutVars == <<fields, infos>>

TypeInfo == [offset : Nat, size : Nat \ {0}, alignment : Nat \ {0}]

InfoOf(type) == [offset |-> 0, size |-> Size[type], alignment |-> Alignment[type]]

-----------------------------------------------------------------------------
EndOf(info) == info.offset + info.size

\* Slip: the multiple before the start.
RoundedDown(start, alignment) == (start \div alignment) * alignment

RoundedUp(start, alignment) ==
  IF start % alignment = 0 THEN start ELSE (start \div alignment + 1) * alignment

\* operator| of a TupleTypeInfoSequence and a TupleTypeInfo.
Joined(seq, info) ==
  IF seq = <<>>
  THEN <<[info EXCEPT !.offset = 0]>>
  ELSE Append(seq, [info EXCEPT !.offset = RoundedUp(EndOf(seq[Len(seq)]), info.alignment)])

\* The size and the alignment of data_m.
TotalSize(seq) == IF seq = <<>> THEN 1 ELSE EndOf(seq[Len(seq)])

MaxAlignment(seq) ==
  IF seq = <<>>
  THEN 1
  ELSE CHOOSE a \in {seq[i].alignment : i \in DOMAIN seq} :
         \A i \in DOMAIN seq : seq[i].alignment <= a

LaidOut(s) == Len(infos[s]) = Len(fields[s])

LayoutInit ==
  /\ fields \in [Slots -> FieldLists]
  /\ infos = [s \in Slots |-> <<>>]

\* The next step of the fold, for the next element type.
LayOut(s) ==
  /\ ~LaidOut(s)
  /\ LET type == fields[s][Len(infos[s]) + 1].type
     IN infos' = [infos EXCEPT ![s] = Joined(@, InfoOf(type))]
  /\ UNCHANGED fields

-----------------------------------------------------------------------------
\* The elements lie in data_m in the order of their types, one behind the end
\* of the other, and where each begins is a multiple of its alignment, if the
\* address of data_m is a multiple of max_alignment: TupleTypeInfoSequence.
InOrder(seq) ==
  \A i, j \in DOMAIN seq : i < j => EndOf(seq[i]) <= seq[j].offset

Inside(seq) ==
  \A i \in DOMAIN seq : EndOf(seq[i]) <= TotalSize(seq)

Aligned(seq) ==
  \A i \in DOMAIN seq : /\ seq[i].offset % seq[i].alignment = 0
                        /\ MaxAlignment(seq) % seq[i].alignment = 0

LayoutSound ==
  \A s \in Slots : InOrder(infos[s]) /\ Inside(infos[s]) /\ Aligned(infos[s])
=============================================================================
