------------------------------ MODULE TupleCat ------------------------------
(***************************************************************************)
(* Concatenation of tuples and application of a function to several.       *)
(* Which element of which tuple each element of the result is taken from   *)
(* is computed by the compiler from the sizes alone, with scans, maps and  *)
(* concatenations of integer sequences.  The sequences hold indices        *)
(* counted from 0, as in the source; their own are from 1.                 *)
(***************************************************************************)
EXTENDS Integers, Sequences, FiniteSets

\* The sum of the first values of a sequence, by a fold over all of them.
PartialSum(size, seq) ==
  LET sum[i \in 1..(Len(seq) + 1)] ==
        IF i = Len(seq) + 1 THEN 0 ELSE (IF i <= size THEN seq[i] ELSE 0) + sum[i + 1]
  IN sum[1]

ExclusiveScan(seq) == [i \in DOMAIN seq |-> PartialSum(i - 1, seq)]

Plus(lhs, rhs) == [i \in DOMAIN lhs |-> lhs[i] + rhs[i]]
Minus(lhs, rhs) == [i \in DOMAIN lhs |-> lhs[i] - rhs[i]]

InclusiveScan(seq) == Plus(ExclusiveScan(seq), seq)

\* The values at the indices keys.
Mapped(keys, values) == [i \in DOMAIN keys |-> values[keys[i] + 1]]

CountLessOrEqual(max, seq) == Cardinality({i \in DOMAIN seq : seq[i] <= max})

ResultSequence(sizes) == [i \in 1..PartialSum(Len(sizes), sizes) |-> i - 1]

\* The tuple an element comes from: as many tuples end before it.
OuterSequence(sizes) ==
  LET ends == InclusiveScan(sizes)
  IN [i \in DOMAIN ResultSequence(sizes) |-> CountLessOrEqual(ResultSequence(sizes)[i], ends)]

\* Its place there.
InnerSequence(sizes) ==
  Minus(ResultSequence(sizes), Mapped(OuterSequence(sizes), ExclusiveScan(sizes)))

\* tupleCat of a sequence of tuples.
Concatenated(tuples) ==
  LET sizes == [i \in DOMAIN tuples |-> Len(tuples[i])]
      outer == OuterSequence(sizes)
      inner == InnerSequence(sizes)
  IN [i \in DOMAIN outer |-> tuples[outer[i] + 1][inner[i] + 1]]

-----------------------------------------------------------------------------
(* apply of a function to several tuples, which computes the same indices   *)
(* in another way.                                                          *)

\* Two sequences at a time are put before what follows them.
IntegerSequenceCat(sequences) ==
  LET n == Len(sequences)
      cat[k \in 1..n] == IF k = n THEN sequences[n]
                         ELSE sequences[k] \o sequences[k + 1] \o (IF k + 1 = n THEN <<>> ELSE cat[k + 2])
  IN cat[1]

\* The index of each tuple as often as it has elements.
RepeatingIndexSequence(sizes) ==
  IntegerSequenceCat([k \in DOMAIN sizes |-> [i \in 1..sizes[k] |-> k - 1]])

\* The places of the elements, tuple by tuple.
EachIndexSequence(sizes) ==
  IntegerSequenceCat([k \in DOMAIN sizes |-> [i \in 1..sizes[k] |-> i - 1]])

\* The arguments of the function; those of a single tuple are its elements.
Applied(tuples) ==
  IF Len(tuples) = 1 THEN tuples[1] ELSE
  LET sizes == [k \in DOMAIN tuples |-> Len(tuples[k])]
      which == RepeatingIndexSequence(sizes)
      place == EachIndexSequence(sizes)
  IN [i \in DOMAIN place |-> tuples[which[i] + 1][place[i] + 1]]
=============================================================================
