---------------------------- MODULE ParserProofs ----------------------------
(***************************************************************************)
(* Proofs about Parser.                                                    *)
(***************************************************************************)
EXTENDS Parser, Recursion

-----------------------------------------------------------------------------
(* Induction and recursion over types.                                      *)

\* What holds of a type whenever it holds of its parts holds of all types.
LEMMA TypeInduction ==
  ASSUME NEW S,
         \A s \in Types : (\A i \in DOMAIN s.parts : s.parts[i] \in S) => s \in S
  PROVE  Types \subseteq S
<1> DEFINE T == {n \in Nat : \A s \in Types : Nesting[s] < n => s \in S}
<1>1. \A s \in Types : Nesting[s] \in Nat
  BY NestingAssumption
<1>2. 0 \in T
  BY <1>1
<1>3. ASSUME NEW n \in Nat, n \in T
      PROVE  n + 1 \in T
  <2> SUFFICES ASSUME NEW s \in Types, Nesting[s] < n + 1
               PROVE  s \in S
    OBVIOUS
  <2>1. ASSUME NEW i \in DOMAIN s.parts
        PROVE  s.parts[i] \in S
    <3>1. s.parts[i] \in Types
      BY TypesAssumption
    <3>2. Nesting[s.parts[i]] < Nesting[s]
      BY NestingAssumption
    <3>3. Nesting[s.parts[i]] \in Nat /\ Nesting[s] \in Nat
      BY <3>1, <1>1
    <3>4. Nesting[s.parts[i]] < n
      BY <3>2, <3>3
    <3> QED
      BY <3>1, <3>4, <1>3
  <2> QED
    BY <2>1
<1>4. Nat \subseteq T
  <2> HIDE DEF T
  <2> QED
    BY <1>2, <1>3, SetInduction
<1> SUFFICES ASSUME NEW s \in Types
             PROVE  s \in S
  OBVIOUS
<1>5. Nesting[s] + 1 \in T /\ Nesting[s] < Nesting[s] + 1
  BY <1>1, <1>4
<1> QED
  BY <1>5

\* The functions of types that Parser defines by recursion.
Step(q, s, of) ==
  CASE q = "Value" -> ValuesOf(s, of)
    [] q = "Default" -> DefaultOf(s, of)
    [] q = "Parse" -> ParseOf(s, of)
    [] q = "Meant" -> MeantOf(s, of)
    [] q = "Complete" -> CompleteOf(s, of)
    [] q = "Faults" -> FaultsOf(s, of)
    [] q = "MayBeLeftOut" -> ConvertsFromNull(s, of)

OfParts(f, s) == [i \in DOMAIN s.parts |-> f[s.parts[i]]]

\* f is what the recursion says on the types in S.
On(q, S, f) == f = [s \in S |-> Step(q, s, OfParts(f, s))]

\* On types up to any depth each of the recursions has a function.
Shallow(n) == {s \in Types : Nesting[s] < n}

LEMMA ShallowParts ==
  ASSUME NEW n \in Nat, NEW s \in Shallow(n + 1), NEW i \in DOMAIN s.parts
  PROVE  s.parts[i] \in Shallow(n)
<1>1. s \in Types /\ s.parts[i] \in Types
  BY TypesAssumption DEF Shallow
<1>2. Nesting[s.parts[i]] < Nesting[s] /\ Nesting[s.parts[i]] \in Nat /\ Nesting[s] \in Nat
  BY <1>1, NestingAssumption
<1> QED
  BY <1>1, <1>2 DEF Shallow

LEMMA ShallowRecursion ==
  ASSUME NEW q
  PROVE  \A n \in Nat : \E f : On(q, Shallow(n), f)
<1> DEFINE S == {n \in Nat : \E f : On(q, Shallow(n), f)}
<1>1. 0 \in S
  <2>1. Shallow(0) = {}
    BY NestingAssumption DEF Shallow
  <2>2. On(q, Shallow(0), [s \in {} |-> 0])
    BY <2>1 DEF On
  <2> QED
    BY <2>2
<1>2. ASSUME NEW n \in Nat, n \in S
      PROVE  n + 1 \in S
  <2>1. PICK f : On(q, Shallow(n), f)
    BY <1>2
  <2> DEFINE g == [s \in Shallow(n + 1) |-> Step(q, s, OfParts(f, s))]
  <2>2. Shallow(n) \subseteq Shallow(n + 1)
    BY NestingAssumption DEF Shallow
  <2>3. ASSUME NEW s \in Shallow(n)
        PROVE  g[s] = f[s]
    BY <2>1, <2>2 DEF On
  <2>4. ASSUME NEW s \in Shallow(n + 1)
        PROVE  OfParts(g, s) = OfParts(f, s)
    <3> HIDE DEF g
    <3>1. \A i \in DOMAIN s.parts : g[s.parts[i]] = f[s.parts[i]]
      BY <2>3, ShallowParts
    <3> QED
      BY <3>1 DEF OfParts
  <2>5. On(q, Shallow(n + 1), g)
    BY <2>4 DEF On
  <2> QED
    BY <2>5
<1>3. Nat \subseteq S
  <2> HIDE DEF S
  <2> QED
    BY <1>1, <1>2, SetInduction
<1> QED
  BY <1>3

\* Two of them agree where both are defined.
LEMMA ShallowAgree ==
  ASSUME NEW q, NEW m \in Nat, NEW n \in Nat, NEW f, NEW g,
         On(q, Shallow(m), f), On(q, Shallow(n), g)
  PROVE  \A s \in Shallow(m) \cap Shallow(n) : f[s] = g[s]
<1> DEFINE S == {s \in Types : s \in Shallow(m) \cap Shallow(n) => f[s] = g[s]}
<1>1. ASSUME NEW s \in Types, \A i \in DOMAIN s.parts : s.parts[i] \in S
      PROVE  s \in S
  <2> SUFFICES ASSUME s \in Shallow(m), s \in Shallow(n)
               PROVE  f[s] = g[s]
    OBVIOUS
  <2>1. ASSUME NEW i \in DOMAIN s.parts
        PROVE  f[s.parts[i]] = g[s.parts[i]]
    <3>1. s.parts[i] \in Types
      BY TypesAssumption
    <3>2. Nesting[s.parts[i]] < Nesting[s] /\ Nesting[s.parts[i]] \in Nat /\ Nesting[s] \in Nat
      BY <3>1, NestingAssumption
    <3>3. s.parts[i] \in Shallow(m) /\ s.parts[i] \in Shallow(n)
      BY <3>1, <3>2 DEF Shallow
    <3> QED
      BY <3>3, <1>1
  <2>2. OfParts(f, s) = OfParts(g, s)
    BY <2>1 DEF OfParts
  <2>3. f[s] = Step(q, s, OfParts(f, s)) /\ g[s] = Step(q, s, OfParts(g, s))
    BY DEF On
  <2> QED
    BY <2>2, <2>3
<1>2. Types \subseteq S
  <2> HIDE DEF S
  <2> QED
    BY <1>1, TypeInduction
<1> QED
  BY <1>2 DEF Shallow

LEMMA TypeRecursion ==
  ASSUME NEW q
  PROVE  \E f : On(q, Types, f)
<1> DEFINE F(n) == CHOOSE f : On(q, Shallow(n), f)
           g == [s \in Types |-> F(Nesting[s] + 1)[s]]
<1>1. \A n \in Nat : On(q, Shallow(n), F(n))
  BY ShallowRecursion
<1>2. \A s \in Types : Nesting[s] \in Nat /\ Nesting[s] + 1 \in Nat /\ s \in Shallow(Nesting[s] + 1)
  BY NestingAssumption DEF Shallow
<1> HIDE DEF F
<1>3. ASSUME NEW s \in Types
      PROVE  g[s] = Step(q, s, OfParts(g, s))
  <2> DEFINE n == Nesting[s] + 1
  <2>1. n \in Nat /\ s \in Shallow(n)
    BY <1>2
  <2>2. F(n)[s] = Step(q, s, OfParts(F(n), s))
    BY <1>1, <2>1 DEF On
  <2>3. ASSUME NEW i \in DOMAIN s.parts
        PROVE  g[s.parts[i]] = F(n)[s.parts[i]]
    <3> DEFINE m == Nesting[s.parts[i]] + 1
    <3>1. s.parts[i] \in Types
      BY TypesAssumption
    <3>2. m \in Nat /\ s.parts[i] \in Shallow(m)
      BY <3>1, <1>2
    <3>3. s.parts[i] \in Shallow(n)
      <4>1. Nesting[s.parts[i]] < Nesting[s] /\ Nesting[s.parts[i]] \in Nat /\ Nesting[s] \in Nat
        BY <3>1, NestingAssumption
      <4> QED
        BY <4>1, <3>1 DEF Shallow
    <3>4. g[s.parts[i]] = F(m)[s.parts[i]]
      BY <3>1
    <3> HIDE DEF m, n, g
    <3>5. F(m)[s.parts[i]] = F(n)[s.parts[i]]
      <4>1. On(q, Shallow(m), F(m)) /\ On(q, Shallow(n), F(n))
        BY <1>1, <2>1, <3>2
      <4> QED
        BY <4>1, <2>1, <3>2, <3>3, ShallowAgree
    <3> QED
      BY <3>4, <3>5
  <2>4. g[s] = F(n)[s]
    OBVIOUS
  <2> HIDE DEF g, n
  <2>5. OfParts(g, s) = OfParts(F(n), s)
    BY <2>3 DEF OfParts
  <2> QED
    BY <2>2, <2>4, <2>5
<1>4. On(q, Types, g)
  <2>1. g = [s \in Types |-> g[s]]
    OBVIOUS
  <2> HIDE DEF g
  <2> QED
    BY <2>1, <1>3 DEF On
<1> QED
  BY <1>4

-----------------------------------------------------------------------------
(* What each of the recursive functions is for a type.                      *)

LEMMA ValueUnfold == \A s \in Types : Value[s] = ValuesOf(s, OfParts(Value, s))
<1> DEFINE Is(f) == f = [s \in Types |-> ValuesOf(s, [i \in DOMAIN s.parts |-> f[s.parts[i]]])]
<1>1. \E f : Is(f)
  <2>1. PICK f : On("Value", Types, f)
    BY TypeRecursion
  <2>2. Is(f)
    BY <2>1 DEF On, Step, OfParts
  <2> QED
    BY <2>2
<1>2. Value = CHOOSE f : Is(f)
  BY DEF Value
<1>3. Is(Value)
  <2> HIDE DEF Is
  <2> QED
    BY <1>1, <1>2
<1> QED
  BY <1>3 DEF OfParts

LEMMA DefaultUnfold == \A s \in Types : Default[s] = DefaultOf(s, OfParts(Default, s))
<1> DEFINE Is(f) == f = [s \in Types |-> DefaultOf(s, [i \in DOMAIN s.parts |-> f[s.parts[i]]])]
<1>1. \E f : Is(f)
  <2>1. PICK f : On("Default", Types, f)
    BY TypeRecursion
  <2>2. Is(f)
    BY <2>1 DEF On, Step, OfParts
  <2> QED
    BY <2>2
<1>2. Default = CHOOSE f : Is(f)
  BY DEF Default
<1>3. Is(Default)
  <2> HIDE DEF Is
  <2> QED
    BY <1>1, <1>2
<1> QED
  BY <1>3 DEF OfParts

LEMMA ParseUnfold == \A s \in Types : Parse[s] = ParseOf(s, OfParts(Parse, s))
<1> DEFINE Is(f) == f = [s \in Types |-> ParseOf(s, [i \in DOMAIN s.parts |-> f[s.parts[i]]])]
<1>1. \E f : Is(f)
  <2>1. PICK f : On("Parse", Types, f)
    BY TypeRecursion
  <2>2. Is(f)
    BY <2>1 DEF On, Step, OfParts
  <2> QED
    BY <2>2
<1>2. Parse = CHOOSE f : Is(f)
  BY DEF Parse
<1>3. Is(Parse)
  <2> HIDE DEF Is
  <2> QED
    BY <1>1, <1>2
<1> QED
  BY <1>3 DEF OfParts

LEMMA MeantUnfold == \A s \in Types : Meant[s] = MeantOf(s, OfParts(Meant, s))
<1> DEFINE Is(f) == f = [s \in Types |-> MeantOf(s, [i \in DOMAIN s.parts |-> f[s.parts[i]]])]
<1>1. \E f : Is(f)
  <2>1. PICK f : On("Meant", Types, f)
    BY TypeRecursion
  <2>2. Is(f)
    BY <2>1 DEF On, Step, OfParts
  <2> QED
    BY <2>2
<1>2. Meant = CHOOSE f : Is(f)
  BY DEF Meant
<1>3. Is(Meant)
  <2> HIDE DEF Is
  <2> QED
    BY <1>1, <1>2
<1> QED
  BY <1>3 DEF OfParts

LEMMA CompleteUnfold == \A s \in Types : Complete[s] = CompleteOf(s, OfParts(Complete, s))
<1> DEFINE Is(f) == f = [s \in Types |-> CompleteOf(s, [i \in DOMAIN s.parts |-> f[s.parts[i]]])]
<1>1. \E f : Is(f)
  <2>1. PICK f : On("Complete", Types, f)
    BY TypeRecursion
  <2>2. Is(f)
    BY <2>1 DEF On, Step, OfParts
  <2> QED
    BY <2>2
<1>2. Complete = CHOOSE f : Is(f)
  BY DEF Complete
<1>3. Is(Complete)
  <2> HIDE DEF Is
  <2> QED
    BY <1>1, <1>2
<1> QED
  BY <1>3 DEF OfParts

LEMMA FaultsUnfold == \A s \in Types : Faults[s] = FaultsOf(s, OfParts(Faults, s))
<1> DEFINE Is(f) == f = [s \in Types |-> FaultsOf(s, [i \in DOMAIN s.parts |-> f[s.parts[i]]])]
<1>1. \E f : Is(f)
  <2>1. PICK f : On("Faults", Types, f)
    BY TypeRecursion
  <2>2. Is(f)
    BY <2>1 DEF On, Step, OfParts
  <2> QED
    BY <2>2
<1>2. Faults = CHOOSE f : Is(f)
  BY DEF Faults
<1>3. Is(Faults)
  <2> HIDE DEF Is
  <2> QED
    BY <1>1, <1>2
<1> QED
  BY <1>3 DEF OfParts

LEMMA LeftOutUnfold == \A s \in Types : MayBeLeftOut[s] = ConvertsFromNull(s, OfParts(MayBeLeftOut, s))
<1> DEFINE Is(f) == f = [s \in Types |-> ConvertsFromNull(s, [i \in DOMAIN s.parts |-> f[s.parts[i]]])]
<1>1. \E f : Is(f)
  <2>1. PICK f : On("MayBeLeftOut", Types, f)
    BY TypeRecursion
  <2>2. Is(f)
    BY <2>1 DEF On, Step, OfParts
  <2> QED
    BY <2>2
<1>2. MayBeLeftOut = CHOOSE f : Is(f)
  BY DEF MayBeLeftOut
<1>3. Is(MayBeLeftOut)
  <2> HIDE DEF Is
  <2> QED
    BY <1>1, <1>2
<1> QED
  BY <1>3 DEF OfParts

-----------------------------------------------------------------------------
(* Sequences.                                                               *)

LEMMA AnyOfContains ==
  ASSUME NEW n \in Nat, NEW sets, Len(sets) = n, DOMAIN sets = 1..n
  PROVE  \A i \in 1..n : sets[i] \subseteq AnyOf(sets)
<1> DEFINE X == SUBSET UNION {sets[i] : i \in 1..n}
           step == [i \in 1..n |-> [x \in X |-> sets[i] \cup x]]
           Is(f) == f = [i \in 1..(n + 1) |-> IF i = n + 1 THEN {} ELSE sets[i] \cup f[i + 1]]
<1>1. step \in Steps(n, X)
  BY DEF Steps
<1>2. PICK h : Follows(h, n, X, {}, step)
  <2>1. {} \in X
    OBVIOUS
  <2> HIDE DEF X, step
  <2> QED
    BY <1>1, <2>1, RecursionDownwards
<1>3. Is(h)
  <2>1. /\ h \in [1..(n + 1) -> X]
        /\ h[n + 1] = {}
        /\ \A i \in 1..n : h[i] = step[i][h[i + 1]]
    BY <1>2 DEF Follows
  <2>2. ASSUME NEW i \in 1..n
        PROVE  h[i] = sets[i] \cup h[i + 1]
    <3>1. i + 1 \in 1..(n + 1)
      OBVIOUS
    <3>2. h[i + 1] \in X
      BY <3>1, <2>1
    <3> QED
      BY <3>2, <2>1
  <2> HIDE DEF X, step
  <2>3. \A i \in 1..(n + 1) : i # n + 1 => i \in 1..n
    OBVIOUS
  <2>4. h = [i \in 1..(n + 1) |-> h[i]]
    BY <2>1
  <2> QED
    BY <2>1, <2>2, <2>3, <2>4
<1> DEFINE f == CHOOSE g : Is(g)
<1>4. Is(f)
  <2> HIDE DEF Is
  <2> QED
    BY <1>3
<1>5. AnyOf(sets) = f[1]
  BY DEF AnyOf
<1> HIDE DEF f
<1>6. \A i \in 1..n : f[i] = sets[i] \cup f[i + 1]
  <2>1. \A i \in 1..n : i \in 1..(n + 1) /\ i # n + 1
    OBVIOUS
  <2> QED
    BY <2>1, <1>4
<1> HIDE DEF Is
<1> SUFFICES ASSUME NEW i \in 1..n
             PROVE  sets[i] \subseteq f[1]
  BY <1>5
<1> DEFINE S == {k \in 1..n : k <= i => f[k] \subseteq f[1]}
<1>7. 1 \in S
  OBVIOUS
<1>8. ASSUME NEW k \in 1..(n - 1), k \in S
      PROVE  k + 1 \in S
  <2>1. k \in 1..n /\ k + 1 \in 1..n
    OBVIOUS
  <2>2. f[k + 1] \subseteq f[k]
    BY <2>1, <1>6
  <2>3. k + 1 <= i => k <= i
    OBVIOUS
  <2> QED
    BY <1>8, <2>1, <2>2, <2>3
<1>9. 1..n \subseteq S
  <2> HIDE DEF S
  <2> QED
    BY <1>7, <1>8, Upwards
<1> QED
  BY <1>6, <1>9

LEMMA HeadStays ==
  ASSUME NEW T, NEW front \in Seq(T), NEW rest \in Seq(T), front # <<>>
  PROVE  front \o rest # <<>> /\ Head(front \o rest) = Head(front)
<1>1. Len(front) \in Nat \ {0} /\ Len(rest) \in Nat
  OBVIOUS
<1>2. front \o rest \in Seq(T) /\ Len(front \o rest) = Len(front) + Len(rest)
  OBVIOUS
<1>3. (front \o rest)[1] = front[1]
  BY <1>1
<1> QED
  BY <1>1, <1>2, <1>3

\* The first of a sequence of exceptions, if there is one.
FirstOf(faults) == IF faults = <<>> THEN NoError ELSE Head(faults)

\* The first one of sequences put one behind the other.
LEMMA FlattenFirst ==
  ASSUME NEW T, NEW seqs \in Seq(Seq(T)), NEW at \in 1..(Len(seqs) + 1),
         \A i \in 1..(at - 1) : seqs[i] = <<>>,
         at <= Len(seqs) => seqs[at] # <<>>
  PROVE  /\ FlattenSeq(seqs) \in Seq(T)
         /\ FirstOf(FlattenSeq(seqs)) = IF at <= Len(seqs) THEN Head(seqs[at]) ELSE NoError
         /\ FlattenSeq(seqs) = <<>> <=> at = Len(seqs) + 1
<1>1. CASE seqs = <<>>
  BY <1>1 DEF FlattenSeq, FirstOf
<1>2. CASE seqs # <<>>
  <2> DEFINE n == Len(seqs)
  <2>1. n \in Nat \ {0} /\ \A i \in 1..n : seqs[i] \in Seq(T)
    BY <1>2
  <2>2. PICK f : FlattenedUpTo(T, seqs, f) /\ FlattenSeq(seqs) = f[n]
    BY <1>2, FlattenFold
  <2>3. /\ f \in [1..n -> Seq(T)]
        /\ f[1] = seqs[1]
        /\ \A i \in 1..(n - 1) : f[i + 1] = f[i] \o seqs[i + 1]
    BY <2>2 DEF FlattenedUpTo
  <2>7. n \in 1..n /\ at \in 1..(n + 1)
    BY <2>1
  <2> HIDE DEF n
  <2> DEFINE Right(i) == IF i < at THEN f[i] = <<>> ELSE f[i] # <<>> /\ Head(f[i]) = Head(seqs[at])
             S == {i \in 1..n : Right(i)}
  <2>4. 1 \in S
    <3>1. 1 \in 1..n
      BY <2>1
    <3>2. CASE 1 < at
      BY <3>1, <3>2, <2>3, <2>7
    <3>3. CASE at = 1
      BY <3>1, <3>3, <2>3, <2>1 DEF n
    <3> QED
      BY <3>2, <3>3, <2>7
  <2>5. ASSUME NEW i \in 1..(n - 1), i \in S
        PROVE  i + 1 \in S
    <3>1. i \in 1..n /\ i + 1 \in 1..n
      BY <2>1
    <3>2. f[i] \in Seq(T) /\ seqs[i + 1] \in Seq(T) /\ f[i + 1] = f[i] \o seqs[i + 1]
      BY <3>1, <2>1, <2>3
    <3>3. CASE i + 1 < at
      <4>1. f[i] = <<>> /\ seqs[i + 1] = <<>>
        BY <3>1, <3>3, <2>5, <2>7
      <4>2. f[i + 1] = <<>>
        BY <3>2, <4>1
      <4> QED
        BY <3>1, <3>3, <4>2
    <3>4. CASE i + 1 = at
      <4>1. f[i] = <<>> /\ seqs[i + 1] # <<>>
        BY <3>1, <3>4, <2>5, <2>7 DEF n
      <4>2. f[i + 1] = seqs[i + 1]
        BY <3>2, <4>1
      <4> QED
        BY <3>1, <3>4, <4>1, <4>2
    <3>5. CASE at < i + 1
      <4>1. f[i] # <<>> /\ Head(f[i]) = Head(seqs[at])
        BY <3>1, <3>5, <2>5, <2>7
      <4>4. f[i + 1] # <<>> /\ Head(f[i + 1]) = Head(f[i])
        BY <3>2, <4>1, HeadStays
      <4> QED
        BY <3>1, <3>5, <4>1, <4>4
    <3> QED
      BY <3>1, <3>3, <3>4, <3>5, <2>7
  <2>6. 1..n \subseteq S
    <3> HIDE DEF S
    <3> QED
      BY <2>1, <2>4, <2>5, Upwards
  <2>8. Right(n) /\ f[n] \in Seq(T)
    BY <2>3, <2>6, <2>7
  <2>9. at <= n <=> ~ (n < at)
    BY <2>1, <2>7
  <2>10. n < at <=> at = n + 1
    BY <2>1, <2>7
  <2> QED
    BY <2>2, <2>8, <2>9, <2>10 DEF FirstOf, n
<1> QED
  BY <1>1, <1>2

\* Values are read one after another up to the one that throws: it is the one
\* at which they stop, or none is.
StopsAt(results, at) ==
  /\ at \in 1..(Len(results) + 1)
  /\ \A i \in 1..(at - 1) : results[i].error = NoError
  /\ at <= Len(results) => results[at].error # NoError

LEMMA ReadingStops ==
  ASSUME NEW n \in Nat, NEW results, DOMAIN results = 1..n, Len(results) = n
  PROVE  /\ StopsAt(results, Completed(results) + 1)
         /\ \A at : StopsAt(results, at) =>
              /\ at = Completed(results) + 1
              /\ FirstError(results) = IF at <= n THEN results[at].error ELSE NoError
<1> DEFINE F == Failing(results)
<1>1. F = {i \in 1..n : results[i].error # NoError}
  BY DEF Failing
<1>2. StopsAt(results, Completed(results) + 1)
  <2>1. CASE F = {}
    BY <2>1, <1>1 DEF Completed, StopsAt
  <2>2. CASE F # {}
    <3>1. Min(F) \in F /\ \A i \in F : Min(F) <= i
      <4>1. F \subseteq Nat
        BY <1>1
      <4> HIDE DEF F
      <4> QED
        BY <2>2, <4>1, LeastIsIn
    <3>2. Completed(results) + 1 = Min(F)
      BY <2>2, <3>1, <1>1 DEF Completed
    <3> HIDE DEF F
    <3>3. ASSUME NEW i \in 1..(Min(F) - 1)
          PROVE  results[i].error = NoError
      BY <3>1, <1>1
    <3> QED
      BY <3>1, <3>2, <3>3, <1>1 DEF StopsAt
  <2> QED
    BY <2>1, <2>2
<1>3. ASSUME NEW at, NEW other, StopsAt(results, at), StopsAt(results, other)
      PROVE  at = other
  <2>1. at \in 1..(n + 1) /\ other \in 1..(n + 1)
    BY <1>3 DEF StopsAt
  <2>2. ~ (at < other)
    <3>1. SUFFICES ASSUME at < other
                   PROVE  FALSE
      OBVIOUS
    <3>2. at \in 1..(other - 1) /\ at <= n
      BY <2>1, <3>1
    <3> QED
      BY <3>2, <1>3 DEF StopsAt
  <2>3. ~ (other < at)
    <3>1. SUFFICES ASSUME other < at
                   PROVE  FALSE
      OBVIOUS
    <3>2. other \in 1..(at - 1) /\ other <= n
      BY <2>1, <3>1
    <3> QED
      BY <3>2, <1>3 DEF StopsAt
  <2> QED
    BY <2>1, <2>2, <2>3
<1>4. FirstError(results) = IF Completed(results) + 1 <= n
                            THEN results[Completed(results) + 1].error ELSE NoError
  <2>1. CASE F = {}
    BY <2>1 DEF Completed, FirstError
  <2>2. CASE F # {}
    <3>1. Min(F) \in F
      <4>1. F \subseteq Nat
        BY <1>1
      <4> HIDE DEF F
      <4> QED
        BY <2>2, <4>1, LeastIsIn
    <3>2. Completed(results) + 1 = Min(F) /\ Min(F) \in 1..n
      BY <2>2, <3>1, <1>1 DEF Completed
    <3> QED
      BY <2>2, <3>2 DEF FirstError
  <2> QED
    BY <2>1, <2>2
<1> QED
  BY <1>2, <1>3, <1>4

\* The exceptions of a parse: on their way out they are made anew as they were.
Kept == ReadingFailures \cup {"runtime_error"}

LEMMA FirstOfKept ==
  ASSUME NEW faults \in Seq(Kept)
  PROVE  /\ FirstOf(faults) \in Kept \cup {NoError}
         /\ FirstOf(faults) = NoError <=> faults = <<>>
<1>1. NoError \notin Kept
  BY DEF Kept, ReadingFailures, NoError
<1>2. CASE faults = <<>>
  BY <1>2 DEF FirstOf
<1>3. CASE faults # <<>>
  <2>1. Head(faults) \in Kept
    BY <1>3
  <2> QED
    BY <1>1, <1>3, <2>1 DEF FirstOf
<1> QED
  BY <1>2, <1>3

LEMMA RewrapKeeps ==
  ASSUME NEW result, result.error \in Kept \cup {NoError}
  PROVE  Rewrap(result).error = result.error /\ Rewrap(result).value = result.value
BY DEF Rewrap, Result, Rewrapped, Kept, NoError, ReadingFailures, LoadingFailures, ParsingFailures, RuntimeErrors

UpTo(at, n, results, old) == [i \in 1..n |-> IF i <= at THEN results[i].value ELSE old[i]]

\* InOrder, said without a choice.
LEMMA InOrderIs ==
  ASSUME NEW n \in Nat, NEW results, DOMAIN results = 1..n, Len(results) = n,
         NEW old, DOMAIN old = 1..n
  PROVE  \E at : /\ StopsAt(results, at)
                 /\ InOrder(results, old) =
                      Result(Whole(UpTo(at, n, results, old)),
                             IF at <= n THEN results[at].error ELSE NoError)
<1>1. StopsAt(results, Completed(results) + 1)
  BY ReadingStops
<1>2. FirstError(results) = IF Completed(results) + 1 <= n
                            THEN results[Completed(results) + 1].error ELSE NoError
  BY <1>1, ReadingStops
<1> QED
  BY <1>1, <1>2 DEF InOrder, UpTo

\* If each has the first of its faults for an exception, so have all together.
LEMMA ErrorsAreFirst ==
  ASSUME NEW n \in Nat, NEW results, DOMAIN results = 1..n, Len(results) = n,
         NEW faults \in Seq(Seq(Kept)), Len(faults) = n,
         \A i \in 1..n : results[i].error = FirstOf(faults[i])
  PROVE  /\ FlattenSeq(faults) \in Seq(Kept)
         /\ FirstError(results) = FirstOf(FlattenSeq(faults))
         /\ \A at : StopsAt(results, at) =>
              (FlattenSeq(faults) = <<>> <=> at = n + 1)
<1> DEFINE at == Completed(results) + 1
<1>1. StopsAt(results, at)
  BY ReadingStops
<1>2. FirstError(results) = IF at <= n THEN results[at].error ELSE NoError
  BY <1>1, ReadingStops
<1>3. \A other : StopsAt(results, other) => other = at
  BY ReadingStops
<1> HIDE DEF at
<1>4. /\ at \in 1..(n + 1)
      /\ \A i \in 1..(at - 1) : results[i].error = NoError
      /\ at <= n => results[at].error # NoError
  BY <1>1 DEF StopsAt
<1>5. \A i \in 1..n : faults[i] \in Seq(Kept)
  OBVIOUS
<1>6. \A i \in 1..n : results[i].error = NoError <=> faults[i] = <<>>
  BY <1>5, FirstOfKept
<1>7. \A i \in 1..(at - 1) : faults[i] = <<>>
  BY <1>4, <1>6
<1>8. at <= n => faults[at] # <<>>
  BY <1>4, <1>6
<1>9. /\ FlattenSeq(faults) \in Seq(Kept)
      /\ FirstOf(FlattenSeq(faults)) = IF at <= n THEN Head(faults[at]) ELSE NoError
      /\ FlattenSeq(faults) = <<>> <=> at = n + 1
  BY <1>4, <1>7, <1>8, FlattenFirst
<1>10. at <= n => results[at].error = Head(faults[at])
  BY <1>4, <1>8 DEF FirstOf
<1> QED
  BY <1>2, <1>3, <1>9, <1>10

-----------------------------------------------------------------------------
(* What that comes to for each kind of type.                                *)

Leaves == {"integral", "floating"} \cup TextTypes

LEMMA Kinds ==
  ASSUME NEW s \in Types
  PROVE  /\ s.is \in Leaves \cup Containers \cup Tuples
         /\ s.parts \in Seq(Types)
         /\ Len(s.parts) \in Nat
         /\ DOMAIN s.parts = 1..Len(s.parts)
         /\ \A i \in 1..Len(s.parts) : s.parts[i] \in Types
BY TypesAssumption DEF Leaves

\* The only part of a container.
LEMMA ContainerPart ==
  ASSUME NEW s \in Types, s.is \in Containers
  PROVE  /\ s.parts[1] \in Types
         /\ DOMAIN s.parts = 1..1
         /\ \A f : OfParts(f, s)[1] = f[s.parts[1]]
<1>1. Len(s.parts) = 1
  BY TypesAssumption
<1>2. 1 \in DOMAIN s.parts
  BY <1>1, Kinds
<1> QED
  BY <1>1, <1>2, Kinds DEF OfParts

LEMMA TupleParts ==
  ASSUME NEW s \in Types, NEW f
  PROVE  /\ DOMAIN OfParts(f, s) = 1..Len(s.parts)
         /\ Len(OfParts(f, s)) = Len(s.parts)
         /\ \A i \in 1..Len(s.parts) : OfParts(f, s)[i] = f[s.parts[i]]
BY Kinds DEF OfParts

LEMMA WholesAre ==
  ASSUME NEW P
  PROVE  /\ \A v \in Wholes(P) : v = Whole(v.parts) /\ v.parts \in P
         /\ \A p \in P : Whole(p) \in Wholes(P) /\ Whole(p).parts = p
<1>1. ASSUME NEW v \in Wholes(P)
      PROVE  v = Whole(v.parts) /\ v.parts \in P
  <2>1. v.parts \in P /\ v.number = 0 /\ v.text = "" /\ v.keys = <<>>
    BY DEF Wholes
  <2>2. v = [number |-> v.number, text |-> v.text, keys |-> v.keys, parts |-> v.parts]
    BY DEF Wholes
  <2> QED
    BY <2>1, <2>2 DEF Whole, Map
<1>2. ASSUME NEW p \in P
      PROVE  Whole(p) \in Wholes(P) /\ Whole(p).parts = p
  BY DEF Whole, Wholes, Map
<1> QED
  BY <1>1, <1>2

LEMMA ValueIs ==
  ASSUME NEW s \in Types
  PROVE  /\ s.is = "integral" => Value[s] = Numbers(s.range)
         /\ s.is = "floating" => Value[s] = Numbers(Int)
         /\ s.is \in TextTypes => Value[s] = Texts
         /\ s.is = "vector" => Value[s] = Wholes(Seq(Value[s.parts[1]]))
         /\ s.is = "array" => Value[s] = Wholes([1..s.size -> Value[s.parts[1]]])
         /\ s.is = "optional" => Value[s] = Wholes({p \in Seq(Value[s.parts[1]]) : Len(p) <= 1})
         /\ s.is = "map" => Value[s] = {m \in Maps(Value[s.parts[1]]) :
                                          /\ Len(m.keys) = Len(m.parts)
                                          /\ IsInjective(m.keys)}
         /\ s.is = "multimap" => Value[s] = {m \in Maps(Value[s.parts[1]]) :
                                               Len(m.keys) = Len(m.parts)}
<1>1. Value[s] = ValuesOf(s, OfParts(Value, s))
  BY ValueUnfold
<1>2. s.is \in Containers => OfParts(Value, s)[1] = Value[s.parts[1]]
  BY ContainerPart
<1> QED
  BY <1>1, <1>2 DEF ValuesOf, Containers, Tuples, TextTypes

\* A tuple is any value for each of its elements.
LEMMA TupleValueIs ==
  ASSUME NEW s \in Types, s.is \in Tuples
  PROVE  /\ \A v \in Value[s] :
              /\ v = Whole(v.parts)
              /\ v.parts = [i \in 1..Len(s.parts) |-> v.parts[i]]
              /\ \A i \in 1..Len(s.parts) : v.parts[i] \in Value[s.parts[i]]
         /\ \A p : /\ p = [i \in 1..Len(s.parts) |-> p[i]]
                   /\ \A i \in 1..Len(s.parts) : p[i] \in Value[s.parts[i]]
                   => Whole(p) \in Value[s]
<1> DEFINE n == Len(s.parts)
           of == OfParts(Value, s)
           P == {p \in [1..n -> AnyOf(of)] : \A i \in 1..n : p[i] \in of[i]}
<1>1. DOMAIN of = 1..n /\ Len(of) = n /\ \A i \in 1..n : of[i] = Value[s.parts[i]]
  BY TupleParts
<1>2. n \in Nat
  BY Kinds
<1> HIDE DEF of, n
<1>3. Value[s] = Wholes(P)
  <2>1. Value[s] = ValuesOf(s, of)
    BY ValueUnfold DEF of
  <2>2. ValuesOf(s, of) = Wholes({p \in [DOMAIN of -> AnyOf(of)] : \A i \in DOMAIN of : p[i] \in of[i]})
    BY DEF ValuesOf, Tuples
  <2> QED
    BY <2>1, <2>2, <1>1
<1>4. \A i \in 1..n : of[i] \subseteq AnyOf(of)
  BY <1>1, <1>2, AnyOfContains
<1>5. ASSUME NEW v \in Value[s]
      PROVE  /\ v = Whole(v.parts)
             /\ v.parts = [i \in 1..n |-> v.parts[i]]
             /\ \A i \in 1..n : v.parts[i] \in Value[s.parts[i]]
  <2>1. v.parts \in P /\ v = Whole(v.parts)
    <3> HIDE DEF P
    <3> QED
      BY <1>3, WholesAre
  <2> QED
    BY <2>1, <1>1
<1>6. ASSUME NEW p, p = [i \in 1..n |-> p[i]], \A i \in 1..n : p[i] \in Value[s.parts[i]]
      PROVE  Whole(p) \in Value[s]
  <2>1. \A i \in 1..n : p[i] \in of[i] /\ p[i] \in AnyOf(of)
    BY <1>1, <1>4, <1>6
  <2>2. p \in [1..n -> AnyOf(of)]
    BY <1>6, <2>1
  <2>3. p \in P
    BY <2>1, <2>2
  <2> HIDE DEF P
  <2> QED
    BY <2>3, <1>3, WholesAre
<1> QED
  BY <1>5, <1>6 DEF n

LEMMA DefaultIs ==
  ASSUME NEW s \in Types
  PROVE  /\ s.is \in {"integral", "floating"} => Default[s] = Number(0)
         /\ s.is \in TextTypes => Default[s] = Text("")
         /\ s.is \in {"vector", "map", "multimap", "optional"} => Default[s] = Whole(<<>>)
         /\ s.is = "array" => Default[s] = Whole([i \in 1..s.size |-> Default[s.parts[1]]])
         /\ s.is \in Tuples => Default[s] = Whole([i \in 1..Len(s.parts) |-> Default[s.parts[i]]])
<1>1. Default[s] = DefaultOf(s, OfParts(Default, s))
  BY DefaultUnfold
<1>2. s.is \in Containers => OfParts(Default, s)[1] = Default[s.parts[1]]
  BY ContainerPart
<1>3. OfParts(Default, s) = [i \in 1..Len(s.parts) |-> Default[s.parts[i]]]
  BY Kinds DEF OfParts
<1> QED
  BY <1>1, <1>2, <1>3 DEF DefaultOf, Containers, Tuples, TextTypes

LEMMA ParseIs ==
  ASSUME NEW s \in Types, NEW json \in Json, NEW old \in Value[s]
  PROVE  /\ s.is = "integral" => Parse[s][json][old] = ParseIntegral(json, s, old)
         /\ s.is = "floating" => Parse[s][json][old] = ParseFloating(json, old)
         /\ s.is \in TextTypes => Parse[s][json][old] = ParseString(json, old)
         /\ s.is = "vector" => Parse[s][json][old] = ParseVector(json, s, old, Parse[s.parts[1]])
         /\ s.is = "array" => Parse[s][json][old] = ParseArray(json, s, old, Parse[s.parts[1]])
         /\ s.is \in {"map", "multimap"} =>
              Parse[s][json][old] = ParseMap(json, s, old, Parse[s.parts[1]])
         /\ s.is = "optional" => Parse[s][json][old] = ParseOptional(json, s, old, Parse[s.parts[1]])
         /\ s.is = "tuple" => Parse[s][json][old] = ParseTuple(json, s, old, OfParts(Parse, s))
         /\ s.is = "tuplemap" => Parse[s][json][old] = ParseTupleMap(json, s, old, OfParts(Parse, s))
<1>1. Parse[s] = ParseOf(s, OfParts(Parse, s))
  BY ParseUnfold
<1>2. s.is \in Containers => OfParts(Parse, s)[1] = Parse[s.parts[1]]
  BY ContainerPart
<1> QED
  BY <1>1, <1>2 DEF ParseOf, Containers, Tuples, TextTypes

LEMMA MeantIs ==
  ASSUME NEW s \in Types, NEW json \in Json
  PROVE  Meant[s][json] = {v \in Value[s] : Says(json, s, v, OfParts(Meant, s))}
BY MeantUnfold DEF MeantOf

LEMMA CompleteIs ==
  ASSUME NEW s \in Types, NEW json \in Json
  PROVE  Complete[s][json] = LeavesNothingOut(json, s, OfParts(Complete, s))
BY CompleteUnfold DEF CompleteOf

LEMMA FaultsIs ==
  ASSUME NEW s \in Types, NEW json \in Json
  PROVE  Faults[s][json] = FaultsIn(json, s, OfParts(Faults, s))
BY FaultsUnfold DEF FaultsOf

-----------------------------------------------------------------------------
(* Each kind of type is read as it should be, if its parts are.             *)

\* Whatever was there before: the result is of the type, the exception that of
\* the first fault, and without one the result is what the document means.
ReadsRight(s, json) ==
  /\ Faults[s][json] \in Seq(Kept)
  /\ \A old \in Value[s] :
       /\ Parse[s][json][old].value \in Value[s]
       /\ Parse[s][json][old].error = FirstOf(Faults[s][json])
       /\ Parse[s][json][old].error = NoError => Parse[s][json][old].value \in Meant[s][json]

\* What was there before does not matter.
ReadsAfresh(s, json) ==
  \A a, b \in Value[s] : Parse[s][json][a].value = Parse[s][json][b].value

Refilled == {"vector", "map", "multimap"}

Reads(s, json) ==
  /\ ReadsRight(s, json)
  /\ (Complete[s][json] \/ s.is \in Refilled) /\ Faults[s][json] = <<>> => ReadsAfresh(s, json)

Good(s) == Default[s] \in Value[s] /\ \A json \in Json : Reads(s, json)

GoodParts(s) == \A i \in 1..Len(s.parts) : Good(s.parts[i])

LEMMA ResultIs == \A v, e : Result(v, e).value = v /\ Result(v, e).error = e
BY DEF Result

\* A document that is wrong from the start.
LEMMA ReadsNothing ==
  ASSUME NEW s \in Types, NEW json \in Json, NEW e \in ReadingFailures,
         Faults[s][json] = <<e>>,
         \A old \in Value[s] : Parse[s][json][old] = Result(old, e)
  PROVE  Reads(s, json)
<1>1. <<e>> \in Seq(Kept) /\ <<e>> # <<>> /\ FirstOf(<<e>>) = e /\ e # NoError
  BY DEF Kept, FirstOf, NoError, ReadingFailures
<1>2. \A old \in Value[s] : Parse[s][json][old].value = old /\ Parse[s][json][old].error = e
  BY ResultIs
<1>3. ReadsRight(s, json)
  BY <1>1, <1>2 DEF ReadsRight
<1> QED
  BY <1>1, <1>3 DEF Reads

\* A document that is right, and read to the same value always.
LEMMA ReadsAlways ==
  ASSUME NEW s \in Types, NEW json \in Json, NEW v \in Value[s],
         Faults[s][json] = <<>>,
         Says(json, s, v, OfParts(Meant, s)),
         \A old \in Value[s] : Parse[s][json][old] = Result(v, NoError)
  PROVE  Reads(s, json)
<1>1. v \in Meant[s][json]
  BY MeantIs
<1>2. \A old \in Value[s] : Parse[s][json][old].value = v /\ Parse[s][json][old].error = NoError
  BY ResultIs
<1>3. <<>> \in Seq(Kept) /\ FirstOf(<<>>) = NoError
  BY DEF FirstOf
<1> QED
  BY <1>1, <1>2, <1>3 DEF Reads, ReadsRight, ReadsAfresh

LEMMA IntegralGood ==
  ASSUME NEW s \in Types, s.is = "integral"
  PROVE  Good(s)
<1>1. Value[s] = Numbers(s.range) /\ Default[s] = Number(0)
  BY ValueIs, DefaultIs
<1>2. s.range \subseteq Int /\ 0 \in s.range
  BY TypesAssumption
<1>3. \A n \in s.range : Number(n) \in Value[s] /\ Number(n).number = n
  BY <1>1 DEF Numbers, Number
<1>4. ASSUME NEW json \in Json
      PROVE  Reads(s, json)
  <2> DEFINE n == json.halves \div 2
             right == IsWhole(json) /\ n \in s.range
  <2>1. \A old \in Value[s] :
          Parse[s][json][old] = IF right THEN Result(Number(n), NoError) ELSE Result(old, "TypeMismatch")
    BY ParseIs DEF ParseIntegral, Mismatch
  <2>2. IsWhole(json) => json.halves \in Int /\ 2 * n = json.halves
    BY JsonAssumption DEF IsWhole
  <2>3. right <=> IsWhole(json) /\ \E m \in s.range : json.halves = 2 * m
    BY <1>2, <2>2
  <2>4. Faults[s][json] = IF right THEN <<>> ELSE <<"TypeMismatch">>
    BY <2>3, FaultsIs DEF FaultsIn, TextTypes
  <2>5. CASE right
    <3>1. Number(n) \in Value[s] /\ Number(n).number = n
      BY <1>3, <2>5
    <3>2. Says(json, s, Number(n), OfParts(Meant, s))
      BY <2>2, <2>5, <3>1 DEF Says, TextTypes, IsWhole
    <3> HIDE DEF n
    <3> QED
      BY <2>1, <2>4, <2>5, <3>1, <3>2, ReadsAlways
  <2>6. CASE ~right
    <3> HIDE DEF right
    <3>1. "TypeMismatch" \in ReadingFailures
      BY DEF ReadingFailures
    <3> QED
      BY <2>1, <2>4, <2>6, <3>1, ReadsNothing
  <2> QED
    BY <2>5, <2>6
<1> QED
  BY <1>1, <1>2, <1>3, <1>4 DEF Good

LEMMA FloatingGood ==
  ASSUME NEW s \in Types, s.is = "floating"
  PROVE  Good(s)
<1>1. Value[s] = Numbers(Int) /\ Default[s] = Number(0)
  BY ValueIs, DefaultIs
<1>2. \A n \in Int : Number(n) \in Value[s] /\ Number(n).number = n
  BY <1>1 DEF Numbers, Number
<1>3. ASSUME NEW json \in Json
      PROVE  Reads(s, json)
  <2>1. \A old \in Value[s] :
          Parse[s][json][old] = IF json.is = "number" THEN Result(Number(json.halves), NoError)
                                ELSE Result(old, "TypeMismatch")
    BY ParseIs DEF ParseFloating, Mismatch
  <2>2. Faults[s][json] = IF json.is = "number" THEN <<>> ELSE <<"TypeMismatch">>
    BY FaultsIs DEF FaultsIn, TextTypes
  <2>3. CASE json.is = "number"
    <3>1. Number(json.halves) \in Value[s] /\ Number(json.halves).number = json.halves
      BY <1>2, <2>3, JsonAssumption
    <3>2. Says(json, s, Number(json.halves), OfParts(Meant, s))
      BY <2>3, <3>1 DEF Says, TextTypes
    <3> QED
      BY <2>1, <2>2, <2>3, <3>1, <3>2, ReadsAlways
  <2>4. CASE json.is # "number"
    <3>1. "TypeMismatch" \in ReadingFailures
      BY DEF ReadingFailures
    <3> QED
      BY <2>1, <2>2, <2>4, <3>1, ReadsNothing
  <2> QED
    BY <2>3, <2>4
<1> QED
  BY <1>1, <1>2, <1>3 DEF Good

LEMMA StringGood ==
  ASSUME NEW s \in Types, s.is \in TextTypes
  PROVE  Good(s)
<1>1. Value[s] = Texts /\ Default[s] = Text("")
  BY ValueIs, DefaultIs
<1>2. \A t \in STRING : Text(t) \in Value[s] /\ Text(t).text = t
  BY <1>1 DEF Texts, Text
<1>3. ASSUME NEW json \in Json
      PROVE  Reads(s, json)
  <2>1. \A old \in Value[s] :
          Parse[s][json][old] = IF json.is = "string" THEN Result(Text(json.string), NoError)
                                ELSE Result(old, "TypeMismatch")
    BY ParseIs DEF ParseString, Mismatch
  <2>2. Faults[s][json] = IF json.is = "string" THEN <<>> ELSE <<"TypeMismatch">>
    BY FaultsIs DEF FaultsIn, TextTypes
  <2>3. CASE json.is = "string"
    <3>1. Text(json.string) \in Value[s] /\ Text(json.string).text = json.string
      BY <1>2, <2>3, JsonAssumption
    <3>2. Says(json, s, Text(json.string), OfParts(Meant, s))
      BY <2>3, <3>1 DEF Says, TextTypes
    <3> QED
      BY <2>1, <2>2, <2>3, <3>1, <3>2, ReadsAlways
  <2>4. CASE json.is # "string"
    <3>1. "TypeMismatch" \in ReadingFailures
      BY DEF ReadingFailures
    <3> QED
      BY <2>1, <2>2, <2>4, <3>1, ReadsNothing
  <2> QED
    BY <2>3, <2>4
<1> QED
  BY <1>1, <1>2, <1>3, StringAssumption DEF Good

ReadTo(parts, n, results, old, faults) ==
  /\ parts = [i \in 1..n |-> parts[i]]
  /\ InOrder(results, old) = Result(Whole(parts), FirstOf(FlattenSeq(faults)))
  /\ FlattenSeq(faults) \in Seq(Kept)
  /\ \A i \in 1..n : parts[i] = results[i].value \/ parts[i] = old[i]
  /\ FlattenSeq(faults) = <<>> =>
       \A i \in 1..n : parts[i] = results[i].value /\ results[i].error = NoError

\* What is read in order, each with the first of its faults for an exception.
LEMMA InOrderReads ==
  ASSUME NEW n \in Nat, NEW results, DOMAIN results = 1..n, Len(results) = n,
         NEW old, DOMAIN old = 1..n,
         NEW faults \in Seq(Seq(Kept)), Len(faults) = n,
         \A i \in 1..n : results[i].error = FirstOf(faults[i])
  PROVE  \E parts : ReadTo(parts, n, results, old, faults)
<1>1. PICK at : /\ StopsAt(results, at)
                /\ InOrder(results, old) =
                     Result(Whole(UpTo(at, n, results, old)),
                            IF at <= n THEN results[at].error ELSE NoError)
  BY InOrderIs
<1>2. /\ FlattenSeq(faults) \in Seq(Kept)
      /\ FirstError(results) = FirstOf(FlattenSeq(faults))
      /\ FlattenSeq(faults) = <<>> <=> at = n + 1
  BY <1>1, ErrorsAreFirst
<1>3. at = Completed(results) + 1
  BY <1>1, ReadingStops
<1>4. (IF at <= n THEN results[at].error ELSE NoError) = FirstError(results)
  BY <1>3, ReadingStops
<1> DEFINE parts == UpTo(at, n, results, old)
<1>5. InOrder(results, old) = Result(Whole(parts), FirstOf(FlattenSeq(faults)))
  BY <1>1, <1>2, <1>4
<1>6. parts = [i \in 1..n |-> parts[i]]
  BY DEF UpTo
<1>7. \A i \in 1..n : parts[i] = results[i].value \/ parts[i] = old[i]
  BY DEF UpTo
<1>8. ASSUME FlattenSeq(faults) = <<>>, NEW i \in 1..n
      PROVE  parts[i] = results[i].value /\ results[i].error = NoError
  <2>1. at = n + 1 /\ i \in 1..(at - 1) /\ i <= at
    BY <1>2, <1>8
  <2> QED
    BY <2>1, <1>1 DEF StopsAt, UpTo
<1> HIDE DEF parts
<1> QED
  BY <1>2, <1>5, <1>6, <1>7, <1>8 DEF ReadTo

ElementsTo(parts, n, types, values, parsers, old, faults) ==
  /\ parts = [i \in 1..n |-> parts[i]]
  /\ ReadElements(values, parsers, old) = Result(Whole(parts), FirstOf(FlattenSeq(faults)))
  /\ FlattenSeq(faults) \in Seq(Kept)
  /\ \A i \in 1..n : parts[i] \in Value[types[i]]
  /\ FlattenSeq(faults) = <<>> =>
       \A i \in 1..n : /\ faults[i] = <<>>
                       /\ parts[i] = Parse[types[i]][values[i]][old[i]].value
                       /\ parts[i] \in Meant[types[i]][values[i]]

\* The elements of an array, each of a type of its own.
LEMMA ElementsRead ==
  ASSUME NEW n \in Nat, NEW types, NEW values, NEW parsers,
         NEW old, DOMAIN old = 1..n,
         \A i \in 1..n : /\ types[i] \in Types
                         /\ Good(types[i])
                         /\ values[i] \in Json
                         /\ parsers[i] = Parse[types[i]]
                         /\ old[i] \in Value[types[i]],
         NEW faults, faults = [i \in 1..n |-> Faults[types[i]][values[i]]]
  PROVE  \E parts : ElementsTo(parts, n, types, values, parsers, old, faults)
<1> DEFINE result(i) == Parse[types[i]][values[i]][old[i]]
           results == [i \in 1..n |-> Rewrap(parsers[i][values[i]][old[i]])]
<1>1. ASSUME NEW i \in 1..n
      PROVE  /\ Faults[types[i]][values[i]] \in Seq(Kept)
             /\ result(i).value \in Value[types[i]]
             /\ result(i).error = FirstOf(Faults[types[i]][values[i]])
             /\ result(i).error = NoError => result(i).value \in Meant[types[i]][values[i]]
  BY DEF Good, Reads, ReadsRight
<1>2. ASSUME NEW i \in 1..n
      PROVE  /\ result(i).error \in Kept \cup {NoError}
             /\ result(i).error = NoError <=> Faults[types[i]][values[i]] = <<>>
  BY <1>1, FirstOfKept
<1>3. ASSUME NEW i \in 1..n
      PROVE  results[i].value = result(i).value /\ results[i].error = result(i).error
  <2>1. results[i] = Rewrap(result(i))
    OBVIOUS
  <2> HIDE DEF results, result
  <2> QED
    BY <2>1, <1>2, RewrapKeeps
<1>4. ReadElements(values, parsers, old) = InOrder(results, old)
  BY DEF ReadElements
<1>5. DOMAIN results = 1..n /\ Len(results) = n
  OBVIOUS
<1>6. faults \in Seq(Seq(Kept)) /\ Len(faults) = n
  BY <1>1
<1>7. \A i \in 1..n : faults[i] = Faults[types[i]][values[i]]
  OBVIOUS
<1> HIDE DEF results, result
<1>8. \A i \in 1..n : results[i].error = FirstOf(faults[i])
  BY <1>1, <1>3, <1>7
<1>9. PICK parts : ReadTo(parts, n, results, old, faults)
  BY <1>5, <1>6, <1>8, InOrderReads
<1>10. \A i \in 1..n : parts[i] \in Value[types[i]]
  BY <1>1, <1>3, <1>9 DEF ReadTo
<1>11. ASSUME FlattenSeq(faults) = <<>>, NEW i \in 1..n
       PROVE  /\ faults[i] = <<>>
              /\ parts[i] = result(i).value
              /\ parts[i] \in Meant[types[i]][values[i]]
  BY <1>1, <1>2, <1>3, <1>7, <1>9, <1>11 DEF ReadTo
<1> QED
  BY <1>4, <1>9, <1>10, <1>11 DEF result, ReadTo, ElementsTo

LEMMA JsonIs ==
  ASSUME NEW json \in Json
  PROVE  /\ json.is = "array" => /\ json.values \in Seq(Json)
                                 /\ Len(json.values) \in Nat
                                 /\ DOMAIN json.values = 1..Len(json.values)
                                 /\ \A i \in 1..Len(json.values) : json.values[i] \in Json
         /\ json.is = "object" => /\ json.values \in Seq(Json)
                                  /\ Len(json.values) \in Nat
                                  /\ DOMAIN json.values = 1..Len(json.values)
                                  /\ \A i \in 1..Len(json.values) : json.values[i] \in Json
                                  /\ json.names \in Seq(STRING)
                                  /\ DOMAIN json.names = 1..Len(json.values)
                                  /\ Len(json.names) = Len(json.values)
BY JsonAssumption

LEMMA PartIsGood ==
  ASSUME NEW s \in Types, s.is \in Containers, GoodParts(s)
  PROVE  s.parts[1] \in Types /\ Good(s.parts[1]) /\ Default[s.parts[1]] \in Value[s.parts[1]]
<1>1. s.parts[1] \in Types /\ 1 \in 1..Len(s.parts)
  BY ContainerPart, Kinds
<1> QED
  BY <1>1 DEF GoodParts, Good

\* The faults of the elements of a container.
InElements(s, json) == [i \in 1..Len(json.values) |-> Faults[s.parts[1]][json.values[i]]]

LEMMA ContainerFaults ==
  ASSUME NEW s \in Types, NEW json \in Json
  PROVE  /\ s.is = "vector" =>
              Faults[s][json] = IF json.is = "array" THEN FlattenSeq(InElements(s, json))
                                ELSE <<"TypeMismatch">>
         /\ s.is = "array" =>
              Faults[s][json] = IF json.is # "array" THEN <<"TypeMismatch">>
                                ELSE IF Len(json.values) # s.size THEN <<"ArraySizeMismatch">>
                                ELSE FlattenSeq(InElements(s, json))
         /\ s.is \in {"map", "multimap"} =>
              Faults[s][json] = IF json.is = "object" THEN FlattenSeq(InElements(s, json))
                                ELSE <<"TypeMismatch">>
         /\ s.is = "optional" =>
              Faults[s][json] = IF json.is = "null" THEN <<>> ELSE Faults[s.parts[1]][json]
<1> DEFINE of == OfParts(Faults, s)
           inside == [i \in DOMAIN json.values |-> of[1][json.values[i]]]
<1>1. s.is \in Containers /\ json.is \in {"array", "object"} => inside = InElements(s, json)
  <2> SUFFICES ASSUME s.is \in Containers, json.is \in {"array", "object"}
               PROVE  inside = InElements(s, json)
    OBVIOUS
  <2>1. of[1] = Faults[s.parts[1]]
    BY ContainerPart
  <2>2. DOMAIN json.values = 1..Len(json.values)
    BY JsonIs
  <2> HIDE DEF of
  <2> QED
    BY <2>1, <2>2 DEF InElements
<1>2. Faults[s][json] = FaultsIn(json, s, of)
  BY FaultsIs
<1>3. s.is \in Containers => of[1] = Faults[s.parts[1]]
  BY ContainerPart
<1> HIDE DEF of
<1>4. /\ s.is = "vector" =>
           FaultsIn(json, s, of) = IF json.is = "array" THEN FlattenSeq(inside) ELSE <<"TypeMismatch">>
      /\ s.is = "array" =>
           FaultsIn(json, s, of) = IF json.is # "array" THEN <<"TypeMismatch">>
                                   ELSE IF Len(json.values) # s.size THEN <<"ArraySizeMismatch">>
                                   ELSE FlattenSeq(inside)
      /\ s.is \in {"map", "multimap"} =>
           FaultsIn(json, s, of) = IF json.is = "object" THEN FlattenSeq(inside) ELSE <<"TypeMismatch">>
      /\ s.is = "optional" => FaultsIn(json, s, of) = IF json.is = "null" THEN <<>> ELSE of[1][json]
  BY DEF FaultsIn, TextTypes
<1> HIDE DEF inside
<1> QED
  BY <1>1, <1>2, <1>3, <1>4 DEF Containers

LEMMA VectorGood ==
  ASSUME NEW s \in Types, s.is = "vector", GoodParts(s)
  PROVE  Good(s)
<1> DEFINE part == s.parts[1]
           V == Value[part]
<1>1. s.is \in Containers
  BY DEF Containers
<1>2. part \in Types /\ Good(part) /\ Default[part] \in V
  BY <1>1, PartIsGood
<1>3. \A f : OfParts(f, s)[1] = f[part]
  BY <1>1, ContainerPart
<1> HIDE DEF V, part
<1>4. Value[s] = Wholes(Seq(V)) /\ Default[s] = Whole(<<>>)
  BY ValueIs, DefaultIs DEF V, part
<1>5. Default[s] \in Value[s]
  <2>1. <<>> \in Seq(V)
    OBVIOUS
  <2> QED
    BY <2>1, <1>4, WholesAre
<1>6. ASSUME NEW json \in Json
      PROVE  Reads(s, json)
  <2>1. CASE json.is # "array"
    <3>1. Faults[s][json] = <<"TypeMismatch">>
      BY <2>1, ContainerFaults
    <3>2. \A old \in Value[s] : Parse[s][json][old] = Result(old, "TypeMismatch")
      BY <2>1, ParseIs DEF ParseVector, Mismatch
    <3>3. "TypeMismatch" \in ReadingFailures
      BY DEF ReadingFailures
    <3> QED
      BY <3>1, <3>2, <3>3, ReadsNothing
  <2>2. CASE json.is = "array"
    <3> DEFINE n == Len(json.values)
               types == [i \in 1..n |-> part]
               parsers == [i \in DOMAIN json.values |-> Parse[part]]
               before == [i \in DOMAIN json.values |-> Default[part]]
               faults == [i \in 1..n |-> Faults[types[i]][json.values[i]]]
    <3>1. n \in Nat /\ DOMAIN json.values = 1..n /\ \A i \in 1..n : json.values[i] \in Json
      BY <2>2, JsonIs
    <3>2. Faults[s][json] = FlattenSeq(faults)
      <4>1. faults = InElements(s, json)
        BY DEF InElements, part
      <4> HIDE DEF faults
      <4> QED
        BY <2>2, <4>1, ContainerFaults
    <3>3. \A old \in Value[s] : Parse[s][json][old] = ReadElements(json.values, parsers, before)
      BY <2>2, ParseIs DEF ParseVector, part
    <3> HIDE DEF n
    <3>4. \A i \in 1..n : /\ types[i] \in Types
                          /\ Good(types[i])
                          /\ json.values[i] \in Json
                          /\ parsers[i] = Parse[types[i]]
                          /\ before[i] \in Value[types[i]]
      BY <1>2, <3>1 DEF V
    <3>5. DOMAIN before = 1..n /\ faults = [i \in 1..n |-> Faults[types[i]][json.values[i]]]
      BY <3>1
    <3>6. \A i \in 1..n : types[i] = part
      OBVIOUS
    <3> HIDE DEF types, parsers, before, faults
    <3>7. PICK parts : ElementsTo(parts, n, types, json.values, parsers, before, faults)
      BY <3>1, <3>4, <3>5, ElementsRead
    <3>8. Whole(parts) \in Value[s] /\ Whole(parts).parts = parts /\ Len(parts) = n /\ DOMAIN parts = 1..n
      <4>1. \A i \in 1..n : parts[i] \in V
        BY <3>6, <3>7 DEF V, ElementsTo
      <4>2. parts \in Seq(V) /\ Len(parts) = n /\ DOMAIN parts = 1..n
        BY <3>1, <3>7, <4>1 DEF ElementsTo
      <4> QED
        BY <4>2, <1>4, WholesAre
    <3>9. ASSUME FlattenSeq(faults) = <<>>
          PROVE  Whole(parts) \in Meant[s][json]
      <4>1. \A i \in 1..n : parts[i] \in Meant[part][json.values[i]]
        BY <3>6, <3>7, <3>9 DEF ElementsTo
      <4>2. Says(json, s, Whole(parts), OfParts(Meant, s))
        BY <1>3, <2>2, <3>8, <4>1 DEF Says, TextTypes, n
      <4> QED
        BY <3>8, <4>2, MeantIs
    <3>10. \A old \in Value[s] :
             /\ Parse[s][json][old].value = Whole(parts)
             /\ Parse[s][json][old].error = FirstOf(FlattenSeq(faults))
      BY <3>3, <3>7, ResultIs DEF ElementsTo
    <3>11. FirstOf(FlattenSeq(faults)) = NoError <=> FlattenSeq(faults) = <<>>
      BY <3>7, FirstOfKept DEF ElementsTo
    <3> QED
      BY <3>2, <3>7, <3>8, <3>9, <3>10, <3>11 DEF ElementsTo, Reads, ReadsRight, ReadsAfresh
  <2> QED
    BY <2>1, <2>2
<1> QED
  BY <1>5, <1>6 DEF Good

\* What has as many elements as its type says: std::array and tuples.
Sized == {"array", "tuple"}

Size(s) == IF s.is = "tuple" THEN Len(s.parts) ELSE s.size

PartAt(s, i) == IF s.is = "tuple" THEN i ELSE 1

At(s, i) == s.parts[PartAt(s, i)]

AtElements(s, json) == [i \in 1..Size(s) |-> Faults[At(s, i)][json.values[i]]]

LEMMA SizedParts ==
  ASSUME NEW s \in Types, s.is \in Sized
  PROVE  /\ Size(s) \in Nat
         /\ \A i \in 1..Size(s) : /\ PartAt(s, i) \in 1..Len(s.parts)
                                  /\ At(s, i) \in Types
                                  /\ \A f : OfParts(f, s)[PartAt(s, i)] = f[At(s, i)]
<1>1. CASE s.is = "tuple"
  BY <1>1, Kinds, TupleParts DEF Size, PartAt, At
<1>2. CASE s.is = "array"
  <2>1. s.is \in Containers
    BY <1>2 DEF Containers
  <2>2. s.size \in Nat /\ Len(s.parts) = 1
    BY <1>2, <2>1, TypesAssumption
  <2> QED
    BY <1>2, <2>1, <2>2, ContainerPart DEF Size, PartAt, At
<1> QED
  BY <1>1, <1>2 DEF Sized

LEMMA SizedValues ==
  ASSUME NEW s \in Types, s.is \in Sized
  PROVE  /\ \A v \in Value[s] : /\ DOMAIN v.parts = 1..Size(s)
                                /\ \A i \in 1..Size(s) : v.parts[i] \in Value[At(s, i)]
         /\ \A p : /\ p = [i \in 1..Size(s) |-> p[i]]
                   /\ \A i \in 1..Size(s) : p[i] \in Value[At(s, i)]
                   => Whole(p) \in Value[s] /\ Whole(p).parts = p
         /\ Default[s] = Whole([i \in 1..Size(s) |-> Default[At(s, i)]])
<1>0. \A p : Whole(p).parts = p
  BY DEF Whole, Map
<1>1. CASE s.is = "tuple"
  <2>1. s.is \in Tuples /\ Size(s) = Len(s.parts) /\ \A i : At(s, i) = s.parts[i]
    BY <1>1 DEF Tuples, Size, At, PartAt
  <2>2. Default[s] = Whole([i \in 1..Len(s.parts) |-> Default[s.parts[i]]])
    BY <2>1, DefaultIs
  <2>3. ASSUME NEW v \in Value[s]
        PROVE  /\ DOMAIN v.parts = 1..Size(s)
               /\ \A i \in 1..Size(s) : v.parts[i] \in Value[At(s, i)]
    <3>1. /\ v.parts = [i \in 1..Len(s.parts) |-> v.parts[i]]
          /\ \A i \in 1..Len(s.parts) : v.parts[i] \in Value[s.parts[i]]
      BY <2>1, TupleValueIs
    <3>2. DOMAIN v.parts = 1..Len(s.parts)
      BY <3>1
    <3> QED
      BY <2>1, <3>1, <3>2
  <2>4. ASSUME NEW p, p = [i \in 1..Size(s) |-> p[i]], \A i \in 1..Size(s) : p[i] \in Value[At(s, i)]
        PROVE  Whole(p) \in Value[s]
    <3>1. p = [i \in 1..Len(s.parts) |-> p[i]] /\ \A i \in 1..Len(s.parts) : p[i] \in Value[s.parts[i]]
      BY <2>1, <2>4
    <3> QED
      BY <2>1, <3>1, TupleValueIs
  <2> QED
    BY <1>0, <2>1, <2>2, <2>3, <2>4
<1>2. CASE s.is = "array"
  <2>1. Size(s) = s.size /\ \A i : At(s, i) = s.parts[1]
    BY <1>2 DEF Size, At, PartAt
  <2>2. Default[s] = Whole([i \in 1..s.size |-> Default[s.parts[1]]])
    BY <1>2, DefaultIs
  <2> DEFINE V == Value[s.parts[1]]
             P == [1..s.size -> V]
  <2>3. Value[s] = Wholes(P)
    BY <1>2, ValueIs
  <2>4. \A p \in P : DOMAIN p = 1..s.size /\ \A i \in 1..s.size : p[i] \in V
    OBVIOUS
  <2>5. ASSUME NEW p, p = [i \in 1..s.size |-> p[i]], \A i \in 1..s.size : p[i] \in V
        PROVE  p \in P
    BY <2>5
  <2> HIDE DEF P
  <2>6. /\ \A v \in Value[s] : v.parts \in P
        /\ \A p \in P : Whole(p) \in Value[s]
    BY <2>3, WholesAre
  <2> QED
    BY <1>0, <2>1, <2>2, <2>4, <2>5, <2>6
<1> QED
  BY <1>1, <1>2 DEF Sized

LEMMA SizedFaults ==
  ASSUME NEW s \in Types, s.is \in Sized, NEW json \in Json
  PROVE  Faults[s][json] = IF json.is # "array" THEN <<"TypeMismatch">>
                           ELSE IF Len(json.values) # Size(s) THEN <<"ArraySizeMismatch">>
                           ELSE FlattenSeq(AtElements(s, json))
<1>1. CASE s.is = "array"
  <2>1. json.is = "array" /\ Len(json.values) = s.size => InElements(s, json) = AtElements(s, json)
    BY <1>1 DEF InElements, AtElements, Size, At, PartAt
  <2> QED
    BY <1>1, <2>1, ContainerFaults DEF Size
<1>2. CASE s.is = "tuple"
  <2> DEFINE of == OfParts(Faults, s)
             inside == [i \in DOMAIN s.parts |-> of[i][json.values[i]]]
  <2>1. inside = AtElements(s, json)
    <3>1. DOMAIN s.parts = 1..Len(s.parts) /\ \A i \in 1..Len(s.parts) : of[i] = Faults[s.parts[i]]
      BY Kinds, TupleParts
    <3> HIDE DEF of
    <3> QED
      BY <1>2, <3>1 DEF AtElements, Size, At, PartAt
  <2>2. Faults[s][json] = FaultsIn(json, s, of)
    BY FaultsIs
  <2> HIDE DEF of
  <2>3. FaultsIn(json, s, of) = IF json.is # "array" THEN <<"TypeMismatch">>
                                ELSE IF Len(json.values) # Len(s.parts) THEN <<"ArraySizeMismatch">>
                                ELSE FlattenSeq(inside)
    BY <1>2 DEF FaultsIn, TextTypes
  <2> HIDE DEF inside
  <2> QED
    BY <1>2, <2>1, <2>2, <2>3 DEF Size
<1> QED
  BY <1>1, <1>2 DEF Sized

LEMMA SizedParse ==
  ASSUME NEW s \in Types, s.is \in Sized, NEW json \in Json
  PROVE  /\ json.is # "array" => \A old \in Value[s] : Parse[s][json][old] = Result(old, "TypeMismatch")
         /\ json.is = "array" /\ Len(json.values) # Size(s) =>
              \A old \in Value[s] : Parse[s][json][old] = Result(old, "ArraySizeMismatch")
         /\ json.is = "array" /\ Len(json.values) = Size(s) =>
              \E parsers : /\ \A i \in 1..Size(s) : parsers[i] = Parse[At(s, i)]
                           /\ \A old \in Value[s] :
                                Parse[s][json][old] = ReadElements(json.values, parsers, old.parts)
<1>1. CASE s.is = "array"
  <2> DEFINE parsers == [i \in 1..s.size |-> Parse[s.parts[1]]]
  <2>1. \A i \in 1..Size(s) : parsers[i] = Parse[At(s, i)]
    BY <1>1 DEF Size, At, PartAt
  <2>2. \A old \in Value[s] :
          Parse[s][json][old] = IF json.is # "array" THEN Result(old, "TypeMismatch")
                                ELSE IF Len(json.values) # s.size THEN Result(old, "ArraySizeMismatch")
                                ELSE ReadElements(json.values, parsers, old.parts)
    BY <1>1, ParseIs DEF ParseArray, Mismatch
  <2> HIDE DEF parsers
  <2> QED
    BY <1>1, <2>1, <2>2 DEF Size
<1>2. CASE s.is = "tuple"
  <2> DEFINE parsers == OfParts(Parse, s)
  <2>1. \A i \in 1..Size(s) : parsers[i] = Parse[At(s, i)]
    BY <1>2, TupleParts DEF Size, At, PartAt
  <2>2. \A old \in Value[s] :
          Parse[s][json][old] = IF json.is # "array" THEN Result(old, "TypeMismatch")
                                ELSE IF Len(json.values) # Len(s.parts) THEN Result(old, "ArraySizeMismatch")
                                ELSE ReadElements(json.values, parsers, old.parts)
    BY <1>2, ParseIs DEF ParseTuple, Mismatch
  <2> HIDE DEF parsers
  <2> QED
    BY <1>2, <2>1, <2>2 DEF Size
<1> QED
  BY <1>1, <1>2 DEF Sized

LEMMA SizedGood ==
  ASSUME NEW s \in Types, s.is \in Sized, GoodParts(s)
  PROVE  Good(s)
<1> DEFINE n == Size(s)
<1>1. n \in Nat /\ \A i \in 1..n : At(s, i) \in Types /\ Good(At(s, i))
  BY SizedParts DEF GoodParts, At
<1>2. \A p : p = [i \in 1..n |-> p[i]] /\ (\A i \in 1..n : p[i] \in Value[At(s, i)])
                => Whole(p) \in Value[s] /\ Whole(p).parts = p
  BY SizedValues
<1>3. Default[s] \in Value[s]
  <2> DEFINE p == [i \in 1..n |-> Default[At(s, i)]]
  <2>1. p = [i \in 1..n |-> p[i]] /\ \A i \in 1..n : p[i] \in Value[At(s, i)]
    BY <1>1 DEF Good
  <2>2. Default[s] = Whole(p)
    BY SizedValues
  <2> HIDE DEF p, n
  <2> QED
    BY <2>1, <2>2, <1>2
<1>4. ASSUME NEW json \in Json
      PROVE  Reads(s, json)
  <2>1. CASE json.is # "array"
    <3>1. Faults[s][json] = <<"TypeMismatch">>
      BY <2>1, SizedFaults
    <3>2. "TypeMismatch" \in ReadingFailures
      BY DEF ReadingFailures
    <3> QED
      BY <2>1, <3>1, <3>2, SizedParse, ReadsNothing
  <2>2. CASE json.is = "array" /\ Len(json.values) # n
    <3>1. Faults[s][json] = <<"ArraySizeMismatch">>
      BY <2>2, SizedFaults
    <3>2. "ArraySizeMismatch" \in ReadingFailures
      BY DEF ReadingFailures
    <3> QED
      BY <2>2, <3>1, <3>2, SizedParse, ReadsNothing
  <2>3. CASE json.is = "array" /\ Len(json.values) = n
    <3> DEFINE types == [i \in 1..n |-> At(s, i)]
               faults == [i \in 1..n |-> Faults[types[i]][json.values[i]]]
    <3>1. \A i \in 1..n : types[i] = At(s, i)
      OBVIOUS
    <3>2. faults = [i \in 1..n |-> Faults[types[i]][json.values[i]]] /\ faults = AtElements(s, json)
      BY DEF AtElements
    <3>3. \A i \in 1..n : json.values[i] \in Json
      BY <2>3, JsonIs
    <3>4. PICK parsers : /\ \A i \in 1..n : parsers[i] = Parse[At(s, i)]
                         /\ \A old \in Value[s] :
                              Parse[s][json][old] = ReadElements(json.values, parsers, old.parts)
      BY <2>3, SizedParse
    <3>5. Faults[s][json] = FlattenSeq(faults)
      <4> HIDE DEF faults
      <4> QED
        BY <2>3, <3>2, SizedFaults
    <3>6. ASSUME NEW old \in Value[s]
          PROVE  /\ DOMAIN old.parts = 1..n
                 /\ \A i \in 1..n : old.parts[i] \in Value[types[i]]
      BY SizedValues
    <3> HIDE DEF types, faults, n
    <3>7. \A old \in Value[s] : \E parts : ElementsTo(parts, n, types, json.values, parsers, old.parts, faults)
      <4> SUFFICES ASSUME NEW old \in Value[s]
                   PROVE  \E parts : ElementsTo(parts, n, types, json.values, parsers, old.parts, faults)
        OBVIOUS
      <4> DEFINE before == old.parts
      <4>1. /\ DOMAIN before = 1..n
            /\ \A i \in 1..n : /\ types[i] \in Types
                               /\ Good(types[i])
                               /\ json.values[i] \in Json
                               /\ parsers[i] = Parse[types[i]]
                               /\ before[i] \in Value[types[i]]
        BY <1>1, <3>1, <3>3, <3>4, <3>6
      <4>2. \E parts : ElementsTo(parts, n, types, json.values, parsers, before, faults)
        <5> HIDE DEF before
        <5> QED
          BY <4>1, <1>1, <3>2, ElementsRead
      <4> QED
        BY <4>2
    <3>8. ASSUME NEW old \in Value[s], NEW parts,
                 ElementsTo(parts, n, types, json.values, parsers, old.parts, faults)
          PROVE  /\ Parse[s][json][old].value = Whole(parts)
                 /\ Parse[s][json][old].error = FirstOf(FlattenSeq(faults))
                 /\ Whole(parts) \in Value[s]
                 /\ FlattenSeq(faults) \in Seq(Kept)
                 /\ FlattenSeq(faults) = <<>> => Whole(parts) \in Meant[s][json]
      <4>1. Parse[s][json][old] = Result(Whole(parts), FirstOf(FlattenSeq(faults)))
        BY <3>4, <3>8 DEF ElementsTo
      <4>2. parts = [i \in 1..n |-> parts[i]] /\ \A i \in 1..n : parts[i] \in Value[At(s, i)]
        BY <3>1, <3>8 DEF ElementsTo
      <4>3. Whole(parts) \in Value[s] /\ Whole(parts).parts = parts
        BY <4>2, <1>2
      <4>4. ASSUME FlattenSeq(faults) = <<>>
            PROVE  Says(json, s, Whole(parts), OfParts(Meant, s))
        <5>1. DOMAIN parts = 1..n /\ Len(parts) = n
          BY <4>2, <1>1
        <5>2. \A i \in 1..n : parts[i] \in OfParts(Meant, s)[PartAt(s, i)][json.values[i]]
          <6>1. \A i \in 1..n : parts[i] \in Meant[At(s, i)][json.values[i]]
            BY <3>1, <3>8, <4>4 DEF ElementsTo
          <6> QED
            BY <6>1, SizedParts DEF n
        <5> QED
          BY <2>3, <4>3, <5>1, <5>2 DEF Says, TextTypes, Sized, PartAt
      <4> QED
        BY <4>1, <4>3, <4>4, ResultIs, MeantIs, <3>8 DEF ElementsTo
    <3>9. ReadsRight(s, json)
      <4>1. \E old : old \in Value[s]
        BY <1>3
      <4>2. FlattenSeq(faults) \in Seq(Kept)
        BY <4>1, <3>7, <3>8
      <4>3. FirstOf(FlattenSeq(faults)) = NoError <=> FlattenSeq(faults) = <<>>
        BY <4>2, FirstOfKept
      <4>4. ASSUME NEW old \in Value[s]
            PROVE  /\ Parse[s][json][old].value \in Value[s]
                   /\ Parse[s][json][old].error = FirstOf(Faults[s][json])
                   /\ Parse[s][json][old].error = NoError => Parse[s][json][old].value \in Meant[s][json]
        <5>1. PICK parts : ElementsTo(parts, n, types, json.values, parsers, old.parts, faults)
          BY <3>7
        <5> QED
          BY <5>1, <3>5, <3>8, <4>3
      <4> QED
        BY <3>5, <4>2, <4>4 DEF ReadsRight
    <3>10. ASSUME Complete[s][json], Faults[s][json] = <<>>
           PROVE  ReadsAfresh(s, json)
      <4>1. ASSUME NEW i \in 1..n
            PROVE  Complete[At(s, i)][json.values[i]]
        <5>1. LeavesNothingOut(json, s, OfParts(Complete, s))
          BY <3>10, CompleteIs
        <5>2. OfParts(Complete, s)[PartAt(s, i)] = Complete[At(s, i)]
          BY SizedParts DEF n
        <5>3. i \in DOMAIN json.values /\ (s.is = "tuple" => i \in DOMAIN s.parts)
          BY <2>3, JsonIs, Kinds DEF n, Size
        <5> QED
          BY <2>3, <5>1, <5>2, <5>3 DEF LeavesNothingOut, PartAt, Sized
      <4> SUFFICES ASSUME NEW a \in Value[s], NEW b \in Value[s]
                   PROVE  Parse[s][json][a].value = Parse[s][json][b].value
        BY DEF ReadsAfresh
      <4>2. PICK p : ElementsTo(p, n, types, json.values, parsers, a.parts, faults)
        BY <3>7
      <4>3. PICK q : ElementsTo(q, n, types, json.values, parsers, b.parts, faults)
        BY <3>7
      <4>4. ASSUME NEW i \in 1..n
            PROVE  p[i] = q[i]
        <5>1. ReadsAfresh(types[i], json.values[i])
          <6>1. Faults[types[i]][json.values[i]] = <<>>
            BY <3>2, <3>5, <3>10, <4>2 DEF ElementsTo
          <6> QED
            BY <6>1, <1>1, <3>1, <3>3, <4>1 DEF Good, Reads
        <5>2. /\ p[i] = Parse[types[i]][json.values[i]][a.parts[i]].value
              /\ q[i] = Parse[types[i]][json.values[i]][b.parts[i]].value
          BY <3>5, <3>10, <4>2, <4>3 DEF ElementsTo
        <5>3. a.parts[i] \in Value[types[i]] /\ b.parts[i] \in Value[types[i]]
          BY <3>6
        <5> QED
          BY <5>1, <5>2, <5>3 DEF ReadsAfresh
      <4>5. p = [i \in 1..n |-> p[i]] /\ q = [i \in 1..n |-> q[i]]
        BY <4>2, <4>3 DEF ElementsTo
      <4>6. p = q
        BY <4>4, <4>5
      <4> QED
        BY <4>2, <4>3, <4>6, <3>8
    <3>11. s.is \notin Refilled
      BY DEF Sized, Refilled
    <3> QED
      BY <3>9, <3>10, <3>11 DEF Reads
  <2> QED
    BY <2>1, <2>2, <2>3
<1> QED
  BY <1>3, <1>4 DEF Good

LEMMA OptionalGood ==
  ASSUME NEW s \in Types, s.is = "optional", GoodParts(s)
  PROVE  Good(s)
<1> DEFINE part == s.parts[1]
           V == Value[part]
           P == {p \in Seq(V) : Len(p) <= 1}
<1>1. s.is \in Containers
  BY DEF Containers
<1>2. part \in Types /\ Good(part) /\ Default[part] \in V
  BY <1>1, PartIsGood
<1>3. \A f : OfParts(f, s)[1] = f[part]
  BY <1>1, ContainerPart
<1>4. Value[s] = Wholes(P) /\ Default[s] = Whole(<<>>)
  BY ValueIs, DefaultIs
<1> HIDE DEF part
<1>5. <<>> \in P /\ \A v \in V : <<v>> \in P /\ Len(<<v>>) = 1 /\ <<v>>[1] = v
  <2>1. \A W : <<>> \in Seq(W) /\ Len(<<>>) = 0
    OBVIOUS
  <2>2. \A W : \A v \in W : <<v>> \in Seq(W) /\ Len(<<v>>) = 1 /\ <<v>>[1] = v
    OBVIOUS
  <2>3. 0 <= 1 /\ 1 <= 1
    OBVIOUS
  <2> HIDE DEF V
  <2> QED
    BY <2>1, <2>2, <2>3
<1>6. \A p \in P : p # <<>> => p[1] \in V
  OBVIOUS
<1> HIDE DEF V, P
<1>7. /\ Default[s] \in Value[s] /\ Whole(<<>>) \in Value[s] /\ Whole(<<>>).parts = <<>>
      /\ \A v \in V : Whole(<<v>>) \in Value[s] /\ Whole(<<v>>).parts = <<v>>
      /\ \A old \in Value[s] : old.parts \in P
  BY <1>4, <1>5, WholesAre
<1>8. ASSUME NEW json \in Json
      PROVE  Reads(s, json)
  <2>1. CASE json.is = "null"
    <3>1. Faults[s][json] = <<>>
      BY <2>1, ContainerFaults
    <3>2. \A old \in Value[s] : Parse[s][json][old] = Result(Whole(<<>>), NoError)
      BY <2>1, ParseIs DEF ParseOptional
    <3>3. Says(json, s, Whole(<<>>), OfParts(Meant, s))
      BY <2>1, <1>7 DEF Says, TextTypes
    <3> QED
      BY <1>7, <3>1, <3>2, <3>3, ReadsAlways
  <2>2. CASE json.is # "null"
    <3> DEFINE before(old) == IF old.parts = <<>> THEN Default[part] ELSE old.parts[1]
               r(old) == Parse[part][json][before(old)]
    <3>1. Faults[s][json] = Faults[part][json]
      BY <2>2, ContainerFaults DEF part
    <3>2. ASSUME NEW old \in Value[s]
          PROVE  /\ Parse[s][json][old].value = Whole(<<r(old).value>>)
                 /\ Parse[s][json][old].error = r(old).error
      <4>1. Parse[s][json][old] = Result(Whole(<<r(old).value>>), r(old).error)
        BY <2>2, ParseIs DEF ParseOptional, part
      <4> HIDE DEF r
      <4> QED
        BY <4>1, ResultIs
    <3>3. \A old \in Value[s] : before(old) \in V
      BY <1>2, <1>6, <1>7
    <3> HIDE DEF before
    <3>4. /\ Faults[part][json] \in Seq(Kept)
          /\ \A old \in Value[s] :
               /\ r(old).value \in V
               /\ r(old).error = FirstOf(Faults[part][json])
               /\ r(old).error = NoError => r(old).value \in Meant[part][json]
      BY <1>2, <3>3 DEF Good, Reads, ReadsRight, V
    <3>5. Complete[part][json] /\ Faults[part][json] = <<>> =>
            \A a, b \in Value[s] : r(a).value = r(b).value
      BY <1>2, <3>3 DEF Good, Reads, ReadsAfresh, V
    <3> HIDE DEF r
    <3>6. Complete[s][json] => Complete[part][json]
      BY <1>3, <2>2, CompleteIs DEF LeavesNothingOut
    <3>7. ASSUME NEW old \in Value[s], r(old).error = NoError
          PROVE  Whole(<<r(old).value>>) \in Meant[s][json]
      <4>1. Says(json, s, Whole(<<r(old).value>>), OfParts(Meant, s))
        BY <1>3, <1>5, <1>7, <2>2, <3>4, <3>7 DEF Says, TextTypes
      <4> QED
        BY <4>1, <1>7, <3>4, MeantIs
    <3>8. ReadsRight(s, json)
      BY <1>7, <3>1, <3>2, <3>4, <3>7 DEF ReadsRight
    <3>9. ASSUME Complete[s][json], Faults[s][json] = <<>>
          PROVE  ReadsAfresh(s, json)
      BY <3>1, <3>2, <3>5, <3>6, <3>9 DEF ReadsAfresh
    <3>10. s.is \notin Refilled
      BY DEF Refilled
    <3> QED
      BY <3>8, <3>9, <3>10 DEF Reads
  <2> QED
    BY <2>1, <2>2
<1> QED
  BY <1>7, <1>8 DEF Good

\* FindMember finds the first member of a name.
LEMMA FoundIs ==
  ASSUME NEW json \in Json, json.is = "object", NEW name \in Range(json.names)
  PROVE  \E i \in 1..Len(json.values) :
           /\ json.names[i] = name
           /\ \A j \in 1..(i - 1) : json.names[j] # name
           /\ Found(json, name) = json.values[i]
           /\ json.values[i] \in Json
<1> DEFINE n == Len(json.values)
           S == {i \in DOMAIN json.names : json.names[i] = name}
<1>1. n \in Nat /\ DOMAIN json.names = 1..n /\ \A i \in 1..n : json.values[i] \in Json
  BY JsonIs
<1> HIDE DEF n
<1>2. S # {} /\ S \subseteq Nat
  BY <1>1 DEF Range
<1>3. Min(S) \in S /\ \A i \in S : Min(S) <= i
  <2> HIDE DEF S
  <2> QED
    BY <1>2, LeastIsIn
<1> DEFINE i == Min(S)
<1>4. Found(json, name) = json.values[i]
  BY DEF Found
<1>5. i \in 1..n /\ json.names[i] = name
  BY <1>1, <1>3
<1> HIDE DEF i
<1>6. ASSUME NEW j \in 1..(i - 1)
      PROVE  json.names[j] # name
  <2>1. j \in 1..n /\ ~(i <= j)
    BY <1>1, <1>5
  <2> QED
    BY <2>1, <1>1, <1>3 DEF i
<1> QED
  BY <1>1, <1>4, <1>5, <1>6 DEF n

\* What reading the members of a TupleMap comes to, before one throws.
Fields(s, json, old) ==
  [i \in 1..Len(s.parts) |-> ReadField(json, s.names[i], s.parts[i], old.parts[i], Parse[s.parts[i]])]

FieldFaults(s, json) ==
  [i \in 1..Len(s.parts) |->
     IF s.names[i] = Unnamed THEN <<"runtime_error">>
     ELSE IF s.names[i] \in Range(json.names) THEN Faults[s.parts[i]][Found(json, s.names[i])]
     ELSE IF MayBeLeftOut[s.parts[i]] THEN <<>>
     ELSE <<"ObjectMemberMissing">>]

LEMMA TupleMapFaults ==
  ASSUME NEW s \in Types, s.is = "tuplemap", NEW json \in Json
  PROVE  Faults[s][json] = IF json.is # "object" THEN <<"TypeMismatch">>
                           ELSE FlattenSeq(FieldFaults(s, json))
<1> DEFINE of == OfParts(Faults, s)
           inside == [i \in DOMAIN s.parts |->
                        IF s.names[i] = Unnamed THEN <<"runtime_error">>
                        ELSE IF s.names[i] \in Range(json.names) THEN of[i][Found(json, s.names[i])]
                        ELSE IF MayBeLeftOut[s.parts[i]] THEN <<>>
                        ELSE <<"ObjectMemberMissing">>]
<1>1. inside = FieldFaults(s, json)
  <2>1. DOMAIN s.parts = 1..Len(s.parts) /\ \A i \in 1..Len(s.parts) : of[i] = Faults[s.parts[i]]
    BY Kinds, TupleParts
  <2> HIDE DEF of
  <2> QED
    BY <2>1 DEF FieldFaults
<1>2. Faults[s][json] = FaultsIn(json, s, of)
  BY FaultsIs
<1> HIDE DEF of
<1>3. FaultsIn(json, s, of) = IF json.is # "object" THEN <<"TypeMismatch">> ELSE FlattenSeq(inside)
  BY DEF FaultsIn, TextTypes
<1> HIDE DEF inside
<1> QED
  BY <1>1, <1>2, <1>3

LEMMA TupleMapParse ==
  ASSUME NEW s \in Types, s.is = "tuplemap", NEW json \in Json, NEW old \in Value[s]
  PROVE  Parse[s][json][old] = IF json.is # "object" THEN Result(old, "TypeMismatch")
                               ELSE InOrder(Fields(s, json, old), old.parts)
<1> DEFINE of == OfParts(Parse, s)
           inside == [i \in DOMAIN s.parts |->
                        ReadField(json, s.names[i], s.parts[i], old.parts[i], of[i])]
<1>1. inside = Fields(s, json, old)
  <2>1. DOMAIN s.parts = 1..Len(s.parts) /\ \A i \in 1..Len(s.parts) : of[i] = Parse[s.parts[i]]
    BY Kinds, TupleParts
  <2> HIDE DEF of
  <2> QED
    BY <2>1 DEF Fields
<1>2. Parse[s][json][old] = ParseTupleMap(json, s, old, of)
  BY ParseIs
<1> HIDE DEF of
<1>3. ParseTupleMap(json, s, old, of)
        = IF json.is # "object" THEN Result(old, "TypeMismatch") ELSE InOrder(inside, old.parts)
  BY DEF ParseTupleMap, Mismatch
<1> HIDE DEF inside
<1> QED
  BY <1>1, <1>2, <1>3

\* One member.
LEMMA FieldReads ==
  ASSUME NEW s \in Types, s.is = "tuplemap", GoodParts(s), NEW json \in Json, json.is = "object",
         NEW old \in Value[s], NEW i \in 1..Len(s.parts)
  PROVE  LET r == Fields(s, json, old)[i]
             faults == FieldFaults(s, json)[i]
             part == s.parts[i]
             name == s.names[i]
         IN /\ faults \in Seq(Kept)
            /\ r.error = FirstOf(faults)
            /\ r.value \in Value[part]
            /\ faults = <<>> => name # Unnamed
            /\ name # Unnamed /\ name \in Range(json.names) =>
                 /\ Found(json, name) \in Json
                 /\ faults = Faults[part][Found(json, name)]
                 /\ r.value = Parse[part][Found(json, name)][old.parts[i]].value
                 /\ faults = <<>> => r.value \in Meant[part][Found(json, name)]
            /\ name \notin Range(json.names) =>
                 /\ r.value = old.parts[i]
                 /\ faults = <<>> => MayBeLeftOut[part]
<1> DEFINE r == Fields(s, json, old)[i]
           faults == FieldFaults(s, json)[i]
           part == s.parts[i]
           name == s.names[i]
           before == old.parts[i]
<1>1. /\ r = ReadField(json, name, part, before, Parse[part])
      /\ faults = IF name = Unnamed THEN <<"runtime_error">>
                  ELSE IF name \in Range(json.names) THEN Faults[part][Found(json, name)]
                  ELSE IF MayBeLeftOut[part] THEN <<>>
                  ELSE <<"ObjectMemberMissing">>
  BY DEF Fields, FieldFaults
<1>2. part \in Types /\ Good(part)
  BY Kinds DEF GoodParts
<1>3. before \in Value[part]
  <2>1. s.is \in Tuples
    BY DEF Tuples
  <2> QED
    BY <2>1, TupleValueIs
<1>4. \A e \in Kept : <<e>> \in Seq(Kept) /\ <<e>> # <<>> /\ FirstOf(<<e>>) = e
  BY DEF FirstOf
<1>5. <<>> \in Seq(Kept) /\ FirstOf(<<>>) = NoError
  BY DEF FirstOf
<1>6. "runtime_error" \in Kept /\ "ObjectMemberMissing" \in Kept
  BY DEF Kept, ReadingFailures
<1> HIDE DEF r, faults, part, name, before
<1>7. CASE name = Unnamed
  <2>1. r.value = before /\ r.error = "runtime_error" /\ faults = <<"runtime_error">>
    BY <1>1, <1>7, ResultIs DEF ReadField
  <2> QED
    BY <2>1, <1>3, <1>4, <1>6, <1>7 DEF r, faults, part, name, before
<1>8. CASE name # Unnamed /\ name \in Range(json.names)
  <2> DEFINE found == Found(json, name)
             result == Parse[part][found][before]
  <2>1. found \in Json
    BY <1>8, FoundIs
  <2>2. r = Rewrap(result) /\ faults = Faults[part][found]
    BY <1>1, <1>8 DEF ReadField
  <2>3. /\ faults \in Seq(Kept)
        /\ result.value \in Value[part]
        /\ result.error = FirstOf(faults)
        /\ result.error = NoError => result.value \in Meant[part][found]
    BY <1>2, <1>3, <2>1, <2>2 DEF Good, Reads, ReadsRight
  <2>4. result.error \in Kept \cup {NoError} /\ (result.error = NoError <=> faults = <<>>)
    BY <2>3, FirstOfKept
  <2> HIDE DEF result
  <2>5. r.value = result.value /\ r.error = result.error
    BY <2>2, <2>4, RewrapKeeps
  <2> QED
    BY <1>8, <2>1, <2>2, <2>3, <2>4, <2>5 DEF r, faults, part, name, before, result
<1>9. CASE name # Unnamed /\ name \notin Range(json.names) /\ MayBeLeftOut[part]
  <2>1. r.value = before /\ r.error = NoError /\ faults = <<>>
    BY <1>1, <1>9, ResultIs DEF ReadField
  <2> QED
    BY <2>1, <1>3, <1>5, <1>9 DEF r, faults, part, name, before
<1>10. CASE name # Unnamed /\ name \notin Range(json.names) /\ ~MayBeLeftOut[part]
  <2>1. r.value = before /\ r.error = "ObjectMemberMissing" /\ faults = <<"ObjectMemberMissing">>
    BY <1>1, <1>10, ResultIs DEF ReadField
  <2> QED
    BY <2>1, <1>3, <1>4, <1>6, <1>10 DEF r, faults, part, name, before
<1> QED
  BY <1>7, <1>8, <1>9, <1>10

LEMMA TupleMapReads ==
  ASSUME NEW s \in Types, s.is = "tuplemap", GoodParts(s), NEW json \in Json, json.is = "object",
         NEW old \in Value[s]
  PROVE  \E parts :
           /\ ReadTo(parts, Len(s.parts), Fields(s, json, old), old.parts, FieldFaults(s, json))
           /\ Parse[s][json][old].value = Whole(parts)
           /\ Whole(parts).parts = parts
           /\ Whole(parts) \in Value[s]
           /\ Parse[s][json][old].error = FirstOf(Faults[s][json])
           /\ Faults[s][json] = FlattenSeq(FieldFaults(s, json))
<1> DEFINE n == Len(s.parts)
           results == Fields(s, json, old)
           faults == FieldFaults(s, json)
           before == old.parts
<1>1. n \in Nat
  BY Kinds
<1>2. /\ DOMAIN before = 1..n
      /\ \A i \in 1..n : before[i] \in Value[s.parts[i]]
      /\ \A p : p = [i \in 1..n |-> p[i]] /\ (\A i \in 1..n : p[i] \in Value[s.parts[i]])
                  => Whole(p) \in Value[s]
  <2>1. s.is \in Tuples
    BY DEF Tuples
  <2>2. before = [i \in 1..n |-> before[i]]
    BY <2>1, TupleValueIs
  <2> HIDE DEF n
  <2>3. DOMAIN before = 1..n
    BY <2>2
  <2> QED
    BY <2>1, <2>3, TupleValueIs DEF n
<1>3. DOMAIN results = 1..n /\ DOMAIN faults = 1..n
  BY DEF Fields, FieldFaults
<1>4. \A i \in 1..n : faults[i] \in Seq(Kept) /\ results[i].error = FirstOf(faults[i])
                      /\ results[i].value \in Value[s.parts[i]]
  BY FieldReads
<1>5. Parse[s][json][old] = InOrder(results, before)
  BY TupleMapParse
<1>6. Faults[s][json] = FlattenSeq(faults)
  BY TupleMapFaults
<1>7. results = [i \in 1..n |-> results[i]] /\ faults = [i \in 1..n |-> faults[i]]
  BY DEF Fields, FieldFaults
<1> HIDE DEF results, faults, before, n
<1>8. Len(results) = n /\ Len(faults) = n /\ faults \in Seq(Seq(Kept))
  BY <1>1, <1>3, <1>4, <1>7
<1>9. PICK parts : ReadTo(parts, n, results, before, faults)
  BY <1>1, <1>2, <1>3, <1>4, <1>8, InOrderReads
<1>10. parts = [i \in 1..n |-> parts[i]] /\ \A i \in 1..n : parts[i] \in Value[s.parts[i]]
  BY <1>2, <1>4, <1>9 DEF ReadTo
<1>11. Whole(parts) \in Value[s]
  BY <1>2, <1>10
<1>12. Parse[s][json][old] = Result(Whole(parts), FirstOf(FlattenSeq(faults)))
  BY <1>5, <1>9 DEF ReadTo
<1>13. Whole(parts).parts = parts
  BY DEF Whole, Map
<1> QED
  BY <1>6, <1>9, <1>11, <1>12, <1>13, ResultIs DEF n, results, faults, before

LEMMA TupleMapGood ==
  ASSUME NEW s \in Types, s.is = "tuplemap", GoodParts(s)
  PROVE  Good(s)
<1> DEFINE n == Len(s.parts)
<1>1. s.is \in Tuples
  BY DEF Tuples
<1>2. Default[s] \in Value[s]
  <2> DEFINE p == [i \in 1..n |-> Default[s.parts[i]]]
  <2>1. p = [i \in 1..n |-> p[i]] /\ \A i \in 1..n : p[i] \in Value[s.parts[i]]
    BY DEF GoodParts, Good
  <2>2. Default[s] = Whole(p)
    BY <1>1, DefaultIs
  <2> HIDE DEF p
  <2> QED
    BY <2>1, <2>2, <1>1, TupleValueIs
<1>3. ASSUME NEW json \in Json
      PROVE  Reads(s, json)
  <2>1. CASE json.is # "object"
    <3>1. Faults[s][json] = <<"TypeMismatch">>
      BY <2>1, TupleMapFaults
    <3>2. "TypeMismatch" \in ReadingFailures
      BY DEF ReadingFailures
    <3>3. \A old \in Value[s] : Parse[s][json][old] = Result(old, "TypeMismatch")
      BY <2>1, TupleMapParse
    <3> QED
      BY <3>1, <3>2, <3>3, ReadsNothing
  <2>2. CASE json.is = "object"
    <3> DEFINE faults == FieldFaults(s, json)
               Given(i) == s.names[i] \in Range(json.names)
               Member(i) == Found(json, s.names[i])
    <3> DEFINE To(parts, old) ==
                 /\ ReadTo(parts, n, Fields(s, json, old), old.parts, faults)
                 /\ Parse[s][json][old].value = Whole(parts)
                 /\ Whole(parts).parts = parts
                 /\ Whole(parts) \in Value[s]
                 /\ Parse[s][json][old].error = FirstOf(Faults[s][json])
                 /\ Faults[s][json] = FlattenSeq(faults)
    <3>1. \A old \in Value[s] : \E parts : To(parts, old)
      BY <2>2, TupleMapReads
    <3>2. ASSUME NEW old \in Value[s], NEW parts, To(parts, old), Faults[s][json] = <<>>, NEW i \in 1..n
          PROVE  /\ s.names[i] # Unnamed
                 /\ faults[i] = <<>>
                 /\ parts[i] = Fields(s, json, old)[i].value
                 /\ Given(i) => /\ Member(i) \in Json
                                /\ Faults[s.parts[i]][Member(i)] = <<>>
                                /\ parts[i] = Parse[s.parts[i]][Member(i)][old.parts[i]].value
                                /\ parts[i] \in Meant[s.parts[i]][Member(i)]
                 /\ ~Given(i) => MayBeLeftOut[s.parts[i]] /\ parts[i] = old.parts[i]
      <4>1. parts[i] = Fields(s, json, old)[i].value /\ Fields(s, json, old)[i].error = NoError
        BY <3>2 DEF ReadTo
      <4>2. faults[i] \in Seq(Kept) /\ Fields(s, json, old)[i].error = FirstOf(faults[i])
        BY <2>2, FieldReads
      <4>3. faults[i] = <<>>
        BY <4>1, <4>2, FirstOfKept
      <4> QED
        BY <2>2, <4>1, <4>3, FieldReads
    <3> HIDE DEF To, faults, n
    <3>3. ReadsRight(s, json)
      <4>1. PICK parts : To(parts, Default[s])
        BY <1>2, <3>1
      <4>2. Faults[s][json] \in Seq(Kept)
        BY <4>1 DEF To, ReadTo
      <4>3. FirstOf(Faults[s][json]) = NoError <=> Faults[s][json] = <<>>
        BY <4>2, FirstOfKept
      <4>4. ASSUME NEW old \in Value[s]
            PROVE  /\ Parse[s][json][old].value \in Value[s]
                   /\ Parse[s][json][old].error = FirstOf(Faults[s][json])
                   /\ Parse[s][json][old].error = NoError => Parse[s][json][old].value \in Meant[s][json]
        <5>1. PICK p : To(p, old)
          BY <3>1
        <5>2. /\ Parse[s][json][old].value = Whole(p)
              /\ Whole(p).parts = p
              /\ Whole(p) \in Value[s]
              /\ Parse[s][json][old].error = FirstOf(Faults[s][json])
          BY <5>1 DEF To
        <5>3. ASSUME Faults[s][json] = <<>>
              PROVE  Whole(p) \in Meant[s][json]
          <6>1. \A i \in 1..n : IF Given(i) THEN p[i] \in OfParts(Meant, s)[i][Member(i)]
                                ELSE MayBeLeftOut[s.parts[i]]
            <7>1. \A i \in 1..n : OfParts(Meant, s)[i] = Meant[s.parts[i]]
              BY TupleParts DEF n
            <7> QED
              BY <7>1, <3>2, <5>1, <5>3
          <6>2. DOMAIN s.parts = 1..n
            BY Kinds DEF n
          <6>3. Says(json, s, Whole(p), OfParts(Meant, s))
            BY <2>2, <5>2, <6>1, <6>2 DEF Says, TextTypes
          <6> QED
            BY <5>2, <6>3, MeantIs
        <5> QED
          BY <4>3, <5>2, <5>3
      <4> QED
        BY <4>2, <4>4 DEF ReadsRight
    <3>4. ASSUME Complete[s][json], Faults[s][json] = <<>>
          PROVE  ReadsAfresh(s, json)
      <4>1. ASSUME NEW i \in 1..n
            PROVE  Given(i) /\ Complete[s.parts[i]][Member(i)]
        <5>1. LeavesNothingOut(json, s, OfParts(Complete, s))
          BY <3>4, CompleteIs
        <5>2. OfParts(Complete, s)[i] = Complete[s.parts[i]] /\ i \in DOMAIN s.parts
          BY TupleParts, Kinds DEF n
        <5> QED
          BY <2>2, <5>1, <5>2 DEF LeavesNothingOut
      <4> SUFFICES ASSUME NEW a \in Value[s], NEW b \in Value[s]
                   PROVE  Parse[s][json][a].value = Parse[s][json][b].value
        BY DEF ReadsAfresh
      <4>2. PICK p : To(p, a)
        BY <3>1
      <4>3. PICK q : To(q, b)
        BY <3>1
      <4>4. ASSUME NEW i \in 1..n
            PROVE  p[i] = q[i]
        <5>1. /\ Member(i) \in Json
              /\ Faults[s.parts[i]][Member(i)] = <<>>
              /\ p[i] = Parse[s.parts[i]][Member(i)][a.parts[i]].value
              /\ q[i] = Parse[s.parts[i]][Member(i)][b.parts[i]].value
          BY <3>2, <3>4, <4>1, <4>2, <4>3
        <5>2. ReadsAfresh(s.parts[i], Member(i))
          BY <4>1, <5>1 DEF GoodParts, Good, Reads, n
        <5>3. a.parts[i] \in Value[s.parts[i]] /\ b.parts[i] \in Value[s.parts[i]]
          BY <1>1, TupleValueIs DEF n
        <5> QED
          BY <5>1, <5>2, <5>3 DEF ReadsAfresh
      <4>5. p = [i \in 1..n |-> p[i]] /\ q = [i \in 1..n |-> q[i]]
        BY <4>2, <4>3 DEF To, ReadTo
      <4>6. p = q
        BY <4>4, <4>5
      <4> QED
        BY <4>2, <4>3, <4>6 DEF To
    <3>5. s.is \notin Refilled
      BY DEF Refilled
    <3> QED
      BY <3>3, <3>4, <3>5 DEF Reads
  <2> QED
    BY <2>1, <2>2
<1> QED
  BY <1>2, <1>3 DEF Good

\* Maps in the making: V is what their parts are.
Makings(V) == {m \in Maps(V) : Len(m.keys) = Len(m.parts)}

LEMMA MakingsAre ==
  ASSUME NEW V
  PROVE  /\ \A m \in Makings(V) : /\ m = Map(m.keys, m.parts)
                                  /\ m.keys \in Seq(STRING)
                                  /\ m.parts \in Seq(V)
                                  /\ Len(m.keys) = Len(m.parts)
         /\ \A keys \in Seq(STRING), parts \in Seq(V) :
              Len(keys) = Len(parts) => /\ Map(keys, parts) \in Makings(V)
                                        /\ Map(keys, parts).keys = keys
                                        /\ Map(keys, parts).parts = parts
<1>1. ASSUME NEW m \in Makings(V)
      PROVE  m = Map(m.keys, m.parts)
  <2>1. m = [number |-> m.number, text |-> m.text, keys |-> m.keys, parts |-> m.parts]
        /\ m.number = 0 /\ m.text = ""
    BY DEF Makings, Maps
  <2> QED
    BY <2>1 DEF Map
<1>2. \A m \in Makings(V) : m.keys \in Seq(STRING) /\ m.parts \in Seq(V) /\ Len(m.keys) = Len(m.parts)
  BY DEF Makings, Maps
<1>3. ASSUME NEW keys \in Seq(STRING), NEW parts \in Seq(V), Len(keys) = Len(parts)
      PROVE  Map(keys, parts) \in Makings(V) /\ Map(keys, parts).keys = keys
             /\ Map(keys, parts).parts = parts
  BY <1>3 DEF Map, Makings, Maps
<1> QED
  BY <1>1, <1>2, <1>3

LEMMA EmplaceIs ==
  ASSUME NEW V, NEW m \in Makings(V), NEW key \in STRING, NEW value \in V, NEW s
  PROVE  /\ Emplace(m, key, value, s) \in Makings(V)
         /\ s.is = "map" /\ key \in Range(m.keys) => Emplace(m, key, value, s) = m
         /\ ~(s.is = "map" /\ key \in Range(m.keys)) =>
              /\ Emplace(m, key, value, s).keys = Append(m.keys, key)
              /\ Emplace(m, key, value, s).parts = Append(m.parts, value)
<1>1. m.keys \in Seq(STRING) /\ m.parts \in Seq(V) /\ Len(m.keys) = Len(m.parts)
  BY MakingsAre
<1>2. Append(m.keys, key) \in Seq(STRING) /\ Append(m.parts, value) \in Seq(V)
      /\ Len(Append(m.keys, key)) = Len(Append(m.parts, value))
  BY <1>1
<1>3. /\ Map(Append(m.keys, key), Append(m.parts, value)) \in Makings(V)
      /\ Map(Append(m.keys, key), Append(m.parts, value)).keys = Append(m.keys, key)
      /\ Map(Append(m.keys, key), Append(m.parts, value)).parts = Append(m.parts, value)
  BY <1>2, MakingsAre
<1> QED
  BY <1>3 DEF Emplace

\* The loop of deserializeMapImpl: h[i] is the map after i - 1 of n entries.
Emplaced(h, n, s, names, results) ==
  h = [i \in 1..(n + 1) |-> IF i = 1 THEN Map(<<>>, <<>>)
                            ELSE Emplace(h[i - 1], names[i - 1], results[i - 1].value, s)]

LEMMA EmplacedSteps ==
  ASSUME NEW n \in Nat, NEW s, NEW names, NEW results,
         NEW h, Emplaced(h, n, s, names, results)
  PROVE  /\ h[1] = Map(<<>>, <<>>)
         /\ \A i \in 1..n : h[i + 1] = Emplace(h[i], names[i], results[i].value, s)
<1>1. 1 \in 1..(n + 1) /\ \A i \in 1..n : i + 1 \in 1..(n + 1) /\ i + 1 # 1 /\ (i + 1) - 1 = i
  OBVIOUS
<1> QED
  BY <1>1 DEF Emplaced

LEMMA EmplacedExists ==
  ASSUME NEW V, NEW n \in Nat, NEW s, NEW names, NEW results,
         \A i \in 1..n : names[i] \in STRING /\ results[i].value \in V
  PROVE  \E h : Emplaced(h, n, s, names, results)
<1> DEFINE X == Makings(V)
           step == [i \in 1..((n + 1) - 1) |-> [m \in X |-> Emplace(m, names[i], results[i].value, s)]]
<1>1. \A i \in 1..n : \A m \in X : Emplace(m, names[i], results[i].value, s) \in X
  BY EmplaceIs
<1>2. step \in Steps((n + 1) - 1, X)
  <2>1. (n + 1) - 1 = n
    OBVIOUS
  <2> HIDE DEF X
  <2> QED
    BY <1>1, <2>1 DEF Steps
<1>3. Map(<<>>, <<>>) \in X
  <2>1. <<>> \in Seq(STRING) /\ <<>> \in Seq(V) /\ Len(<<>>) = Len(<<>>)
    OBVIOUS
  <2> QED
    BY <2>1, MakingsAre
<1>4. n + 1 \in Nat \ {0}
  OBVIOUS
<1>5. PICK h : FollowsUp(h, n + 1, X, Map(<<>>, <<>>), step)
  <2> HIDE DEF X, step
  <2> QED
    BY <1>2, <1>3, <1>4, RecursionUpwards
<1>6. /\ h \in [1..(n + 1) -> X]
      /\ h[1] = Map(<<>>, <<>>)
      /\ \A i \in 1..n : h[i + 1] = step[i][h[i]]
  <2>1. (n + 1) - 1 = n
    OBVIOUS
  <2> HIDE DEF X, step
  <2> QED
    BY <1>5, <2>1 DEF FollowsUp
<1>7. ASSUME NEW i \in 1..(n + 1), i # 1
      PROVE  h[i] = Emplace(h[i - 1], names[i - 1], results[i - 1].value, s)
  <2>1. i - 1 \in 1..n /\ (i - 1) + 1 = i /\ i - 1 \in 1..(n + 1) /\ (n + 1) - 1 = n
    BY <1>7
  <2>2. h[i] = step[i - 1][h[i - 1]]
    BY <1>6, <2>1
  <2>3. h[i - 1] \in X
    BY <1>6, <2>1
  <2> HIDE DEF X
  <2> QED
    BY <2>1, <2>2, <2>3
<1>8. Emplaced(h, n, s, names, results)
  <2> HIDE DEF X, step
  <2> QED
    BY <1>6, <1>7 DEF Emplaced
<1> QED
  BY <1>8

IsFirst(j, name, names) == names[j] = name /\ \A l \in 1..(j - 1) : names[l] # name

\* What has become of the first k entries.
Holds(m, k, s, names, results) ==
  /\ Range(m.keys) = {names[j] : j \in 1..k}
  /\ s.is = "map" =>
       /\ IsInjective(m.keys)
       /\ \A i \in DOMAIN m.keys :
            \E j \in 1..k : IsFirst(j, m.keys[i], names) /\ m.parts[i] = results[j].value
  /\ s.is = "multimap" =>
       /\ Len(m.keys) = k
       /\ \A i \in 1..k : m.keys[i] = names[i] /\ m.parts[i] = results[i].value

MapKinds == {"map", "multimap"}

Entries(n, names, results, V) ==
  \A i \in 1..n : names[i] \in STRING /\ results[i].value \in V

LEMMA EmplacedHolds ==
  ASSUME NEW V, NEW n \in Nat, NEW s, NEW names, NEW results, s.is \in MapKinds,
         Entries(n, names, results, V),
         NEW h, Emplaced(h, n, s, names, results)
  PROVE  \A k \in 0..n : h[k + 1] \in Makings(V) /\ Holds(h[k + 1], k, s, names, results)
<1> DEFINE S == {i \in 1..(n + 1) : h[i] \in Makings(V) /\ Holds(h[i], i - 1, s, names, results)}
<1>1. /\ h[1] = Map(<<>>, <<>>)
      /\ \A i \in 1..n : h[i + 1] = Emplace(h[i], names[i], results[i].value, s)
  BY EmplacedSteps
<1>2. 1 \in S
  <2>1. <<>> \in Seq(STRING) /\ <<>> \in Seq(V) /\ Len(<<>>) = 0 /\ DOMAIN <<>> = {}
    OBVIOUS
  <2>2. h[1] \in Makings(V) /\ h[1].keys = <<>>
    <3>1. Map(<<>>, <<>>) \in Makings(V) /\ Map(<<>>, <<>>).keys = <<>>
      BY <2>1, MakingsAre
    <3> QED
      BY <1>1, <3>1
  <2>3. Holds(h[1], 0, s, names, results)
    BY <2>1, <2>2 DEF Holds, Range, IsInjective
  <2> QED
    BY <2>2, <2>3
<1>3. ASSUME NEW i \in 1..((n + 1) - 1), i \in S
      PROVE  i + 1 \in S
  <2> DEFINE m == h[i]
             e == h[i + 1]
             key == names[i]
             value == results[i].value
             k == i - 1
  <2>1. i \in 1..n /\ i + 1 \in 1..(n + 1) /\ (i + 1) - 1 = i /\ k \in Nat /\ i = k + 1
    OBVIOUS
  <2>2. m \in Makings(V) /\ Holds(m, k, s, names, results)
    BY <1>3
  <2>3. key \in STRING /\ value \in V /\ e = Emplace(m, key, value, s)
    BY <1>1, <2>1 DEF Entries
  <2> HIDE DEF m, e, key, value, k
  <2>4. e \in Makings(V)
    BY <2>2, <2>3, EmplaceIs
  <2>5. {names[j] : j \in 1..i} = {names[j] : j \in 1..k} \cup {key}
    BY <2>1 DEF key
  <2>6. m.keys \in Seq(STRING) /\ m.parts \in Seq(V) /\ Len(m.keys) = Len(m.parts)
    BY <2>2, MakingsAre
  <2>7. CASE s.is = "map" /\ key \in Range(m.keys)
    <3>1. e = m
      BY <2>2, <2>3, <2>7, EmplaceIs
    <3>2. \A j \in 1..k : j \in 1..i
      BY <2>1
    <3>3. Holds(e, i, s, names, results)
      BY <2>2, <2>5, <2>7, <3>1, <3>2 DEF Holds
    <3> QED
      BY <2>1, <2>4, <3>3 DEF e
  <2>8. CASE ~(s.is = "map" /\ key \in Range(m.keys))
    <3> DEFINE l == Len(m.keys)
    <3>1. e.keys = Append(m.keys, key) /\ e.parts = Append(m.parts, value)
      BY <2>2, <2>3, <2>8, EmplaceIs
    <3>2. l \in Nat /\ DOMAIN m.keys = 1..l
      BY <2>6
    <3>3. /\ DOMAIN e.keys = 1..(l + 1)
          /\ Len(e.keys) = l + 1
          /\ e.keys[l + 1] = key /\ e.parts[l + 1] = value
          /\ \A a \in 1..l : e.keys[a] = m.keys[a] /\ e.parts[a] = m.parts[a]
      BY <2>3, <2>6, <3>1
    <3> HIDE DEF l
    <3>4. \A a \in 1..(l + 1) : a \in 1..l \/ a = l + 1
      BY <3>2
    <3>5. \A a \in 1..l : a \in 1..(l + 1)
      BY <3>2
    <3>6. Range(e.keys) = Range(m.keys) \cup {key}
      <4>1. l + 1 \in 1..(l + 1)
        BY <3>2
      <4> QED
        BY <4>1, <3>2, <3>3, <3>4, <3>5 DEF Range
    <3>7. Range(e.keys) = {names[j] : j \in 1..i}
      BY <2>2, <2>5, <3>6 DEF Holds
    <3>8. ASSUME s.is = "map"
          PROVE  /\ IsInjective(e.keys)
                 /\ \A a \in DOMAIN e.keys :
                      \E j \in 1..i : IsFirst(j, e.keys[a], names) /\ e.parts[a] = results[j].value
      <4>1. key \notin Range(m.keys)
        BY <2>8, <3>8
      <4>2. \A a \in 1..l : m.keys[a] # key
        BY <4>1, <3>2 DEF Range
      <4>3. IsInjective(e.keys)
        <5>1. \A a, b \in 1..l : m.keys[a] = m.keys[b] => a = b
          BY <2>2, <3>2, <3>8 DEF Holds, IsInjective
        <5> QED
          BY <3>3, <3>4, <4>2, <5>1 DEF IsInjective
      <4>4. ASSUME NEW a \in 1..l
            PROVE  \E j \in 1..i : IsFirst(j, e.keys[a], names) /\ e.parts[a] = results[j].value
        <5>1. PICK j \in 1..k : IsFirst(j, m.keys[a], names) /\ m.parts[a] = results[j].value
          BY <2>2, <3>2, <3>8 DEF Holds
        <5>2. j \in 1..i
          BY <2>1
        <5> QED
          BY <5>1, <5>2, <3>3
      <4>5. IsFirst(i, key, names)
        <5>1. \A j \in 1..k : names[j] # key
          BY <2>2, <4>1 DEF Holds
        <5> QED
          BY <5>1 DEF IsFirst, key, k
      <4>6. i \in 1..i /\ e.keys[l + 1] = key /\ e.parts[l + 1] = results[i].value
        BY <2>1, <3>3 DEF value
      <4> QED
        BY <3>3, <3>4, <4>3, <4>4, <4>5, <4>6
    <3>9. ASSUME s.is = "multimap"
          PROVE  /\ Len(e.keys) = i
                 /\ \A a \in 1..i : e.keys[a] = names[a] /\ e.parts[a] = results[a].value
      <4>1. l = k /\ \A a \in 1..k : m.keys[a] = names[a] /\ m.parts[a] = results[a].value
        BY <2>2, <3>9 DEF Holds, l
      <4> QED
        BY <2>1, <3>3, <3>4, <4>1 DEF key, value
    <3>10. Holds(e, i, s, names, results)
      BY <3>7, <3>8, <3>9 DEF Holds
    <3> QED
      BY <2>1, <2>4, <3>10 DEF e
  <2> QED
    BY <2>7, <2>8
<1>4. 1..(n + 1) \subseteq S
  <2>1. n + 1 \in Nat
    OBVIOUS
  <2> HIDE DEF S
  <2> QED
    BY <1>2, <1>3, <2>1, Upwards
<1> SUFFICES ASSUME NEW k \in 0..n
             PROVE  h[k + 1] \in Makings(V) /\ Holds(h[k + 1], k, s, names, results)
  OBVIOUS
<1>5. k + 1 \in 1..(n + 1) /\ (k + 1) - 1 = k
  OBVIOUS
<1>6. k + 1 \in S
  BY <1>4, <1>5
<1> QED
  BY <1>5, <1>6

\* The values of an object, read before any is emplaced.
MapResults(s, json) ==
  [i \in 1..Len(json.values) |-> Rewrap(Parse[s.parts[1]][json.values[i]][Default[s.parts[1]]])]

LEMMA MapParse ==
  ASSUME NEW s \in Types, s.is \in MapKinds, NEW json \in Json, json.is = "object",
         NEW V, \A i \in 1..Len(json.values) : MapResults(s, json)[i].value \in V
  PROVE  \E h : /\ Emplaced(h, Len(json.values), s, json.names, MapResults(s, json))
                /\ \A old \in Value[s] :
                     Parse[s][json][old] = Result(h[Completed(MapResults(s, json)) + 1],
                                                  FirstError(MapResults(s, json)))
<1> DEFINE n == Len(json.values)
           results == MapResults(s, json)
           names == json.names
           h == CHOOSE h : Emplaced(h, n, s, names, results)
<1>1. n \in Nat /\ DOMAIN json.values = 1..n /\ \A i \in 1..n : names[i] \in STRING
  BY JsonIs
<1>2. Emplaced(h, n, s, names, results)
  <2> HIDE DEF n, results, names
  <2>1. \A i \in 1..n : names[i] \in STRING /\ results[i].value \in V
    BY <1>1 DEF n, results
  <2>2. \E f : Emplaced(f, n, s, names, results)
    BY <1>1, <2>1, EmplacedExists
  <2> QED
    BY <2>2
<1>3. ASSUME NEW old \in Value[s]
      PROVE  Parse[s][json][old] = Result(h[Completed(results) + 1], FirstError(results))
  <2>1. Parse[s][json][old] = ParseMap(json, s, old, Parse[s.parts[1]])
    BY ParseIs DEF MapKinds
  <2> DEFINE rs == [i \in DOMAIN json.values |->
                      Rewrap(Parse[s.parts[1]][json.values[i]][Default[s.parts[1]]])]
  <2>2. rs = results
    BY <1>1 DEF MapResults
  <2>3. Len(results) = n
    BY <1>1 DEF MapResults
  <2> DEFINE f == CHOOSE f : f = [i \in 1..(Len(rs) + 1) |->
                      IF i = 1 THEN Map(<<>>, <<>>)
                      ELSE Emplace(f[i - 1], names[i - 1], rs[i - 1].value, s)]
  <2>4. ParseMap(json, s, old, Parse[s.parts[1]]) = Result(f[Completed(rs) + 1], FirstError(rs))
    BY DEF ParseMap
  <2> HIDE DEF rs, results, names, n
  <2>5. f = h
    BY <2>2, <2>3 DEF Emplaced
  <2> HIDE DEF f, h
  <2> QED
    BY <2>1, <2>2, <2>4, <2>5
<1> HIDE DEF h
<1> QED
  BY <1>2, <1>3

LEMMA CompletedIs ==
  ASSUME NEW n \in Nat, NEW results, DOMAIN results = 1..n, Len(results) = n
  PROVE  Completed(results) \in 0..n
<1> DEFINE F == Failing(results)
<1>1. F \subseteq 1..n /\ F \subseteq Nat
  BY DEF Failing
<1> HIDE DEF F
<1>2. F # {} => Min(F) \in 1..n
  BY <1>1, LeastIsIn
<1> QED
  BY <1>2 DEF Completed, F

LEMMA MapGood ==
  ASSUME NEW s \in Types, s.is \in MapKinds, GoodParts(s)
  PROVE  Good(s)
<1> DEFINE part == s.parts[1]
           V == Value[part]
<1>1. s.is \in Containers
  BY DEF Containers, MapKinds
<1>2. part \in Types /\ Good(part) /\ Default[part] \in V
  BY <1>1, PartIsGood
<1>3. \A f : OfParts(f, s)[1] = f[part]
  BY <1>1, ContainerPart
<1>4. /\ Value[s] \subseteq Makings(V)
      /\ s.is = "map" => \A m \in Makings(V) : IsInjective(m.keys) => m \in Value[s]
      /\ s.is = "multimap" => \A m \in Makings(V) : m \in Value[s]
  BY ValueIs DEF Makings, MapKinds
<1>5. Default[s] \in Value[s]
  <2>1. <<>> \in Seq(STRING) /\ <<>> \in Seq(V) /\ Len(<<>>) = Len(<<>>) /\ DOMAIN <<>> = {}
    OBVIOUS
  <2>2. Map(<<>>, <<>>) \in Makings(V) /\ Map(<<>>, <<>>).keys = <<>>
    <3> HIDE DEF V
    <3> QED
      BY <2>1, MakingsAre
  <2>3. IsInjective(<<>>)
    BY <2>1 DEF IsInjective
  <2>4. Default[s] = Map(<<>>, <<>>)
    BY DefaultIs DEF Whole, MapKinds
  <2> QED
    BY <1>4, <2>2, <2>3, <2>4 DEF MapKinds
<1> HIDE DEF V, part
<1>6. ASSUME NEW json \in Json
      PROVE  Reads(s, json)
  <2>1. CASE json.is # "object"
    <3>1. Faults[s][json] = <<"TypeMismatch">>
      BY <2>1, ContainerFaults DEF MapKinds
    <3>2. \A old \in Value[s] : Parse[s][json][old] = Result(old, "TypeMismatch")
      BY <2>1, ParseIs DEF ParseMap, Mismatch, MapKinds
    <3>3. "TypeMismatch" \in ReadingFailures
      BY DEF ReadingFailures
    <3> QED
      BY <3>1, <3>2, <3>3, ReadsNothing
  <2>2. CASE json.is = "object"
    <3> DEFINE n == Len(json.values)
               names == json.names
               results == MapResults(s, json)
               faults == InElements(s, json)
    <3>1. /\ n \in Nat
          /\ DOMAIN names = 1..n
          /\ names \in Seq(STRING)
          /\ \A i \in 1..n : json.values[i] \in Json /\ names[i] \in STRING
      BY <2>2, JsonIs
    <3>2. Faults[s][json] = FlattenSeq(faults)
      BY <2>2, ContainerFaults DEF MapKinds
    <3>3. ASSUME NEW i \in 1..n
          PROVE  /\ faults[i] = Faults[part][json.values[i]]
                 /\ faults[i] \in Seq(Kept)
                 /\ results[i].value \in V
                 /\ results[i].error = FirstOf(faults[i])
                 /\ results[i].error = NoError => results[i].value \in Meant[part][json.values[i]]
      <4> DEFINE result == Parse[part][json.values[i]][Default[part]]
      <4>1. results[i] = Rewrap(result) /\ faults[i] = Faults[part][json.values[i]]
        BY DEF MapResults, InElements, part
      <4>2. /\ faults[i] \in Seq(Kept)
            /\ result.value \in V
            /\ result.error = FirstOf(faults[i])
            /\ result.error = NoError => result.value \in Meant[part][json.values[i]]
        BY <1>2, <3>1, <4>1 DEF Good, Reads, ReadsRight, V
      <4> HIDE DEF result, results, faults
      <4>3. result.error \in Kept \cup {NoError}
        BY <4>2, FirstOfKept
      <4>4. results[i].value = result.value /\ results[i].error = result.error
        BY <4>1, <4>3, RewrapKeeps
      <4> QED
        BY <4>1, <4>2, <4>4
    <3>4. PICK h : /\ Emplaced(h, n, s, names, results)
                   /\ \A old \in Value[s] :
                        Parse[s][json][old] = Result(h[Completed(results) + 1], FirstError(results))
      BY <2>2, <3>3, MapParse
    <3>5. DOMAIN results = 1..n /\ Len(results) = n
      BY <3>1 DEF MapResults
    <3>6. faults = [i \in 1..n |-> faults[i]]
      BY DEF InElements
    <3> HIDE DEF n, names, results, faults
    <3>7. faults \in Seq(Seq(Kept)) /\ Len(faults) = n
      BY <3>1, <3>3, <3>6
    <3> DEFINE k == Completed(results)
               m == h[k + 1]
    <3>8. StopsAt(results, k + 1)
      BY <3>1, <3>5, ReadingStops
    <3>9. /\ FlattenSeq(faults) \in Seq(Kept)
          /\ FirstError(results) = FirstOf(FlattenSeq(faults))
          /\ FlattenSeq(faults) = <<>> <=> k + 1 = n + 1
      BY <3>1, <3>3, <3>5, <3>7, <3>8, ErrorsAreFirst
    <3>10. k \in 0..n /\ \A i \in 1..k : results[i].error = NoError
      <4>1. k + 1 \in 1..(n + 1) /\ \A i \in 1..((k + 1) - 1) : results[i].error = NoError
        BY <3>5, <3>8 DEF StopsAt
      <4>2. k \in Int
        BY <3>1, <3>5, CompletedIs
      <4> HIDE DEF k
      <4> QED
        BY <3>1, <4>1, <4>2
    <3> HIDE DEF k
    <3>11. m \in Makings(V) /\ Holds(m, k, s, names, results)
      <4>1. Entries(n, names, results, V)
        BY <3>1, <3>3 DEF Entries
      <4>2. Emplaced(h, n, s, names, results)
        BY <3>4
      <4>3. \A i \in 0..n : h[i + 1] \in Makings(V) /\ Holds(h[i + 1], i, s, names, results)
        BY <3>1, <4>1, <4>2, EmplacedHolds
      <4> QED
        BY <3>10, <4>3
    <3> HIDE DEF m
    <3>12. m \in Value[s]
      BY <1>4, <3>11 DEF Holds, MapKinds
    <3>13. \A old \in Value[s] : /\ Parse[s][json][old].value = m
                                 /\ Parse[s][json][old].error = FirstOf(Faults[s][json])
      BY <3>2, <3>4, <3>9, ResultIs DEF k, m
    <3>14. ASSUME Faults[s][json] = <<>>
           PROVE  m \in Meant[s][json]
      <4>1. k = n
        BY <3>1, <3>2, <3>9, <3>10, <3>14
      <4>2. \A i \in 1..n : results[i].value \in Meant[part][json.values[i]]
        BY <3>3, <3>10, <4>1
      <4>3. m.keys \in Seq(STRING) /\ Len(m.keys) \in Nat /\ DOMAIN m.keys = 1..Len(m.keys)
        BY <3>11, MakingsAre
      <4>4. Range(m.keys) = Range(names)
        BY <3>1, <3>11, <4>1 DEF Holds, Range
      <4>5. CASE s.is = "map"
        <5>1. ASSUME NEW i \in DOMAIN m.keys
              PROVE  m.parts[i] \in Meant[part][Found(json, m.keys[i])]
          <6>1. PICK j \in 1..n : IsFirst(j, m.keys[i], names) /\ m.parts[i] = results[j].value
            BY <3>11, <4>1, <4>5 DEF Holds
          <6>2. m.keys[i] \in Range(names)
            BY <4>4 DEF Range
          <6>3. PICK l \in 1..n : /\ names[l] = m.keys[i]
                                  /\ \A x \in 1..(l - 1) : names[x] # m.keys[i]
                                  /\ Found(json, m.keys[i]) = json.values[l]
            BY <2>2, <6>2, FoundIs DEF n, names
          <6>4. j = l
            <7>1. names[j] = m.keys[i] /\ \A x \in 1..(j - 1) : names[x] # m.keys[i]
              BY <6>1 DEF IsFirst
            <7>2. ~(j < l)
              <8>1. j < l => j \in 1..(l - 1)
                OBVIOUS
              <8> QED
                BY <6>3, <7>1, <8>1
            <7>3. ~(l < j)
              <8>1. l < j => l \in 1..(j - 1)
                OBVIOUS
              <8> QED
                BY <6>3, <7>1, <8>1
            <7> QED
              BY <3>1, <7>2, <7>3
          <6> QED
            BY <4>2, <6>1, <6>3, <6>4
        <5>2. Says(json, s, m, OfParts(Meant, s))
          BY <1>3, <2>2, <4>4, <4>5, <5>1 DEF Says, TextTypes, names
        <5> QED
          BY <3>12, <5>2, MeantIs
      <4>6. CASE s.is = "multimap"
        <5>1. Len(m.keys) = n /\ \A i \in 1..n : m.keys[i] = names[i] /\ m.parts[i] = results[i].value
          BY <3>11, <4>1, <4>6 DEF Holds
        <5>2. m.keys = names
          <6>1. m.keys = [i \in 1..n |-> m.keys[i]] /\ names = [i \in 1..n |-> names[i]]
            BY <3>1, <4>3, <5>1
          <6> QED
            BY <5>1, <6>1
        <5>3. \A i \in DOMAIN m.keys : m.parts[i] \in Meant[part][json.values[i]]
          BY <4>2, <4>3, <5>1
        <5>4. Says(json, s, m, OfParts(Meant, s))
          BY <1>3, <2>2, <4>6, <5>2, <5>3 DEF Says, TextTypes, names
        <5> QED
          BY <3>12, <5>4, MeantIs
      <4> QED
        BY <4>5, <4>6 DEF MapKinds
    <3>15. Faults[s][json] \in Seq(Kept)
      BY <3>2, <3>9
    <3>16. FirstOf(Faults[s][json]) = NoError <=> Faults[s][json] = <<>>
      BY <3>15, FirstOfKept
    <3> QED
      BY <3>12, <3>13, <3>14, <3>15, <3>16 DEF Reads, ReadsRight, ReadsAfresh
  <2> QED
    BY <2>1, <2>2
<1> QED
  BY <1>5, <1>6 DEF Good

\* What a document may leave out of a TupleMap: optional values, strings, and tuples
\* whose only element is such; not numbers, paths, containers or nested TupleMaps.
THEOREM LeftOutIs ==
  ASSUME NEW s \in Types
  PROVE  /\ s.is \in {"optional", "string"} => MayBeLeftOut[s]
         /\ MayBeLeftOut[s] => \/ s.is \in {"optional", "string"}
                               \/ s.is = "tuple" /\ Len(s.parts) = 1 /\ MayBeLeftOut[s.parts[1]]
         /\ s.is = "tuple" /\ Len(s.parts) = 1 => (MayBeLeftOut[s] <=> MayBeLeftOut[s.parts[1]])
<1>1. MayBeLeftOut[s] = ConvertsFromNull(s, OfParts(MayBeLeftOut, s))
  BY LeftOutUnfold
<1>2. ASSUME Len(s.parts) = 1
      PROVE  OfParts(MayBeLeftOut, s)[1] = MayBeLeftOut[s.parts[1]]
  <2>1. DOMAIN s.parts = 1..1
    BY <1>2, Kinds
  <2> QED
    BY <2>1 DEF OfParts
<1> DEFINE of == OfParts(MayBeLeftOut, s)
<1>3. ConvertsFromNull(s, of) <=> \/ s.is \in {"optional", "string"}
                                  \/ s.is = "tuple" /\ Len(s.parts) = 1 /\ of[1]
  BY DEF ConvertsFromNull
<1>4. s.is = "tuple" => s.is \notin {"optional", "string"}
  OBVIOUS
<1>5. MayBeLeftOut[s] = ConvertsFromNull(s, of) /\ (Len(s.parts) = 1 => of[1] = MayBeLeftOut[s.parts[1]])
  BY <1>1, <1>2
<1> HIDE DEF of
<1> QED
  BY <1>3, <1>4, <1>5

\* Every type is read as it should be.
LEMMA AllGood == \A s \in Types : Good(s)
<1> DEFINE S == {s \in Types : Good(s)}
<1>1. ASSUME NEW s \in Types, \A i \in DOMAIN s.parts : s.parts[i] \in S
      PROVE  s \in S
  <2>1. GoodParts(s)
    BY <1>1, Kinds DEF GoodParts
  <2>2. s.is \in {"integral", "floating", "vector", "array", "tuple", "map", "multimap",
                  "optional", "tuplemap"} \cup TextTypes
    BY TypesAssumption DEF Containers, Tuples
  <2> QED
    BY <2>1, <2>2, IntegralGood, FloatingGood, StringGood, VectorGood, SizedGood, MapGood,
       OptionalGood, TupleMapGood DEF Sized, MapKinds
<1>2. Types \subseteq S
  <2> HIDE DEF S
  <2> QED
    BY <1>1, TypeInduction
<1> QED
  BY <1>2

-----------------------------------------------------------------------------
(* The client.                                                              *)

\* A member of a TupleMap that is refilled keeps nothing of what it was.
LEMMA RefilledAfresh ==
  ASSUME NEW s \in Types, s.is = "tuplemap", NEW json \in Json, Faults[s][json] = <<>>,
         NEW a \in Value[s], NEW b \in Value[s],
         NEW i \in DOMAIN s.parts, s.parts[i].is \in Refilled, s.names[i] \in Range(json.names)
  PROVE  Parse[s][json][a].value.parts[i] = Parse[s][json][b].value.parts[i]
<1> DEFINE n == Len(s.parts)
           part == s.parts[i]
           found == Found(json, s.names[i])
<1>1. json.is = "object"
  BY TupleMapFaults
<1>2. GoodParts(s) /\ i \in 1..n /\ Good(part)
  BY AllGood, Kinds DEF GoodParts
<1>3. ASSUME NEW old \in Value[s]
      PROVE  /\ Parse[s][json][old].value.parts[i] = Parse[part][found][old.parts[i]].value
             /\ found \in Json
             /\ Faults[part][found] = <<>>
             /\ old.parts[i] \in Value[part]
  <2>1. PICK parts :
           /\ ReadTo(parts, n, Fields(s, json, old), old.parts, FieldFaults(s, json))
           /\ Parse[s][json][old].value = Whole(parts)
           /\ Whole(parts).parts = parts
           /\ Faults[s][json] = FlattenSeq(FieldFaults(s, json))
    BY <1>1, <1>2, TupleMapReads
  <2>2. parts[i] = Fields(s, json, old)[i].value /\ Fields(s, json, old)[i].error = NoError
    BY <1>2, <2>1 DEF ReadTo
  <2>3. FieldFaults(s, json)[i] \in Seq(Kept)
        /\ Fields(s, json, old)[i].error = FirstOf(FieldFaults(s, json)[i])
    BY <1>1, <1>2, FieldReads
  <2>4. FieldFaults(s, json)[i] = <<>>
    BY <2>2, <2>3, FirstOfKept
  <2>5. old.parts[i] \in Value[part]
    <3>1. s.is \in Tuples
      BY DEF Tuples
    <3> QED
      BY <1>2, <3>1, TupleValueIs
  <2>6. /\ found \in Json
        /\ Faults[part][found] = <<>>
        /\ Fields(s, json, old)[i].value = Parse[part][found][old.parts[i]].value
    BY <1>1, <1>2, <2>4, FieldReads
  <2> QED
    BY <2>1, <2>2, <2>5, <2>6
<1>4. ReadsAfresh(part, found)
  <2>1. found \in Json /\ Faults[part][found] = <<>>
    BY <1>3
  <2> QED
    BY <2>1, <1>2 DEF Good, Reads
<1> HIDE DEF part, found
<1> QED
  BY <1>3, <1>4 DEF ReadsAfresh

\* What reading a document into any value of the shape comes to.
LEMMA ReadPromises ==
  ASSUME ParserTypeOK, NEW document \in Documents[shape], Read(document)
  PROVE  ParserTypeOK' /\ SuccessSaysDocument' /\ NothingStale' /\ FirstFaultCaught'
<1> DEFINE r == Parse[shape][document][target]
<1>1. shape \in Types /\ shape \in Shapes /\ document \in Json /\ target \in Value[shape]
  BY DocumentsAssumption DEF ParserTypeOK
<1>2. Good(shape)
  BY <1>1, AllGood
<1>3. /\ Default[shape] \in Value[shape]
      /\ Faults[shape][document] \in Seq(Kept)
      /\ \A old \in Value[shape] :
           /\ Parse[shape][document][old].value \in Value[shape]
           /\ Parse[shape][document][old].error = FirstOf(Faults[shape][document])
           /\ Parse[shape][document][old].error = NoError =>
                Parse[shape][document][old].value \in Meant[shape][document]
      /\ Complete[shape][document] /\ Faults[shape][document] = <<>> => ReadsAfresh(shape, document)
  BY <1>1, <1>2 DEF Good, Reads, ReadsRight
<1>4. target' = r.value /\ caught' = r.error /\ last' = document /\ shape' = shape
  BY DEF Read
<1> HIDE DEF r
<1>5. /\ r.value \in Value[shape]
      /\ r.error = FirstOf(Faults[shape][document])
      /\ r.error = NoError => r.value \in Meant[shape][document]
  BY <1>1, <1>3 DEF r
<1>6. r.error \in Kept \cup {NoError} /\ (r.error = NoError <=> Faults[shape][document] = <<>>)
  BY <1>3, <1>5, FirstOfKept
<1>7. Kept \cup {NoError} \subseteq Outcomes
  BY DEF Kept, Outcomes, Exceptions, RuntimeErrors, ParsingFailures
<1>8. ParserTypeOK'
  BY <1>1, <1>4, <1>5, <1>6, <1>7 DEF ParserTypeOK
<1>9. SuccessSaysDocument'
  BY <1>4, <1>5 DEF SuccessSaysDocument
<1>10. NothingStale'
  <2> DEFINE fresh == Parse[shape][document][Default[shape]].value
  <2>1. ASSUME r.error = NoError, Complete[shape][document]
        PROVE  r.value = fresh
    BY <1>1, <1>3, <1>6, <2>1 DEF ReadsAfresh, r
  <2>2. ASSUME r.error = NoError, shape.is = "tuplemap", NEW i \in DOMAIN shape.parts,
               shape.parts[i].is \in Refilled, shape.names[i] \in Range(document.names)
        PROVE  r.value.parts[i] = fresh.parts[i]
    BY <1>1, <1>3, <1>6, <2>2, RefilledAfresh DEF r
  <2> QED
    BY <1>4, <2>1, <2>2 DEF NothingStale, Refilled
<1>11. FirstFaultCaught'
  BY <1>4, <1>5 DEF FirstFaultCaught, FirstOf
<1> QED
  BY <1>8, <1>9, <1>10, <1>11

\* The properties together: whatever was read before has left a value of the
\* shape, and that is all the next document needs.
ReadingInv == ParserTypeOK /\ SuccessSaysDocument /\ NothingStale /\ FirstFaultCaught

LEMMA ReadingInit == Init => ReadingInv
<1> SUFFICES ASSUME Init
             PROVE  ReadingInv
  OBVIOUS
<1>1. shape \in Types /\ Default[shape] \in Value[shape]
  BY DocumentsAssumption, AllGood DEF Init, Good
<1>2. ParserTypeOK
  BY <1>1 DEF Init, ParserTypeOK, Outcomes
<1> QED
  BY <1>2 DEF Init, ReadingInv, SuccessSaysDocument, NothingStale, FirstFaultCaught

LEMMA ReadingNext == ReadingInv /\ [Next]_vars => ReadingInv'
<1> SUFFICES ASSUME ReadingInv, [Next]_vars
             PROVE  ReadingInv'
  OBVIOUS
<1>1. CASE Next
  BY <1>1, ReadPromises DEF Next, ReadingInv
<1>2. CASE UNCHANGED vars
  BY <1>2 DEF vars, ReadingInv, ParserTypeOK, SuccessSaysDocument, NothingStale, FirstFaultCaught
<1> QED
  BY <1>1, <1>2

LEMMA ReadingInvariant == Spec => []ReadingInv
<1>1. Init => ReadingInv
  BY ReadingInit
<1>2. ReadingInv /\ [Next]_vars => ReadingInv'
  BY ReadingNext
<1> QED
  BY <1>1, <1>2, PTL DEF Spec

\* For every set of types, however they nest, and of documents: wherever reading
\* fails, what parse leaves in the target is a value of its type.
THEOREM ParserTypeCorrect == Spec => []ParserTypeOK
<1>1. ReadingInv => ParserTypeOK
  BY DEF ReadingInv
<1> QED
  BY <1>1, ReadingInvariant, PTL

\* A parse that returns has left what the document says.
THEOREM SuccessSaysDocumentHolds == Spec => []SuccessSaysDocument
<1>1. ReadingInv => SuccessSaysDocument
  BY DEF ReadingInv
<1> QED
  BY <1>1, ReadingInvariant, PTL

\* A reload leaves nothing of what was there, but for optional members left out.
THEOREM NothingStaleHolds == Spec => []NothingStale
<1>1. ReadingInv => NothingStale
  BY DEF ReadingInv
<1> QED
  BY <1>1, ReadingInvariant, PTL

\* The client catches the first fault of the document, however deep it is.
THEOREM FirstFaultCaughtHolds == Spec => []FirstFaultCaught
<1>1. ReadingInv => FirstFaultCaught
  BY DEF ReadingInv
<1> QED
  BY <1>1, ReadingInvariant, PTL

\* One read of a TupleMap that fails.
LEMMA ReadStops ==
  ASSUME ParserTypeOK, NEW document \in Documents[shape], Read(document)
  PROVE  ReadUpToTheFault
<1> DEFINE s == shape
           n == Len(s.parts)
           results == Fields(s, document, target)
           faults == FieldFaults(s, document)
           before == target.parts
           Given(i) == s.names[i] \in Range(document.names)
           Member(i) == Found(document, s.names[i])
<1>1. s \in Types /\ document \in Json /\ target \in Value[s]
  BY DocumentsAssumption DEF ParserTypeOK
<1>2. /\ target' = Parse[s][document][target].value
      /\ caught' = Parse[s][document][target].error
      /\ last' = document
  BY DEF Read
<1> SUFFICES ASSUME s.is = "tuplemap", caught' # NoError, document.is = "object"
             PROVE  \E at \in 1..n :
                      /\ \/ s.names[at] = Unnamed
                         \/ IF Given(at) THEN Faults[s.parts[at]][Member(at)] # <<>>
                            ELSE ~MayBeLeftOut[s.parts[at]]
                      /\ \A i \in 1..(at - 1) :
                           IF Given(i) THEN target'.parts[i] \in Meant[s.parts[i]][Member(i)]
                           ELSE target'.parts[i] = target.parts[i]
                      /\ \A i \in (at + 1)..n : target'.parts[i] = target.parts[i]
  <2>1. DOMAIN s.parts = 1..n
    BY <1>1, Kinds
  <2> QED
    BY <1>2, <2>1 DEF ReadUpToTheFault
<1>3. n \in Nat /\ GoodParts(s)
  BY <1>1, AllGood, Kinds DEF GoodParts
<1>4. DOMAIN before = 1..n
  <2>1. s.is \in Tuples
    BY DEF Tuples
  <2>2. before = [i \in 1..n |-> before[i]]
    BY <1>1, <2>1, TupleValueIs
  <2> HIDE DEF before, n
  <2> QED
    BY <2>2
<1>5. DOMAIN results = 1..n /\ Len(results) = n
  BY <1>3 DEF Fields
<1>6. Parse[s][document][target] = InOrder(results, before)
  BY <1>1, TupleMapParse
<1>7. ASSUME NEW i \in 1..n
      PROVE  /\ faults[i] \in Seq(Kept)
             /\ results[i].error = FirstOf(faults[i])
             /\ results[i].error = NoError <=> faults[i] = <<>>
             /\ faults[i] = <<>> => s.names[i] # Unnamed
             /\ s.names[i] # Unnamed /\ Given(i) =>
                  /\ faults[i] = Faults[s.parts[i]][Member(i)]
                  /\ faults[i] = <<>> => results[i].value \in Meant[s.parts[i]][Member(i)]
             /\ ~Given(i) => results[i].value = before[i]
  <2>1. faults[i] \in Seq(Kept) /\ results[i].error = FirstOf(faults[i])
    BY <1>1, <1>3, FieldReads
  <2>2. results[i].error = NoError <=> faults[i] = <<>>
    BY <2>1, FirstOfKept
  <2> QED
    BY <1>1, <1>3, <2>1, <2>2, FieldReads
<1>8. ASSUME NEW i \in 1..n, s.names[i] # Unnamed, ~Given(i), faults[i] # <<>>
      PROVE  ~MayBeLeftOut[s.parts[i]]
  BY <1>8 DEF FieldFaults
<1> HIDE DEF n, results, faults, before
<1>9. PICK at : /\ StopsAt(results, at)
                /\ InOrder(results, before) =
                     Result(Whole(UpTo(at, n, results, before)),
                            IF at <= n THEN results[at].error ELSE NoError)
  BY <1>3, <1>4, <1>5, InOrderIs
<1>10. /\ target' = Whole(UpTo(at, n, results, before))
       /\ caught' = IF at <= n THEN results[at].error ELSE NoError
  BY <1>2, <1>6, <1>9, ResultIs
<1>11. target'.parts = UpTo(at, n, results, before)
  BY <1>10 DEF Whole, Map
<1>12. at \in 1..n /\ results[at].error # NoError /\ \A i \in 1..(at - 1) : results[i].error = NoError
  BY <1>3, <1>5, <1>9, <1>10 DEF StopsAt
<1>13. \/ s.names[at] = Unnamed
       \/ IF Given(at) THEN Faults[s.parts[at]][Member(at)] # <<>>
          ELSE ~MayBeLeftOut[s.parts[at]]
  BY <1>7, <1>8, <1>12
<1>14. ASSUME NEW i \in 1..(at - 1)
       PROVE  IF Given(i) THEN target'.parts[i] \in Meant[s.parts[i]][Member(i)]
              ELSE target'.parts[i] = target.parts[i]
  <2>1. i \in 1..n /\ i <= at
    BY <1>3, <1>12
  <2>2. target'.parts[i] = results[i].value
    BY <1>11, <2>1 DEF UpTo
  <2>3. faults[i] = <<>>
    BY <1>7, <1>12, <2>1
  <2> QED
    BY <1>7, <2>1, <2>2, <2>3 DEF before
<1>15. ASSUME NEW i \in (at + 1)..n
       PROVE  target'.parts[i] = target.parts[i]
  <2>1. i \in 1..n /\ ~(i <= at)
    BY <1>3, <1>12
  <2> QED
    BY <1>11, <2>1 DEF UpTo, before
<1> QED
  BY <1>12, <1>13, <1>14, <1>15

\* A TupleMap that fails to be read has been read up to the member at fault.
THEOREM FailureStopsThereHolds == Spec => FailureStopsThere
<1>1. ReadingInv /\ [Next]_vars => [ReadUpToTheFault]_vars
  <2> SUFFICES ASSUME ReadingInv, Next
               PROVE  ReadUpToTheFault
    OBVIOUS
  <2> QED
    BY ReadStops DEF Next, ReadingInv
<1> QED
  BY <1>1, ReadingInvariant, PTL DEF Spec, FailureStopsThere
=============================================================================
