------------------------------ MODULE Recursion ------------------------------
(***************************************************************************)
(* Induction over the natural numbers and over the positions of a          *)
(* sequence, and that functions defined by recursion over them exist.      *)
(* FiniteSetTheorems says that strict inclusion of finite sets is well     *)
(* founded, without an operator as a parameter; all else follows from it.  *)
(***************************************************************************)
EXTENDS Integers, SequencesExt, FiniteSetTheorems, TLAPS

\* A set that has 0 and with every number its successor has all of them: else
\* the intervals 0..n of the n outside of it would have no smallest.
LEMMA SetInduction ==
  ASSUME NEW S, 0 \in S, \A n \in Nat : n \in S => n + 1 \in S
  PROVE  Nat \subseteq S
<1> DEFINE T == {0..n : n \in Nat \ S}
<1> SUFFICES ASSUME T # {}
             PROVE  FALSE
  OBVIOUS
<1>1. T \subseteq FiniteSubsetsOf(Nat)
  <2> SUFFICES ASSUME NEW n \in Nat
               PROVE  0..n \in FiniteSubsetsOf(Nat)
    OBVIOUS
  <2>1. IsFiniteSet(0..n)
    BY FS_Interval
  <2>2. 0..n \subseteq Nat
    OBVIOUS
  <2> QED
    BY <2>1, <2>2 DEF FiniteSubsetsOf
<1>2. PICK x \in T : \A y \in T : ~ (<<y, x>> \in StrictSubsetOrdering(Nat))
  <2> HIDE DEF T
  <2> QED
    BY <1>1, WFMin, FS_StrictSubsetOrderingWellFounded
<1>3. PICK n \in Nat \ S : x = 0..n
  OBVIOUS
<1>4. n # 0 /\ n - 1 \in Nat
  OBVIOUS
<1>5. n - 1 \notin S
  BY <1>4
<1>6. 0..(n - 1) \in T
  BY <1>4, <1>5
<1>7. <<0..(n - 1), x>> \in StrictSubsetOrdering(Nat)
  <2>1. 0..(n - 1) \subseteq 0..n /\ n \in 0..n /\ n \notin 0..(n - 1)
    BY <1>4
  <2> QED
    BY <2>1, <1>3 DEF StrictSubsetOrdering
<1> QED
  BY <1>2, <1>6, <1>7

\* A set of natural numbers that is not empty has a least.
LEMMA LeastIsIn ==
  ASSUME NEW S, S \subseteq Nat, S # {}
  PROVE  Min(S) \in S /\ \A x \in S : Min(S) <= x
<1> DEFINE T == {n \in Nat : \A m \in 0..n : m \notin S}
<1>1. \E x \in S : \A y \in S : x <= y
  <2>1. SUFFICES ASSUME ~ \E x \in S : \A y \in S : x <= y
                 PROVE  FALSE
    OBVIOUS
  <2>2. 0 \in T
    BY <2>1
  <2>3. ASSUME NEW n \in Nat, n \in T
        PROVE  n + 1 \in T
    <3>1. \A y \in S : n + 1 <= y
      BY <2>3
    <3>2. n + 1 \notin S
      BY <2>1, <3>1
    <3> QED
      BY <2>3, <3>2
  <2>4. Nat \subseteq T
    <3> HIDE DEF T
    <3> QED
      BY <2>2, <2>3, SetInduction
  <2>5. PICK x \in S : x \in Nat
    OBVIOUS
  <2>6. x \in T /\ x \in 0..x
    BY <2>4, <2>5
  <2> QED
    BY <2>5, <2>6
<1> QED
  BY <1>1 DEF Min

LEMMA Upwards ==
  ASSUME NEW n \in Nat, NEW S, 1 \in S, \A i \in 1..(n - 1) : i \in S => i + 1 \in S
  PROVE  1..n \subseteq S
<1> DEFINE T == {i \in Nat : i + 1 \in 1..n => i + 1 \in S}
<1>1. 0 \in T
  OBVIOUS
<1>2. ASSUME NEW i \in Nat, i \in T
      PROVE  i + 1 \in T
  <2> SUFFICES ASSUME (i + 1) + 1 \in 1..n
               PROVE  (i + 1) + 1 \in S
    OBVIOUS
  <2>1. i + 1 \in 1..(n - 1) /\ i + 1 \in 1..n
    OBVIOUS
  <2> QED
    BY <2>1, <1>2
<1>3. Nat \subseteq T
  <2> HIDE DEF T
  <2> QED
    BY <1>1, <1>2, SetInduction
<1> SUFFICES ASSUME NEW i \in 1..n
             PROVE  i \in S
  OBVIOUS
<1>4. i - 1 \in Nat /\ (i - 1) + 1 = i
  OBVIOUS
<1> QED
  BY <1>3, <1>4

LEMMA Downwards ==
  ASSUME NEW n \in Nat, NEW S, n + 1 \in S, \A i \in 1..n : i + 1 \in S => i \in S
  PROVE  1..(n + 1) \subseteq S
<1> DEFINE T == {k \in Nat : k <= n => (n + 1) - k \in S}
<1>1. 0 \in T
  OBVIOUS
<1>2. ASSUME NEW k \in Nat, k \in T
      PROVE  k + 1 \in T
  <2> SUFFICES ASSUME k + 1 <= n
               PROVE  (n + 1) - (k + 1) \in S
    OBVIOUS
  <2>1. (n + 1) - (k + 1) \in 1..n /\ ((n + 1) - (k + 1)) + 1 = (n + 1) - k /\ k <= n
    OBVIOUS
  <2> QED
    BY <2>1, <1>2
<1>3. Nat \subseteq T
  <2> HIDE DEF T
  <2> QED
    BY <1>1, <1>2, SetInduction
<1> SUFFICES ASSUME NEW i \in 1..(n + 1)
             PROVE  i \in S
  OBVIOUS
<1>4. (n + 1) - i \in Nat /\ (n + 1) - i <= n /\ (n + 1) - ((n + 1) - i) = i
  OBVIOUS
<1> QED
  BY <1>3, <1>4

\* A function on 1..n + 1 whose value at the end is given, and at each i before
\* it follows from that behind it.
Steps(n, X) == [1..n -> [X -> X]]

Follows(f, n, X, last, step) ==
  /\ f \in [1..(n + 1) -> X]
  /\ f[n + 1] = last
  /\ \A i \in 1..n : f[i] = step[i][f[i + 1]]

LEMMA RecursionDownwards ==
  ASSUME NEW X, NEW last \in X, NEW n \in Nat, NEW step \in Steps(n, X)
  PROVE  \E f : Follows(f, n, X, last, step)
<1> USE DEF Steps
<1> DEFINE Good(k) == {f \in [k..(n + 1) -> X] :
                         f[n + 1] = last /\ \A i \in k..n : f[i] = step[i][f[i + 1]]}
           S == {k \in 1..(n + 1) : Good(k) # {}}
<1>1. n + 1 \in S
  <2>1. [i \in (n + 1)..(n + 1) |-> last] \in Good(n + 1)
    OBVIOUS
  <2>2. n + 1 \in 1..(n + 1)
    OBVIOUS
  <2> HIDE DEF Good
  <2> QED
    BY <2>1, <2>2
<1>2. ASSUME NEW k \in 1..n, k + 1 \in S
      PROVE  k \in S
  <2>1. PICK f : f \in Good(k + 1)
    BY <1>2
  <2> DEFINE g == [i \in k..(n + 1) |-> IF i = k THEN step[k][f[k + 1]] ELSE f[i]]
  <2>2. f[k + 1] \in X
    BY <2>1
  <2>3. step[k][f[k + 1]] \in X
    BY <2>2
  <2>4. g \in [k..(n + 1) -> X]
    BY <2>1, <2>3
  <2>5. g[n + 1] = last
    BY <2>1
  <2>6. ASSUME NEW i \in k..n
        PROVE  g[i] = step[i][g[i + 1]]
    <3>1. CASE i = k
      BY <3>1
    <3>2. CASE i # k
      <4>1. i \in (k + 1)..n /\ i + 1 # k /\ i + 1 \in k..(n + 1) /\ i \in k..(n + 1)
        BY <3>2
      <4>2. f[i] = step[i][f[i + 1]]
        BY <4>1, <2>1
      <4> QED
        BY <3>2, <4>1, <4>2
    <3> QED
      BY <3>1, <3>2
  <2>7. g \in Good(k)
    <3> HIDE DEF g
    <3> QED
      BY <2>4, <2>5, <2>6
  <2> HIDE DEF g, Good
  <2> QED
    BY <2>7
<1>3. 1..(n + 1) \subseteq S
  <2> HIDE DEF S
  <2> QED
    BY <1>1, <1>2, Downwards
<1>4. Good(1) # {}
  BY <1>3
<1> QED
  BY <1>4 DEF Follows

\* The same from the first position on.
FollowsUp(f, n, X, first, step) ==
  /\ f \in [1..n -> X]
  /\ f[1] = first
  /\ \A i \in 1..(n - 1) : f[i + 1] = step[i][f[i]]

LEMMA RecursionUpwards ==
  ASSUME NEW X, NEW first \in X, NEW n \in Nat \ {0}, NEW step \in Steps(n - 1, X)
  PROVE  \E f : FollowsUp(f, n, X, first, step)
<1> DEFINE m == n - 1
           mirrored == [i \in 1..m |-> step[n - i]]
<1>1. m \in Nat /\ m + 1 = n
  OBVIOUS
<1>2. mirrored \in Steps(m, X)
  BY DEF Steps
<1>3. PICK h : Follows(h, m, X, first, mirrored)
  <2> HIDE DEF m, mirrored
  <2> QED
    BY <1>1, <1>2, RecursionDownwards
<1> DEFINE f == [i \in 1..n |-> h[(n + 1) - i]]
<1>4. h \in [1..n -> X] /\ h[n] = first /\ \A i \in 1..m : h[i] = step[n - i][h[i + 1]]
  BY <1>1, <1>3 DEF Follows
<1>5. f \in [1..n -> X] /\ f[1] = first
  BY <1>4
<1>6. ASSUME NEW i \in 1..(n - 1)
      PROVE  f[i + 1] = step[i][f[i]]
  <2>1. /\ n - i \in 1..m /\ i \in 1..n /\ i + 1 \in 1..n
        /\ n - (n - i) = i /\ (n + 1) - (i + 1) = n - i /\ (n - i) + 1 = (n + 1) - i
    OBVIOUS
  <2>2. h[n - i] = step[n - (n - i)][h[(n - i) + 1]]
    BY <2>1, <1>4
  <2> QED
    BY <2>1, <2>2
<1> QED
  BY <1>5, <1>6 DEF FollowsUp

-----------------------------------------------------------------------------
(* Sequences of sequences put one behind the other.                         *)

\* The recursion of FlattenSeq.
FlattenedUpTo(T, seqs, f) ==
  /\ f \in [1..Len(seqs) -> Seq(T)]
  /\ f[1] = seqs[1]
  /\ \A i \in 1..(Len(seqs) - 1) : f[i + 1] = f[i] \o seqs[i + 1]

LEMMA FlattenFold ==
  ASSUME NEW T, NEW seqs \in Seq(Seq(T)), seqs # <<>>
  PROVE  \E f : FlattenedUpTo(T, seqs, f) /\ FlattenSeq(seqs) = f[Len(seqs)]
<1> DEFINE n == Len(seqs)
           X == Seq(T)
           step == [i \in 1..(n - 1) |-> [x \in X |-> x \o seqs[i + 1]]]
           Is(f) == f = [i \in 1..n |-> IF i = 1 THEN seqs[i] ELSE f[i - 1] \o seqs[i]]
<1>1. n \in Nat \ {0} /\ DOMAIN seqs = 1..n /\ \A i \in 1..n : seqs[i] \in X
  OBVIOUS
<1>2. step \in Steps(n - 1, X)
  BY <1>1 DEF Steps
<1>3. PICK h : FollowsUp(h, n, X, seqs[1], step)
  <2>1. seqs[1] \in X
    BY <1>1
  <2> HIDE DEF n, X, step
  <2> QED
    BY <1>1, <1>2, <2>1, RecursionUpwards
<1>4. /\ h \in [1..n -> X]
      /\ h[1] = seqs[1]
      /\ \A i \in 1..(n - 1) : h[i + 1] = step[i][h[i]]
  BY <1>3 DEF FollowsUp
<1>5. Is(h)
  <2> SUFFICES ASSUME NEW i \in 1..n
               PROVE  h[i] = IF i = 1 THEN seqs[i] ELSE h[i - 1] \o seqs[i]
    BY <1>4
  <2>1. CASE i = 1
    BY <2>1, <1>4
  <2>2. CASE i # 1
    <3>1. i - 1 \in 1..(n - 1) /\ (i - 1) + 1 = i /\ i - 1 \in 1..n
      BY <2>2, <1>1
    <3>2. h[i - 1] \in X
      BY <3>1, <1>4
    <3>3. h[(i - 1) + 1] = step[i - 1][h[i - 1]]
      BY <3>1, <1>4
    <3> HIDE DEF n, X
    <3> QED
      BY <3>1, <3>2, <3>3, <2>2
  <2> QED
    BY <2>1, <2>2
<1> DEFINE f == CHOOSE g : Is(g)
<1>6. Is(f)
  <2> HIDE DEF Is
  <2> QED
    BY <1>5
<1>7. FlattenSeq(seqs) = f[n]
  BY <1>1 DEF FlattenSeq
<1> HIDE DEF f
<1>8. \A i \in 1..n : f[i] = IF i = 1 THEN seqs[i] ELSE f[i - 1] \o seqs[i]
  BY <1>6
<1>9. f = [i \in 1..n |-> f[i]]
  BY <1>6
<1>10. f[1] = seqs[1]
  BY <1>1, <1>8
<1>11. ASSUME NEW i \in 1..(n - 1)
       PROVE  f[i + 1] = f[i] \o seqs[i + 1]
  <2>1. i + 1 \in 1..n /\ i + 1 # 1 /\ (i + 1) - 1 = i
    BY <1>1
  <2> HIDE DEF n
  <2> QED
    BY <2>1, <1>8
<1>12. \A i \in 1..n : f[i] \in X
  <2> DEFINE S == {i \in 1..n : f[i] \in X}
  <2>1. 1 \in S
    BY <1>1, <1>10
  <2>2. ASSUME NEW i \in 1..(n - 1), i \in S
        PROVE  i + 1 \in S
    <3>1. i + 1 \in 1..n
      BY <1>1
    <3>2. f[i] \in Seq(T) /\ seqs[i + 1] \in Seq(T)
      BY <3>1, <2>2, <1>1
    <3>3. f[i] \o seqs[i + 1] \in Seq(T)
      BY <3>2
    <3> QED
      BY <3>1, <3>3, <1>11
  <2> HIDE DEF S
  <2>3. 1..n \subseteq S
    BY <1>1, <2>1, <2>2, Upwards
  <2> QED
    BY <2>3 DEF S
<1> HIDE DEF Is, n
<1>13. f \in [1..n -> X]
  BY <1>9, <1>12
<1> QED
  BY <1>7, <1>10, <1>11, <1>13 DEF FlattenedUpTo, n
=============================================================================
