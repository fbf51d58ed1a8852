------------------------------ MODULE Recursion ------------------------------
(***************************************************************************)
(* Recursion and induction, as facts about sets: what the proofs about     *)
(* recursive functions rest on.                                            *)
(***************************************************************************)
EXTENDS Integers, Sequences, FiniteSetTheorems, SequenceTheorems, TLAPS

\* A set of numbers has a least one.
LEMMA HasLeast ==
    ASSUME NEW T, T \subseteq Nat, T # {}
    PROVE  \E x \in T : \A y \in T : x <= y
<1>1. PICK R : R = {ss \in Nat \X Nat : ss[1] < ss[2]}
  OBVIOUS
<1>2. IsWellFoundedOn(R, Nat)
  BY <1>1, NatLessThanWellFounded DEF OpToRel
<1>3. PICK x \in T : \A y \in T : ~(<<y, x>> \in R)
  BY <1>2, WFMin
<1>4. ASSUME NEW y \in T PROVE x <= y
  <2>1. x \in Nat /\ y \in Nat
    OBVIOUS
  <2>2. ~(y < x)
    BY <1>1, <1>3, <2>1
  <2> QED BY <2>1, <2>2
<1> QED BY <1>4

\* Induction, as a fact about sets of numbers.
LEMMA NatSet ==
    ASSUME NEW T, 0 \in T, \A n \in Nat : n \in T => n + 1 \in T
    PROVE  Nat \subseteq T
<1>1. SUFFICES ASSUME Nat \ T # {} PROVE FALSE
  OBVIOUS
<1>2. PICK x \in Nat \ T : \A y \in Nat \ T : x <= y
  BY <1>1, HasLeast
<1>3. x # 0 /\ x - 1 \in Nat /\ ~(x <= x - 1) /\ (x - 1) + 1 = x
  OBVIOUS
<1>4. x - 1 \in T
  BY <1>2, <1>3
<1> QED
  BY <1>3, <1>4

\* g follows the steps s from b, as far as n.
Follows(g, n, S, b, s) ==
    /\ g \in [0..n -> S]
    /\ g[0] = b
    /\ \A i \in 1..n : g[i] = s[i][g[i - 1]]

FollowsOn(f, S, b, s) ==
    f \in [Nat -> S] /\ f[0] = b /\ \A n \in Nat : f[n + 1] = s[n + 1][f[n]]

\* Steps that lead from S to S can be followed.
LEMMA FollowsExists ==
    ASSUME NEW n \in Nat, NEW S, NEW b \in S, NEW s, s \in [1..n -> [S -> S]]
    PROVE  \E g : Follows(g, n, S, b, s)
<1> DEFINE T == {m \in Nat : m <= n => \E g : Follows(g, m, S, b, s)}
<1>1. 0 \in T
  <2>1. Follows([i \in 0..0 |-> b], 0, S, b, s)
    BY DEF Follows
  <2> QED BY <2>1
<1>2. ASSUME NEW m \in Nat, m \in T PROVE m + 1 \in T
  <2>1. SUFFICES ASSUME m + 1 <= n PROVE \E g : Follows(g, m + 1, S, b, s)
    OBVIOUS
  <2>2. m <= n /\ m + 1 \in 1..n
    BY <2>1
  <2>3. PICK g : Follows(g, m, S, b, s)
    BY <1>2, <2>2
  <2> DEFINE h == [i \in 0..(m + 1) |-> IF i = m + 1 THEN s[m + 1][g[m]] ELSE g[i]]
  <2>4. g[m] \in S /\ s[m + 1] \in [S -> S]
    BY <2>2, <2>3 DEF Follows
  <2>5. \A i \in 0..m : i \in 0..(m + 1) /\ i # m + 1 /\ h[i] = g[i] /\ g[i] \in S
    BY <2>3 DEF Follows
  <2>6. h[m + 1] = s[m + 1][g[m]] /\ h[m + 1] \in S /\ m \in 0..m /\ 0 \in 0..m
    BY <2>4
  <2>7. \A i \in 0..(m + 1) : i = m + 1 \/ i \in 0..m
    OBVIOUS
  <2>8. h \in [0..(m + 1) -> S]
    BY <2>5, <2>6, <2>7
  <2> HIDE DEF h
  <2>9. ASSUME NEW i \in 1..(m + 1) PROVE h[i] = s[i][h[i - 1]]
    <3>1. CASE i = m + 1
      <4>1. i - 1 = m
        BY <3>1
      <4> QED BY <2>5, <2>6, <3>1, <4>1
    <3>2. CASE i # m + 1
      <4>1. i \in 1..m /\ i \in 0..m /\ i - 1 \in 0..m
        BY <3>2
      <4>2. g[i] = s[i][g[i - 1]]
        BY <2>3, <4>1 DEF Follows
      <4> QED BY <2>5, <4>1, <4>2
    <3> QED BY <3>1, <3>2
  <2>10. Follows(h, m + 1, S, b, s)
    BY <2>3, <2>5, <2>6, <2>8, <2>9 DEF Follows
  <2> QED BY <2>10
<1> HIDE DEF T
<1>3. Nat \subseteq T
  BY <1>1, <1>2, NatSet
<1>4. n \in T
  BY <1>3
<1> QED BY <1>4 DEF T

\* A function that obeys the steps wherever they lead from S stays in S.
LEMMA FollowsAll ==
    ASSUME NEW n \in Nat, NEW S, NEW b \in S, NEW s, s \in [1..n -> [S -> S]],
           NEW f, f = [i \in 0..n |-> f[i]], f[0] = b,
           \A i \in 1..n : f[i - 1] \in S => f[i] = s[i][f[i - 1]]
    PROVE  Follows(f, n, S, b, s)
<1> DEFINE T == {i \in Nat : i <= n => f[i] \in S}
<1>1. 0 \in T
  OBVIOUS
<1>2. ASSUME NEW i \in Nat, i \in T PROVE i + 1 \in T
  <2>1. SUFFICES ASSUME i + 1 <= n PROVE f[i + 1] \in S
    OBVIOUS
  <2>2. i <= n /\ i + 1 \in 1..n /\ (i + 1) - 1 = i
    BY SMTT(40), <2>1
  <2>3. f[i] \in S
    BY <1>2, <2>2
  <2>4. f[i + 1] = s[i + 1][f[i]]
    BY <2>2, <2>3
  <2>5. s[i + 1] \in [S -> S]
    BY <2>2
  <2> QED BY <2>3, <2>4, <2>5
<1> HIDE DEF T
<1>3. Nat \subseteq T
  BY <1>1, <1>2, NatSet
<1>4. \A i \in 0..n : f[i] \in S
  <2>1. \A i \in 0..n : i \in Nat /\ i <= n
    OBVIOUS
  <2> QED BY <1>3, <2>1 DEF T
<1>5. f \in [0..n -> S]
  BY <1>4
<1>6. \A i \in 1..n : f[i] = s[i][f[i - 1]]
  <2>1. \A i \in 1..n : i - 1 \in 0..n
    OBVIOUS
  <2> QED BY <1>4, <2>1
<1> QED
  BY <1>5, <1>6 DEF Follows

\* Steps that lead from S to S can be followed for ever.
LEMMA Iterates ==
    ASSUME NEW S, NEW b \in S, NEW s \in [Nat -> [S -> S]]
    PROVE  \E f : FollowsOn(f, S, b, s)
<1>1. \A n \in Nat : \E g : Follows(g, n, S, b, s)
  <2>1. SUFFICES ASSUME NEW n \in Nat PROVE \E g : Follows(g, n, S, b, s)
    OBVIOUS
  <2>2. PICK t : t = [i \in 1..n |-> s[i]]
    OBVIOUS
  <2>3. t \in [1..n -> [S -> S]] /\ \A i \in 1..n : t[i] = s[i]
    BY <2>2
  <2>4. PICK g : Follows(g, n, S, b, t)
    BY <2>3, FollowsExists
  <2>5. Follows(g, n, S, b, s)
    BY <2>3, <2>4 DEF Follows
  <2> QED BY <2>5
<1>2. ASSUME NEW m \in Nat, NEW g, NEW n \in Nat, NEW h, m <= n,
             Follows(g, m, S, b, s), Follows(h, n, S, b, s)
      PROVE  g[m] = h[m]
  <2> DEFINE T == {i \in Nat : i <= m => g[i] = h[i]}
  <2>1. 0 \in T
    BY <1>2 DEF Follows
  <2>2. ASSUME NEW i \in Nat, i \in T PROVE i + 1 \in T
    <3>1. SUFFICES ASSUME i + 1 <= m PROVE g[i + 1] = h[i + 1]
      OBVIOUS
    <3>2. i <= m /\ i + 1 \in 1..m /\ i + 1 \in 1..n /\ (i + 1) - 1 = i
      BY <1>2, <3>1
    <3>3. g[i] = h[i]
      BY <2>2, <3>2
    <3>4. g[i + 1] = s[i + 1][g[i]] /\ h[i + 1] = s[i + 1][h[i]]
      BY <1>2, <3>2 DEF Follows
    <3> QED BY <3>3, <3>4
  <2> HIDE DEF T
  <2>3. Nat \subseteq T
    BY <2>1, <2>2, NatSet
  <2>4. m \in T
    BY <2>3
  <2> QED BY <2>4 DEF T
<1> DEFINE c(n) == CHOOSE g : Follows(g, n, S, b, s)
           f == [n \in Nat |-> c(n)[n]]
<1>3. \A n \in Nat : Follows(c(n), n, S, b, s)
  BY <1>1
<1> HIDE DEF c
<1>4. \A n \in Nat : c(n)[n] \in S
  BY <1>3 DEF Follows
<1>5. f \in [Nat -> S] /\ \A n \in Nat : f[n] = c(n)[n]
  BY <1>4
<1>6. f[0] = b
  BY <1>3, <1>5 DEF Follows
<1>7. ASSUME NEW n \in Nat PROVE f[n + 1] = s[n + 1][f[n]]
  <2>1. n + 1 \in Nat /\ n <= n + 1 /\ n + 1 \in 1..(n + 1) /\ (n + 1) - 1 = n
    OBVIOUS
  <2>2. Follows(c(n), n, S, b, s) /\ Follows(c(n + 1), n + 1, S, b, s)
    BY <1>3, <2>1
  <2>3. c(n)[n] = c(n + 1)[n]
    BY <1>2, <2>1, <2>2
  <2>4. c(n + 1)[n + 1] = s[n + 1][c(n + 1)[n]]
    BY <2>1, <2>2 DEF Follows
  <2> QED BY <1>5, <2>1, <2>3, <2>4
<1> QED
  BY <1>5, <1>6, <1>7 DEF FollowsOn

\* Induction over the subsets of a finite set.
LEMMA SetInduct ==
    ASSUME NEW U, IsFiniteSet(U), NEW T, {} \in T,
           \A s \in SUBSET U, x \in U : s \in T /\ x \notin s => s \cup {x} \in T
    PROVE  \A s \in SUBSET U : s \in T
<1> DEFINE N == {n \in Nat : \A s \in SUBSET U : Cardinality(s) = n => s \in T}
<1>1. \A s \in SUBSET U : IsFiniteSet(s) /\ Cardinality(s) \in Nat
  BY FS_Subset, FS_CardinalityType
<1>2. 0 \in N
  BY <1>1, FS_EmptySet
<1>3. ASSUME NEW n \in Nat, n \in N PROVE n + 1 \in N
  <2>1. SUFFICES ASSUME NEW s \in SUBSET U, Cardinality(s) = n + 1 PROVE s \in T
    OBVIOUS
  <2>2. s # {}
    BY <2>1, FS_EmptySet
  <2>3. PICK x \in s : TRUE
    BY <2>2
  <2>4. IsFiniteSet(s)
    BY <1>1
  <2>5. Cardinality(s \ {x}) = Cardinality(s) - 1
    BY <2>4, FS_RemoveElement
  <2>6. Cardinality(s \ {x}) = n
    BY <2>1, <2>5
  <2>7. s \ {x} \in T
    BY <1>3, <2>6
  <2>8. s = (s \ {x}) \cup {x} /\ x \in U /\ x \notin s \ {x} /\ s \ {x} \in SUBSET U
    OBVIOUS
  <2> QED
    BY <2>7, <2>8
<1> HIDE DEF N
<1>4. Nat \subseteq N
  BY <1>2, <1>3, NatSet
<1> QED
  BY <1>1, <1>4 DEF N

===============================================================================
