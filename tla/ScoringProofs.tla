----------------------------- MODULE ScoringProofs -----------------------------
(***************************************************************************)
(* What Scoring promises holds for every finite set of keys and addresses  *)
(* and for every number of rounds, files, jobs and requests.               *)
(*                                                                         *)
(* First what its recursive functions and its sums compute, by the facts   *)
(* of Recursion.  Then what scoreCompute may find (Found), what every      *)
(* other handler makes of the tables (After), and the invariant that       *)
(* follows (ScoreInv).                                                     *)
(***************************************************************************)
EXTENDS Scoring, Recursion

-------------------------------------------------------------------------------
(* Sums.                                                                   *)

\* it adds up F over every subset of S, one element after the other.
Partial(F, S, it) ==
    it = [s \in SUBSET S |-> IF s = {} THEN 0
                             ELSE F[CHOOSE x \in s : TRUE] + it[s \ {CHOOSE x \in s : TRUE}]]

\* A sum is the last of the partial sums.
LEMMA SumIs ==
    ASSUME NEW F, NEW S
    PROVE  SumFunctionOnSet(F, S) = (CHOOSE it : Partial(F, S, it))[S]
BY DEF SumFunctionOnSet, FoldFunctionOnSet, MapThenFoldSet, Partial

\* The partial sums exist.
LEMMA PartialExists ==
    ASSUME NEW F, NEW S, IsFiniteSet(S), \A x \in S : F[x] \in Nat
    PROVE  \E it \in [SUBSET S -> Nat] : Partial(F, S, it)
<1> DEFINE c(s) == CHOOSE x \in s : TRUE
           M == [SUBSET S -> Nat]
           more(h) == [s \in SUBSET S |-> IF s = {} THEN 0 ELSE F[c(s)] + h[s \ {c(s)}]]
           b == [s \in SUBSET S |-> 0]
           st == [n \in Nat |-> [h \in M |-> more(h)]]
<1>1. \A s \in SUBSET S : s # {} => c(s) \in s
  OBVIOUS
<1> HIDE DEF c
<1>2. b \in M
  OBVIOUS
<1>3. ASSUME NEW h \in M PROVE more(h) \in M
  <2>1. ASSUME NEW s \in SUBSET S, s # {} PROVE F[c(s)] + h[s \ {c(s)}] \in Nat
    <3>1. F[c(s)] \in Nat /\ h[s \ {c(s)}] \in Nat
      BY <1>1, <2>1
    <3> QED BY <3>1
  <2> QED BY <2>1
<1> HIDE DEF more
<1>4. st \in [Nat -> [M -> M]]
  BY <1>3
<1>5. \A n \in Nat : \A h \in M : st[n][h] = more(h)
  OBVIOUS
<1> HIDE DEF M, b, st
<1>6. PICK f : FollowsOn(f, M, b, st)
  BY <1>2, <1>4, Iterates
<1>7. f \in [Nat -> M] /\ f[0] = b /\ \A n \in Nat : f[n + 1] = st[n + 1][f[n]]
  BY <1>6 DEF FollowsOn
<1>8. \A n \in Nat : f[n + 1] = more(f[n])
  BY <1>5, <1>7
<1> DEFINE it == [s \in SUBSET S |-> f[Cardinality(s)][s]]
<1>9. \A s \in SUBSET S : IsFiniteSet(s) /\ Cardinality(s) \in Nat
  BY FS_Subset, FS_CardinalityType
<1>10. it \in [SUBSET S -> Nat]
  BY <1>7, <1>9 DEF M
<1>11. ASSUME NEW s \in SUBSET S
       PROVE  it[s] = IF s = {} THEN 0 ELSE F[c(s)] + it[s \ {c(s)}]
  <2>1. CASE s = {}
    <3>1. Cardinality(s) = 0
      BY <2>1, FS_EmptySet
    <3> QED BY <1>7, <2>1, <3>1 DEF b
  <2>2. CASE s # {}
    <3>1. c(s) \in s /\ s \ {c(s)} \in SUBSET S
      BY <1>1, <2>2
    <3>2. PICK n \in Nat : n = Cardinality(s \ {c(s)})
      BY <1>9, <3>1
    <3>3. Cardinality(s \ {c(s)}) = Cardinality(s) - 1
      BY <1>9, <3>1, FS_RemoveElement
    <3>4. Cardinality(s) = n + 1
      BY <1>9, <3>2, <3>3
    <3>5. f[n + 1] = more(f[n])
      BY <1>8
    <3>6. it[s] = more(f[n])[s]
      BY <3>4, <3>5
    <3>7. it[s \ {c(s)}] = f[n][s \ {c(s)}]
      BY <3>1, <3>2
    <3> HIDE DEF it
    <3> QED BY <2>2, <3>6, <3>7 DEF more
  <2> QED BY <2>1, <2>2
<1>12. it = [s \in SUBSET S |-> it[s]]
  OBVIOUS
<1> HIDE DEF it
<1>13. it = [s \in SUBSET S |-> IF s = {} THEN 0 ELSE F[c(s)] + it[s \ {c(s)}]]
  BY <1>11, <1>12
<1>14. Partial(F, S, it)
  BY <1>13 DEF Partial, c
<1> QED BY <1>10, <1>14

\* Any term can be taken first.
Splits(F, S, it) ==
    /\ it[{}] = 0
    /\ \A s \in SUBSET S : \A x \in s : it[s] = F[x] + it[s \ {x}]

\* Partial sums do not depend on the order.
LEMMA PartialSplits ==
    ASSUME NEW F, NEW S, IsFiniteSet(S), \A x \in S : F[x] \in Nat,
           NEW it \in [SUBSET S -> Nat], Partial(F, S, it)
    PROVE  Splits(F, S, it)
<1> DEFINE c(s) == CHOOSE x \in s : TRUE
           N == {n \in Nat : \A s \in SUBSET S : Cardinality(s) = n =>
                                \A x \in s : it[s] = F[x] + it[s \ {x}]}
<1>1. \A s \in SUBSET S : s # {} => c(s) \in s /\ it[s] = F[c(s)] + it[s \ {c(s)}]
  BY DEF Partial
<1>2. it[{}] = 0
  BY DEF Partial
<1> HIDE DEF c
<1>3. \A s \in SUBSET S : IsFiniteSet(s) /\ Cardinality(s) \in Nat
  BY FS_Subset, FS_CardinalityType
<1>4. 0 \in N
  BY <1>3, FS_EmptySet
<1>5. ASSUME NEW n \in Nat, n \in N PROVE n + 1 \in N
  <2>1. SUFFICES ASSUME NEW s \in SUBSET S, Cardinality(s) = n + 1, NEW x \in s
                 PROVE  it[s] = F[x] + it[s \ {x}]
    OBVIOUS
  <2>2. PICK y \in s : y = c(s) /\ it[s] = F[y] + it[s \ {y}]
    BY <1>1
  <2>3. CASE x = y
    BY <2>2, <2>3
  <2>4. CASE x # y
    <3>1. Cardinality(s \ {x}) = Cardinality(s) - 1 /\ Cardinality(s \ {y}) = Cardinality(s) - 1
      BY <1>3, FS_RemoveElement
    <3>2. Cardinality(s \ {x}) = n /\ Cardinality(s \ {y}) = n
      BY <2>1, <3>1
    <3>3. x \in s \ {y} /\ y \in s \ {x} /\ (s \ {y}) \ {x} = (s \ {x}) \ {y}
      BY <2>4
    <3>4. it[s \ {y}] = F[x] + it[(s \ {y}) \ {x}] /\ it[s \ {x}] = F[y] + it[(s \ {x}) \ {y}]
      BY <1>5, <3>2, <3>3
    <3>5. PICK u \in Nat, v \in Nat, w \in Nat :
              u = F[x] /\ v = F[y] /\ w = it[(s \ {x}) \ {y}]
      OBVIOUS
    <3>6. it[s] = v + (u + w) /\ it[s \ {x}] = v + w
      BY <2>2, <3>3, <3>4, <3>5
    <3>7. v + (u + w) = u + (v + w)
      OBVIOUS
    <3> QED BY <3>5, <3>6, <3>7
  <2> QED BY <2>3, <2>4
<1> HIDE DEF N
<1>6. Nat \subseteq N
  BY <1>4, <1>5, NatSet
<1> QED
  BY <1>2, <1>3, <1>6 DEF N, Splits

\* A sum of numbers: nothing adds up to 0, and any term can be taken first.
LEMMA SumSplits ==
    ASSUME NEW F, NEW S, IsFiniteSet(S), \A x \in S : F[x] \in Nat
    PROVE  /\ SumFunctionOnSet(F, {}) = 0
           /\ SumFunctionOnSet(F, S) \in Nat
           /\ \A x \in S : SumFunctionOnSet(F, S) = F[x] + SumFunctionOnSet(F, S \ {x})
<1>1. ASSUME NEW U \in SUBSET S
      PROVE  \E it \in [SUBSET U -> Nat] :
                SumFunctionOnSet(F, U) = it[U] /\ Splits(F, U, it)
  <2>1. IsFiniteSet(U) /\ \A x \in U : F[x] \in Nat
    BY FS_Subset
  <2>2. PICK f \in [SUBSET U -> Nat] : Partial(F, U, f)
    BY <2>1, PartialExists
  <2>3. PICK it : it = CHOOSE g : Partial(F, U, g)
    OBVIOUS
  <2>4. Partial(F, U, it)
    BY <2>2, <2>3
  <2>5. SumFunctionOnSet(F, U) = it[U]
    BY <2>3, SumIs
  <2>6. it \in [SUBSET U -> Nat]
    <3> DEFINE N == {n \in Nat : \A s \in SUBSET U : Cardinality(s) = n => it[s] \in Nat}
    <3>1. \A s \in SUBSET U : IsFiniteSet(s) /\ Cardinality(s) \in Nat
      BY <2>1, FS_Subset, FS_CardinalityType
    <3>2. it[{}] = 0 /\ it = [s \in SUBSET U |-> it[s]]
      BY <2>4 DEF Partial
    <3>3. 0 \in N
      BY <3>1, <3>2, FS_EmptySet
    <3>4. ASSUME NEW n \in Nat, n \in N PROVE n + 1 \in N
      <4>1. SUFFICES ASSUME NEW s \in SUBSET U, Cardinality(s) = n + 1 PROVE it[s] \in Nat
        OBVIOUS
      <4>2. s # {}
        <5>1. Cardinality({}) = 0
          BY FS_EmptySet
        <5>2. n + 1 # 0
          OBVIOUS
        <5> QED BY <4>1, <5>1, <5>2
      <4>3. PICK y : y = CHOOSE x \in s : TRUE
        OBVIOUS
      <4>4. y \in s
        BY <4>2, <4>3
      <4>5. it[s] = F[y] + it[s \ {y}]
        BY <2>4, <4>2, <4>3 DEF Partial
      <4>6. Cardinality(s \ {y}) = Cardinality(s) - 1
        BY <3>1, <4>4, FS_RemoveElement
      <4>7. Cardinality(s \ {y}) = n
        BY <4>1, <4>6
      <4>8. it[s \ {y}] \in Nat /\ F[y] \in Nat
        BY <2>1, <3>4, <4>4, <4>7
      <4> QED BY <4>5, <4>8
    <3> HIDE DEF N
    <3>5. Nat \subseteq N
      BY <3>3, <3>4, NatSet
    <3>6. \A s \in SUBSET U : it[s] \in Nat
      BY <3>1, <3>5 DEF N
    <3> QED BY <3>2, <3>6
  <2>7. Splits(F, U, it)
    BY <2>1, <2>4, <2>6, PartialSplits
  <2> QED BY <2>5, <2>6, <2>7
<1>2. SumFunctionOnSet(F, {}) = 0
  BY <1>1 DEF Splits
<1>3. PICK f \in [SUBSET S -> Nat] :
          SumFunctionOnSet(F, S) = f[S] /\ Splits(F, S, f)
  BY <1>1
<1>4. ASSUME NEW x \in S PROVE SumFunctionOnSet(F, S) = F[x] + SumFunctionOnSet(F, S \ {x})
  <2>1. PICK R \in SUBSET S : R = S \ {x}
    OBVIOUS
  <2>2. PICK g \in [SUBSET R -> Nat] :
            SumFunctionOnSet(F, R) = g[R] /\ Splits(F, R, g)
    BY <1>1
  <2> DEFINE T == {s \in SUBSET R : f[s] = g[s]}
  <2>3. {} \in T
    BY <1>3, <2>2 DEF Splits
  <2>4. ASSUME NEW s \in SUBSET R, NEW y \in R, s \in T, y \notin s PROVE s \cup {y} \in T
    <3>1. (s \cup {y}) \ {y} = s /\ s \cup {y} \in SUBSET R /\ s \cup {y} \in SUBSET S
      BY <2>1, <2>4
    <3>2. f[s \cup {y}] = F[y] + f[(s \cup {y}) \ {y}]
      BY <1>3, <3>1 DEF Splits
    <3>3. g[s \cup {y}] = F[y] + g[(s \cup {y}) \ {y}]
      BY <2>2, <3>1 DEF Splits
    <3> QED BY <2>4, <3>1, <3>2, <3>3
  <2> HIDE DEF T
  <2>5. IsFiniteSet(R)
    BY FS_Subset
  <2>6. \A s \in SUBSET R : s \in T
    BY <2>3, <2>4, <2>5, SetInduct
  <2>7. f[R] = g[R]
    BY <2>6 DEF T
  <2> QED BY <1>3, <2>1, <2>2, <2>7 DEF Splits
<1> QED BY <1>2, <1>3, <1>4

\* A sum grows by the term that is added.
LEMMA SumAdds ==
    ASSUME NEW F, NEW U, IsFiniteSet(U), \A y \in U : F[y] \in Nat,
           NEW s \in SUBSET U, NEW x \in U, x \notin s
    PROVE  /\ SumFunctionOnSet(F, {}) = 0
           /\ SumFunctionOnSet(F, s) \in Nat
           /\ SumFunctionOnSet(F, s \cup {x}) = F[x] + SumFunctionOnSet(F, s)
<1>1. PICK u \in SUBSET U : u = s \cup {x}
  OBVIOUS
<1>2. IsFiniteSet(u) /\ IsFiniteSet(s) /\ x \in u /\ u \ {x} = s
  BY <1>1, FS_Subset
<1>3. SumFunctionOnSet(F, u) = F[x] + SumFunctionOnSet(F, u \ {x})
  BY <1>2, SumSplits
<1>4. SumFunctionOnSet(F, {}) = 0 /\ SumFunctionOnSet(F, s) \in Nat
  BY <1>2, SumSplits
<1> QED BY <1>1, <1>2, <1>3, <1>4

\* A sum is a number.
LEMMA SumNat ==
    ASSUME NEW F, NEW S, IsFiniteSet(S), \A x \in S : F[x] \in Nat
    PROVE  SumFunctionOnSet(F, S) \in Nat /\ SumFunctionOnSet(F, {}) = 0
BY SumSplits

\* Larger terms, larger sum.
LEMMA SumLeq ==
    ASSUME NEW F, NEW G, NEW S, IsFiniteSet(S),
           \A x \in S : F[x] \in Nat /\ G[x] \in Nat /\ F[x] <= G[x]
    PROVE  SumFunctionOnSet(F, S) <= SumFunctionOnSet(G, S)
<1> DEFINE T == {s \in SUBSET S : SumFunctionOnSet(F, s) <= SumFunctionOnSet(G, s)}
<1>1. {} \in T
  <2>1. SumFunctionOnSet(F, {}) = 0 /\ SumFunctionOnSet(G, {}) = 0
    BY SumNat
  <2> QED BY <2>1
<1>2. ASSUME NEW s \in SUBSET S, NEW x \in S, s \in T, x \notin s PROVE s \cup {x} \in T
  <2>1. /\ SumFunctionOnSet(F, s) \in Nat
        /\ SumFunctionOnSet(F, s \cup {x}) = F[x] + SumFunctionOnSet(F, s)
    BY ZenonT(40), <1>2, SumAdds
  <2>2. /\ SumFunctionOnSet(G, s) \in Nat
        /\ SumFunctionOnSet(G, s \cup {x}) = G[x] + SumFunctionOnSet(G, s)
    BY <1>2, SumAdds
  <2> QED BY <1>2, <2>1, <2>2
<1> HIDE DEF T
<1>3. \A s \in SUBSET S : s \in T
  BY <1>1, <1>2, SetInduct
<1> QED BY <1>3 DEF T

\* Equal terms, equal sum.
LEMMA SumEqual ==
    ASSUME NEW F, NEW G, NEW S, IsFiniteSet(S), \A x \in S : F[x] \in Nat /\ F[x] = G[x]
    PROVE  SumFunctionOnSet(F, S) = SumFunctionOnSet(G, S)
<1>1. \A x \in S : /\ F[x] \in Nat /\ G[x] \in Nat /\ F[x] <= G[x] /\ G[x] <= F[x]
  OBVIOUS
<1>2. SumFunctionOnSet(F, S) <= SumFunctionOnSet(G, S)
  BY <1>1, SumLeq
<1>3. SumFunctionOnSet(G, S) <= SumFunctionOnSet(F, S)
  BY <1>1, SumLeq
<1>4. SumFunctionOnSet(F, S) \in Nat /\ SumFunctionOnSet(G, S) \in Nat
  BY <1>1, SumNat
<1> QED BY <1>2, <1>3, <1>4

\* A sum that is not zero has a term that is not.
LEMMA SumPositive ==
    ASSUME NEW F, NEW S, IsFiniteSet(S), \A x \in S : F[x] \in Nat,
           SumFunctionOnSet(F, S) > 0
    PROVE  \E x \in S : F[x] > 0
<1>1. SUFFICES ASSUME \A x \in S : F[x] = 0 PROVE FALSE
  OBVIOUS
<1> DEFINE T == {s \in SUBSET S : SumFunctionOnSet(F, s) = 0}
<1>2. {} \in T
  BY SumNat
<1>3. ASSUME NEW s \in SUBSET S, NEW x \in S, s \in T, x \notin s PROVE s \cup {x} \in T
  <2>1. SumFunctionOnSet(F, s \cup {x}) = F[x] + SumFunctionOnSet(F, s)
    BY <1>3, SumAdds
  <2> QED BY <1>1, <1>3, <2>1
<1> HIDE DEF T
<1>4. \A s \in SUBSET S : s \in T
  BY <1>2, <1>3, SetInduct
<1>5. SumFunctionOnSet(F, S) = 0
  BY <1>4 DEF T
<1> QED BY <1>5

Adds(F, G, H, S) == \A x \in S : F[x] \in Nat /\ G[x] \in Nat /\ H[x] = F[x] + G[x]

\* A sum of sums.
LEMMA SumPlus ==
    ASSUME NEW F, NEW G, NEW H, NEW S, IsFiniteSet(S), Adds(F, G, H, S)
    PROVE  SumFunctionOnSet(H, S) = SumFunctionOnSet(F, S) + SumFunctionOnSet(G, S)
<1> DEFINE T == {s \in SUBSET S :
                    SumFunctionOnSet(H, s) = SumFunctionOnSet(F, s) + SumFunctionOnSet(G, s)}
<1>1. \A x \in S : F[x] \in Nat /\ G[x] \in Nat /\ H[x] = F[x] + G[x] /\ H[x] \in Nat
  BY DEF Adds
<1>2. {} \in T
  <2>1. SumFunctionOnSet(F, {}) = 0 /\ SumFunctionOnSet(G, {}) = 0 /\ SumFunctionOnSet(H, {}) = 0
    BY <1>1, SumNat
  <2> QED BY <2>1
<1>3. ASSUME NEW s \in SUBSET S, NEW x \in S, s \in T, x \notin s PROVE s \cup {x} \in T
  <2>1. /\ SumFunctionOnSet(F, s) \in Nat
        /\ SumFunctionOnSet(F, s \cup {x}) = F[x] + SumFunctionOnSet(F, s)
    BY ZenonT(40), <1>1, <1>3, SumAdds
  <2>2. /\ SumFunctionOnSet(G, s) \in Nat
        /\ SumFunctionOnSet(G, s \cup {x}) = G[x] + SumFunctionOnSet(G, s)
    BY <1>1, <1>3, SumAdds
  <2>3. SumFunctionOnSet(H, s \cup {x}) = H[x] + SumFunctionOnSet(H, s)
    BY <1>1, <1>3, SumAdds
  <2> QED BY <1>1, <1>3, <2>1, <2>2, <2>3
<1> HIDE DEF T
<1>4. \A s \in SUBSET S : s \in T
  BY <1>2, <1>3, SetInduct
<1> QED BY <1>4 DEF T

\* The sum of two sets that share nothing.
LEMMA SumUnion ==
    ASSUME NEW F, NEW U, IsFiniteSet(U), \A x \in U : F[x] \in Nat,
           NEW A \in SUBSET U, NEW B \in SUBSET U, A \cap B = {}
    PROVE  SumFunctionOnSet(F, A \cup B) = SumFunctionOnSet(F, A) + SumFunctionOnSet(F, B)
<1> DEFINE T == {s \in SUBSET B :
                    SumFunctionOnSet(F, A \cup s) = SumFunctionOnSet(F, A) + SumFunctionOnSet(F, s)}
<1>1. IsFiniteSet(A) /\ IsFiniteSet(B)
  BY FS_Subset
<1>2. SumFunctionOnSet(F, A) \in Nat /\ SumFunctionOnSet(F, {}) = 0
  BY <1>1, SumNat
<1>3. {} \in T
  <2>1. A \cup {} = A
    OBVIOUS
  <2> QED BY <1>2, <2>1
<1>4. ASSUME NEW s \in SUBSET B, NEW x \in B, s \in T, x \notin s PROVE s \cup {x} \in T
  <2>1. /\ SumFunctionOnSet(F, s) \in Nat
        /\ SumFunctionOnSet(F, s \cup {x}) = F[x] + SumFunctionOnSet(F, s)
    BY <1>1, <1>4, SumAdds
  <2>2. PICK u \in SUBSET U : u = A \cup s /\ x \notin u
    BY <1>4
  <2>3. SumFunctionOnSet(F, u \cup {x}) = F[x] + SumFunctionOnSet(F, u)
    BY SMTT(40), <2>2, SumAdds
  <2>4. u \cup {x} = A \cup (s \cup {x}) /\ F[x] \in Nat
    BY <2>2
  <2> QED BY <1>4, <1>2, <2>1, <2>2, <2>3, <2>4
<1> HIDE DEF T
<1>5. \A s \in SUBSET B : s \in T
  BY <1>1, <1>3, <1>4, SetInduct
<1> QED BY <1>5 DEF T

\* A part of a sum is no more than all of it.
LEMMA SumSubset ==
    ASSUME NEW F, NEW U, IsFiniteSet(U), \A x \in U : F[x] \in Nat, NEW A \in SUBSET U
    PROVE  SumFunctionOnSet(F, A) <= SumFunctionOnSet(F, U)
<1>1. PICK B \in SUBSET U : B = U \ A
  OBVIOUS
<1>2. SumFunctionOnSet(F, A \cup B) = SumFunctionOnSet(F, A) + SumFunctionOnSet(F, B)
  BY <1>1, SumUnion
<1>3. A \cup B = U /\ IsFiniteSet(A) /\ IsFiniteSet(B)
  BY <1>1, FS_Subset
<1>4. SumFunctionOnSet(F, A) \in Nat /\ SumFunctionOnSet(F, B) \in Nat
  BY <1>3, SumNat
<1>5. PICK a \in Nat, b \in Nat : a = SumFunctionOnSet(F, A) /\ b = SumFunctionOnSet(F, B)
  BY <1>4
<1>6. SumFunctionOnSet(F, U) = a + b
  BY <1>2, <1>3, <1>5
<1>7. a <= a + b
  OBVIOUS
<1> QED BY <1>5, <1>6, <1>7

\* G gathers the terms F of P by where m sends them.
Gathers(G, X, F, P, m) == \A x \in X : G[x] = SumFunctionOnSet(F, {p \in P : m[p] = x})

\* It adds up to the terms that m sends anywhere in X.
Gathered(G, X, F, P, m) ==
    /\ \A x \in X : G[x] \in Nat
    /\ SumFunctionOnSet(G, X) = SumFunctionOnSet(F, {p \in P : m[p] \in X})

\* Nothing is lost when terms are gathered.
LEMMA SumGathered ==
    ASSUME NEW F, NEW P, IsFiniteSet(P), \A p \in P : F[p] \in Nat, NEW m,
           NEW X, IsFiniteSet(X), NEW G, Gathers(G, X, F, P, m)
    PROVE  Gathered(G, X, F, P, m)
<1> DEFINE A(s) == {p \in P : m[p] \in s}
           T == {s \in SUBSET X : SumFunctionOnSet(G, s) = SumFunctionOnSet(F, A(s))}
<1>1. \A x \in X : G[x] \in Nat
  <2>1. SUFFICES ASSUME NEW x \in X PROVE G[x] \in Nat
    OBVIOUS
  <2>2. PICK a \in SUBSET P : a = {p \in P : m[p] = x}
    OBVIOUS
  <2>3. IsFiniteSet(a) /\ \A p \in a : F[p] \in Nat
    BY FS_Subset
  <2>4. SumFunctionOnSet(F, a) \in Nat
    BY <2>3, SumNat
  <2>5. G[x] = SumFunctionOnSet(F, a)
    BY <2>2 DEF Gathers
  <2> QED BY <2>4, <2>5
<1>2. {} \in T
  <2>1. A({}) = {}
    OBVIOUS
  <2>2. SumFunctionOnSet(G, {}) = 0 /\ SumFunctionOnSet(F, {}) = 0
    BY <1>1, SumNat
  <2> QED BY <2>1, <2>2
<1>3. ASSUME NEW s \in SUBSET X, NEW x \in X, s \in T, x \notin s PROVE s \cup {x} \in T
  <2>1. SumFunctionOnSet(G, s \cup {x}) = G[x] + SumFunctionOnSet(G, s)
    BY <1>1, <1>3, SumAdds
  <2>2. PICK a \in SUBSET P, b \in SUBSET P : a = A(s) /\ b = {p \in P : m[p] = x}
    OBVIOUS
  <2>3. a \cap b = {} /\ a \cup b = A(s \cup {x})
    BY <1>3, <2>2
  <2>4. SumFunctionOnSet(F, a \cup b) = SumFunctionOnSet(F, a) + SumFunctionOnSet(F, b)
    BY <2>3, SumUnion
  <2>5. G[x] = SumFunctionOnSet(F, b) /\ SumFunctionOnSet(G, s) = SumFunctionOnSet(F, a)
    BY <1>3, <2>2 DEF Gathers
  <2>6. G[x] \in Nat /\ SumFunctionOnSet(G, s) \in Nat
    <3>1. IsFiniteSet(s) /\ \A y \in s : G[y] \in Nat
      BY <1>1, FS_Subset
    <3> QED BY <1>1, <3>1, SumNat
  <2>7. PICK u \in Nat, v \in Nat : u = G[x] /\ v = SumFunctionOnSet(G, s)
    BY <2>6
  <2>8. SumFunctionOnSet(F, A(s \cup {x})) = v + u /\ SumFunctionOnSet(G, s \cup {x}) = u + v
    BY <2>1, <2>3, <2>4, <2>5, <2>7
  <2>9. u + v = v + u
    OBVIOUS
  <2> QED BY <2>8, <2>9
<1> HIDE DEF T
<1>4. \A s \in SUBSET X : s \in T
  BY <1>2, <1>3, SetInduct
<1> QED BY <1>1, <1>4 DEF T, Gathered

-------------------------------------------------------------------------------
(* What a node hands on.                                                   *)

\* Division rounds down.
LEMMA Floor ==
    ASSUME NEW a \in Nat, NEW d \in Nat, d > 0
    PROVE  a \div d \in Nat /\ d * (a \div d) <= a /\ (a = 0 => a \div d = 0)
OBVIOUS

\* The numbers from 1 to n, added up.
LEMMA Triangle ==
    ASSUME NEW n \in Nat, n > 0
    PROVE  LET w == ((n + 1) * n) \div 2 IN w \in Nat /\ w > 0 /\ 2 * w = n * (n + 1)
<1>1. PICK h \in Nat : n = 2 * h \/ n = 2 * h + 1
  <2>1. n \div 2 \in Nat /\ (n = 2 * (n \div 2) \/ n = 2 * (n \div 2) + 1)
    OBVIOUS
  <2> QED BY <2>1
<1>2. PICK z \in Nat : (n + 1) * n = 2 * z
  <2>1. CASE n = 2 * h
    <3>1. (n + 1) * n = 2 * ((n + 1) * h) /\ (n + 1) * h \in Nat
      BY <2>1
    <3> QED BY <3>1
  <2>2. CASE n = 2 * h + 1
    <3>1. n + 1 = 2 * (h + 1)
      BY <2>2
    <3>2. (n + 1) * n = 2 * ((h + 1) * n) /\ (h + 1) * n \in Nat
      BY <3>1
    <3> QED BY <3>2
  <2> QED BY <1>1, <2>1, <2>2
<1>3. (2 * z) \div 2 = z
  OBVIOUS
<1>4. (n + 1) * n > 0 /\ (n + 1) * n = n * (n + 1)
  OBVIOUS
<1>5. z > 0
  BY <1>2, <1>4
<1> QED BY <1>2, <1>3, <1>4, <1>5

\* The points of an entry: there is a base such that n times the points of entry
\* i are no more than n - i + 1 times the base, and all entries together have
\* no more than the seed.
LEMMA PointsOf ==
    ASSUME NEW s \in Nat, NEW n \in Nat, n > 0
    PROVE  \E b \in Nat :
              /\ b * (n * (n + 1)) <= 2 * (s * n)
              /\ s = 0 => b = 0
              /\ \A i \in 1..n : /\ Points(s, n, i) \in Nat
                                 /\ n * Points(s, n, i) <= b * ((n - i) + 1)
                                 /\ b = 0 => Points(s, n, i) = 0
<1>1. PICK w \in Nat : w = ((n + 1) * n) \div 2 /\ w > 0 /\ 2 * w = n * (n + 1)
  BY Triangle
<1>2. PICK c \in Nat : c = s * n /\ (s = 0 => c = 0)
  OBVIOUS
<1>3. PICK b \in Nat : b = c \div w /\ w * b <= c /\ (c = 0 => b = 0)
  BY <1>1, <1>2, Floor
<1>4. b * (n * (n + 1)) <= 2 * (s * n)
  <2>1. b * (2 * w) = 2 * (w * b) /\ w * b \in Nat
    OBVIOUS
  <2> QED BY <1>1, <1>2, <1>3, <2>1
<1>5. ASSUME NEW i \in 1..n
      PROVE  /\ Points(s, n, i) \in Nat
             /\ n * Points(s, n, i) <= b * ((n - i) + 1)
             /\ b = 0 => Points(s, n, i) = 0
  <2>1. PICK e \in Nat : e = (n - i) + 1
    OBVIOUS
  <2>2. PICK d \in Nat : d = b * e /\ (b = 0 => d = 0)
    OBVIOUS
  <2>3. d \div n \in Nat /\ n * (d \div n) <= d /\ (d = 0 => d \div n = 0)
    BY Floor
  <2>4. Points(s, n, i) = d \div n
    BY <1>1, <1>2, <1>3, <2>1, <2>2 DEF Points
  <2> QED BY <2>1, <2>2, <2>3, <2>4
<1> QED BY <1>2, <1>3, <1>4, <1>5

\* One more entry.
LEMMA OneMore ==
    ASSUME NEW n \in Nat, NEW j \in Nat, j + 1 <= n, NEW b \in Nat, NEW p \in Nat, NEW x \in Nat,
           n * p <= b * ((n - (j + 1)) + 1), 2 * (n * x) <= b * (j * ((2 * n - j) + 1))
    PROVE  2 * (n * (p + x)) <= b * ((j + 1) * ((2 * n - (j + 1)) + 1))
<1>1. n * (p + x) = n * p + n * x
  OBVIOUS
<1>2. PICK u \in Nat, v \in Nat : u = n * p /\ v = n * x
  OBVIOUS
<1>3. PICK e \in Nat : n = j + 1 + e
  <2>1. n - (j + 1) \in Nat /\ n = j + 1 + (n - (j + 1))
    OBVIOUS
  <2> QED BY <2>1
<1>4. (n - (j + 1)) + 1 = e + 1 /\ (2 * n - j) + 1 = j + 2 * e + 3 /\ (2 * n - (j + 1)) + 1 = j + 2 * e + 2
  BY <1>3
<1>5. PICK f \in Nat : f = j * (j + 2 * e + 3)
  OBVIOUS
<1>6. (j + 1) * (j + 2 * e + 2) = f + 2 * (e + 1)
  <2>1. (j + 1) * (j + 2 * e + 2) = j * (j + 2 * e + 2) + (j + 2 * e + 2)
    OBVIOUS
  <2>2. j * (j + 2 * e + 3) = j * (j + 2 * e + 2) + j
    OBVIOUS
  <2> QED BY <1>5, <2>1, <2>2
<1>7. b * (f + 2 * (e + 1)) = b * f + 2 * (b * (e + 1))
  OBVIOUS
<1>8. PICK g \in Nat, h \in Nat : g = b * f /\ h = b * (e + 1)
  OBVIOUS
<1>9. u <= h /\ 2 * v <= g
  BY <1>2, <1>4, <1>5, <1>8
<1>10. 2 * (u + v) <= g + 2 * h
  BY <1>9
<1> QED BY <1>1, <1>2, <1>4, <1>6, <1>7, <1>8, <1>10

\* A node hands on no more than it has.
LEMMA SharedOut ==
    ASSUME NEW k, NEW s \in Nat, NEW n \in Nat, NEW F,
           \A i \in 1..n : F[<<k, i>>] = Points(s, n, i)
    PROVE  SumFunctionOnSet(F, {k} \X (1..n)) <= s
<1>1. CASE n = 0
  <2>1. {k} \X (1..n) = {}
    BY <1>1
  <2>2. IsFiniteSet({})
    BY FS_EmptySet
  <2>3. SumFunctionOnSet(F, {}) = 0
    BY <2>2, SumNat
  <2> QED BY <2>1, <2>3
<1>2. CASE n > 0
  <2>1. PICK b \in Nat :
            /\ b * (n * (n + 1)) <= 2 * (s * n)
            /\ \A i \in 1..n : /\ Points(s, n, i) \in Nat
                               /\ n * Points(s, n, i) <= b * ((n - i) + 1)
    BY <1>2, PointsOf
  <2>2. PICK U : U = {k} \X (1..n)
    OBVIOUS
  <2>3. IsFiniteSet(U)
    <3>1. IsFiniteSet({k})
      BY FS_Singleton
    <3>2. IsFiniteSet(1..n)
      BY FS_Interval
    <3> QED BY <2>2, <3>1, <3>2, FS_Product
  <2>4. \A x \in U : F[x] \in Nat
    BY <2>1, <2>2
  <2> DEFINE S(j) == {k} \X (1..j)
             T == {j \in Nat : j <= n => /\ SumFunctionOnSet(F, S(j)) \in Nat
                                         /\ 2 * (n * SumFunctionOnSet(F, S(j)))
                                             <= b * (j * ((2 * n - j) + 1))}
  <2>5. 0 \in T
    <3>1. S(0) = {}
      OBVIOUS
    <3>2. SumFunctionOnSet(F, {}) = 0
      BY <2>3, <2>4, SumNat
    <3> QED BY <3>1, <3>2
  <2>6. ASSUME NEW j \in Nat, j \in T PROVE j + 1 \in T
    <3>1. SUFFICES ASSUME j + 1 <= n
                   PROVE  /\ SumFunctionOnSet(F, S(j + 1)) \in Nat
                          /\ 2 * (n * SumFunctionOnSet(F, S(j + 1)))
                                <= b * ((j + 1) * ((2 * n - (j + 1)) + 1))
      OBVIOUS
    <3>2. 1..j \subseteq 1..n
      BY <3>1
    <3>3. PICK r \in SUBSET U : r = S(j)
      BY <2>2, <3>2
    <3>4. j + 1 \in 1..n /\ <<k, j + 1>> \in U /\ <<k, j + 1>> \notin r
      BY <2>2, <3>1, <3>3
    <3>5. r \cup {<<k, j + 1>>} = S(j + 1)
      <4>1. 1..(j + 1) = (1..j) \cup {j + 1}
        OBVIOUS
      <4> QED BY <3>3, <4>1
    <3>6. SumFunctionOnSet(F, r \cup {<<k, j + 1>>}) = F[<<k, j + 1>>] + SumFunctionOnSet(F, r)
      BY <2>3, <2>4, <3>4, SumAdds
    <3>7. PICK p \in Nat : p = F[<<k, j + 1>>] /\ n * p <= b * ((n - (j + 1)) + 1)
      BY <2>1, <3>4
    <3>8. PICK x \in Nat : x = SumFunctionOnSet(F, r) /\ 2 * (n * x) <= b * (j * ((2 * n - j) + 1))
      BY <2>6, <3>1, <3>3
    <3>9. 2 * (n * (p + x)) <= b * ((j + 1) * ((2 * n - (j + 1)) + 1))
      BY <3>1, <3>7, <3>8, OneMore
    <3>10. SumFunctionOnSet(F, S(j + 1)) = p + x /\ p + x \in Nat
      <4>1. p + x \in Nat
        OBVIOUS
      <4> HIDE DEF S
      <4> QED BY <3>5, <3>6, <3>7, <3>8, <4>1
    <3> QED BY <3>9, <3>10
  <2> HIDE DEF T
  <2>7. Nat \subseteq T
    BY <2>5, <2>6, NatSet
  <2>8. PICK x \in Nat : /\ x = SumFunctionOnSet(F, {k} \X (1..n))
                         /\ 2 * (n * x) <= b * (n * ((2 * n - n) + 1))
    BY <2>7 DEF T
  <2>9. (2 * n - n) + 1 = n + 1
    OBVIOUS
  <2>10. 2 * (n * x) <= 2 * (s * n)
    BY <2>1, <2>8, <2>9
  <2>11. n * x <= n * s
    BY <2>10
  <2>12. x <= s
    BY <1>2, <2>11
  <2> QED BY <2>8, <2>12
<1> QED BY <1>1, <1>2

\* The entries of all lists.
Entries(lists) == {q \in Keys \X (1..MaxReferrals) : q[2] <= Len(lists[q[1]])}

\* The points of each, and whom it names.
PointsOfEntry(lists, seed) ==
    [p \in Entries(lists) |-> Points(seed[p[1]], Len(lists[p[1]]), p[2])]
NamedBy(lists) == [p \in Entries(lists) |-> lists[p[1]][p[2]]]

\* There are finitely many, with numbers of points, and none without a seed.
LEMMA EntriesOK ==
    ASSUME NEW E, NEW lists \in [Keys -> Seq(E)], NEW seed \in [Keys -> Nat]
    PROVE  /\ IsFiniteSet(Entries(lists))
           /\ \A p \in Entries(lists) :
                /\ p[1] \in Keys /\ p[2] \in 1..Len(lists[p[1]]) /\ p = <<p[1], p[2]>>
                /\ PointsOfEntry(lists, seed)[p] \in Nat
                /\ PointsOfEntry(lists, seed)[p] > 0 => seed[p[1]] > 0
<1>1. IsFiniteSet(Entries(lists))
  <2>1. IsFiniteSet(Keys)
    BY ConstantsAssumption
  <2>2. IsFiniteSet(1..MaxReferrals)
    BY ConstantsAssumption, FS_Interval
  <2>3. IsFiniteSet(Keys \X (1..MaxReferrals))
    BY <2>1, <2>2, FS_Product
  <2>4. Entries(lists) \in SUBSET (Keys \X (1..MaxReferrals))
    BY DEF Entries
  <2> QED BY <2>3, <2>4, FS_Subset
<1>2. ASSUME NEW p \in Entries(lists)
      PROVE  /\ p[1] \in Keys /\ p[2] \in 1..Len(lists[p[1]]) /\ p = <<p[1], p[2]>>
             /\ PointsOfEntry(lists, seed)[p] \in Nat
             /\ PointsOfEntry(lists, seed)[p] > 0 => seed[p[1]] > 0
  <2>1. p[1] \in Keys /\ p[2] \in 1..MaxReferrals /\ p[2] <= Len(lists[p[1]]) /\ p = <<p[1], p[2]>>
    BY DEF Entries
  <2>2. PICK n \in Nat, s \in Nat : n = Len(lists[p[1]]) /\ s = seed[p[1]]
    BY <2>1
  <2>3. p[2] \in 1..n /\ n > 0
    BY <2>1, <2>2, ConstantsAssumption
  <2>4. Points(s, n, p[2]) \in Nat /\ (s = 0 => Points(s, n, p[2]) = 0)
    BY <2>3, PointsOf
  <2>5. PointsOfEntry(lists, seed)[p] = Points(s, n, p[2])
    BY <2>2 DEF PointsOfEntry
  <2> QED BY <2>1, <2>2, <2>3, <2>4, <2>5
<1> QED BY <1>1, <1>2

\* What x receives is the sum over the entries that name it.
LEMMA ReceivedIs ==
    ASSUME NEW E, NEW lists \in [Keys -> Seq(E)], NEW seed \in [Keys -> Nat], NEW x
    PROVE  Received(lists, seed, x)
            = SumFunctionOnSet(PointsOfEntry(lists, seed),
                               {p \in Entries(lists) : NamedBy(lists)[p] = x})
<1> DEFINE D == {q \in Keys \X (1..MaxReferrals) :
                    q[2] <= Len(lists[q[1]]) /\ lists[q[1]][q[2]] = x}
           f == [p \in D |-> Points(seed[p[1]], Len(lists[p[1]]), p[2])]
<1>1. Received(lists, seed, x) = SumFunctionOnSet(f, D)
  <2>1. DOMAIN f = D
    OBVIOUS
  <2> QED BY <2>1 DEF Received, SumFunction
<1>2. D = {p \in Entries(lists) : NamedBy(lists)[p] = x}
  BY DEF Entries, NamedBy
<1>3. D \in SUBSET Entries(lists)
  BY DEF Entries
<1>4. \A p \in D : f[p] = PointsOfEntry(lists, seed)[p]
  BY <1>3 DEF PointsOfEntry
<1> HIDE DEF D, f
<1>5. IsFiniteSet(Entries(lists)) /\ \A p \in Entries(lists) : PointsOfEntry(lists, seed)[p] \in Nat
  BY EntriesOK
<1>6. IsFiniteSet(D) /\ \A p \in D : f[p] \in Nat /\ f[p] = PointsOfEntry(lists, seed)[p]
  BY <1>3, <1>4, <1>5, FS_Subset
<1>7. SumFunctionOnSet(f, D) = SumFunctionOnSet(PointsOfEntry(lists, seed), D)
  BY <1>6, SumEqual
<1> QED BY <1>1, <1>2, <1>7

\* Some node with points refers to x.
Named(lists, seed, x) ==
    \E k \in Keys : seed[k] > 0 /\ \E i \in 1..Len(lists[k]) : lists[k][i] = x

\* Points come from a node that has some and refers to their receiver.
LEMMA ReceivedFrom ==
    ASSUME NEW E, NEW lists \in [Keys -> Seq(E)], NEW seed \in [Keys -> Nat], NEW x
    PROVE  /\ Received(lists, seed, x) \in Nat
           /\ Received(lists, seed, x) > 0 => Named(lists, seed, x)
<1>1. PICK A \in SUBSET Entries(lists) : A = {p \in Entries(lists) : NamedBy(lists)[p] = x}
  OBVIOUS
<1>2. PICK F : F = PointsOfEntry(lists, seed)
  OBVIOUS
<1>3. Received(lists, seed, x) = SumFunctionOnSet(F, A)
  BY <1>1, <1>2, ReceivedIs
<1>4. /\ IsFiniteSet(Entries(lists))
      /\ \A p \in Entries(lists) :
            /\ p[1] \in Keys /\ p[2] \in 1..Len(lists[p[1]])
            /\ F[p] \in Nat /\ (F[p] > 0 => seed[p[1]] > 0)
  BY <1>2, EntriesOK
<1>5. IsFiniteSet(A) /\ \A p \in A : F[p] \in Nat
  BY <1>4, FS_Subset
<1>6. SumFunctionOnSet(F, A) \in Nat
  BY <1>5, SumNat
<1>7. ASSUME SumFunctionOnSet(F, A) > 0 PROVE Named(lists, seed, x)
  <2>1. PICK p \in A : F[p] > 0
    BY <1>5, <1>7, SumPositive
  <2>2. lists[p[1]][p[2]] = x
    BY <1>1 DEF NamedBy
  <2> QED BY <1>4, <2>1, <2>2 DEF Named
<1> QED BY <1>3, <1>6, <1>7

\* All together receive no more than what there is.
LEMMA ReceivedBound ==
    ASSUME NEW E, NEW lists \in [Keys -> Seq(E)], NEW seed \in [Keys -> Nat],
           NEW X, IsFiniteSet(X), NEW G, \A x \in X : G[x] = Received(lists, seed, x)
    PROVE  SumFunctionOnSet(G, X) <= SumFunctionOnSet(seed, Keys)
<1>1. PICK P, F, m : P = Entries(lists) /\ F = PointsOfEntry(lists, seed) /\ m = NamedBy(lists)
  OBVIOUS
<1>2. /\ IsFiniteSet(P)
      /\ \A p \in P : /\ p[1] \in Keys /\ p[2] \in 1..Len(lists[p[1]]) /\ p = <<p[1], p[2]>>
                      /\ F[p] \in Nat
  <2>1. /\ IsFiniteSet(Entries(lists))
        /\ \A p \in Entries(lists) :
            /\ p[1] \in Keys /\ p[2] \in 1..Len(lists[p[1]]) /\ p = <<p[1], p[2]>>
            /\ PointsOfEntry(lists, seed)[p] \in Nat
    BY EntriesOK
  <2> QED BY <1>1, <2>1
<1>3. Gathers(G, X, F, P, m)
  <2>1. SUFFICES ASSUME NEW x \in X PROVE G[x] = SumFunctionOnSet(F, {p \in P : m[p] = x})
    BY DEF Gathers
  <2>2. Received(lists, seed, x)
            = SumFunctionOnSet(PointsOfEntry(lists, seed),
                               {p \in Entries(lists) : NamedBy(lists)[p] = x})
    BY ZenonT(40), ReceivedIs
  <2> QED BY <1>1, <2>2
<1>4. SumFunctionOnSet(G, X) = SumFunctionOnSet(F, {p \in P : m[p] \in X})
  <2>1. Gathered(G, X, F, P, m)
    BY <1>2, <1>3, SumGathered
  <2> QED BY <2>1 DEF Gathered
<1>5. PICK A \in SUBSET P : A = {p \in P : m[p] \in X}
  OBVIOUS
<1>6. SumFunctionOnSet(F, A) <= SumFunctionOnSet(F, P)
  BY <1>2, SumSubset
<1> DEFINE o == [p \in P |-> p[1]]
           H == [k \in Keys |-> SumFunctionOnSet(F, {p \in P : o[p] = k})]
<1>7. IsFiniteSet(Keys) /\ Gathers(H, Keys, F, P, o)
  BY ConstantsAssumption DEF Gathers
<1>8. {p \in P : o[p] \in Keys} = P /\ \A p \in P : o[p] = p[1]
  BY <1>2
<1> HIDE DEF o, H
<1>9. /\ \A k \in Keys : H[k] \in Nat
      /\ SumFunctionOnSet(H, Keys) = SumFunctionOnSet(F, {p \in P : o[p] \in Keys})
  <2>1. Gathered(H, Keys, F, P, o)
    BY <1>2, <1>7, SumGathered
  <2> QED BY <2>1 DEF Gathered
<1>10. ASSUME NEW k \in Keys PROVE H[k] <= seed[k]
  <2>1. PICK n \in Nat, s \in Nat : n = Len(lists[k]) /\ s = seed[k]
    OBVIOUS
  <2>2. PICK f : f = [p \in {k} \X (1..n) |-> Points(s, n, p[2])]
    OBVIOUS
  <2>3. \A i \in 1..n : f[<<k, i>>] = Points(s, n, i)
    BY <2>2
  <2>4. SumFunctionOnSet(f, {k} \X (1..n)) <= s
    BY <2>3, SharedOut
  <2>5. PICK B \in SUBSET P : B = {p \in P : o[p] = k}
    OBVIOUS
  <2>6. B \subseteq {k} \X (1..n)
    BY <1>2, <1>8, <2>1, <2>5
  <2>7. \A p \in B : F[p] = f[p]
    BY <1>1, <1>8, <2>1, <2>2, <2>5, <2>6 DEF PointsOfEntry
  <2>8. IsFiniteSet(B) /\ \A p \in B : F[p] \in Nat /\ F[p] = f[p]
    BY <1>2, <2>7, FS_Subset
  <2>9. SumFunctionOnSet(F, B) = SumFunctionOnSet(f, B)
    BY <2>8, SumEqual
  <2>10. IsFiniteSet({k} \X (1..n)) /\ \A p \in {k} \X (1..n) : f[p] \in Nat
    <3>1. IsFiniteSet({k})
      BY FS_Singleton
    <3>2. IsFiniteSet(1..n)
      BY FS_Interval
    <3>3. ASSUME NEW i \in 1..n PROVE Points(s, n, i) \in Nat
      <4>1. n > 0
        OBVIOUS
      <4> QED BY <4>1, PointsOf
    <3> QED BY <2>2, <3>1, <3>2, <3>3, FS_Product
  <2>11. SumFunctionOnSet(f, B) <= SumFunctionOnSet(f, {k} \X (1..n))
    BY <2>6, <2>10, SumSubset
  <2>12. SumFunctionOnSet(f, B) \in Nat /\ SumFunctionOnSet(f, {k} \X (1..n)) \in Nat
    <3>1. \A p \in B : f[p] \in Nat
      BY <2>6, <2>10
    <3>2. SumFunctionOnSet(f, B) \in Nat
      BY <2>8, <3>1, SumNat
    <3>3. SumFunctionOnSet(f, {k} \X (1..n)) \in Nat
      BY <2>10, SumNat
    <3> QED BY <3>2, <3>3
  <2>13. SumFunctionOnSet(f, B) <= s
    BY <2>4, <2>11, <2>12
  <2>14. H[k] = SumFunctionOnSet(f, B)
    BY <1>7, <2>5, <2>9 DEF Gathers
  <2> QED BY <2>1, <2>13, <2>14
<1>11. SumFunctionOnSet(H, Keys) <= SumFunctionOnSet(seed, Keys)
  <2>1. \A k \in Keys : H[k] \in Nat /\ seed[k] \in Nat /\ H[k] <= seed[k]
    BY <1>9, <1>10
  <2> QED BY <1>7, <2>1, SumLeq
<1>12. /\ SumFunctionOnSet(F, A) \in Nat /\ SumFunctionOnSet(F, P) \in Nat
       /\ SumFunctionOnSet(seed, Keys) \in Nat
  <2>1. IsFiniteSet(A) /\ \A p \in A : F[p] \in Nat
    BY <1>2, FS_Subset
  <2>2. SumFunctionOnSet(F, A) \in Nat
    BY <2>1, SumNat
  <2>3. SumFunctionOnSet(F, P) \in Nat
    BY <1>2, SumNat
  <2>4. SumFunctionOnSet(seed, Keys) \in Nat
    BY <1>7, SumNat
  <2> QED BY <2>2, <2>3, <2>4
<1>13. SumFunctionOnSet(G, X) = SumFunctionOnSet(F, A)
  BY <1>4, <1>5
<1>14. SumFunctionOnSet(F, P) <= SumFunctionOnSet(seed, Keys)
  BY <1>8, <1>9, <1>11
<1>15. SumFunctionOnSet(F, A) <= SumFunctionOnSet(seed, Keys)
  BY <1>6, <1>12, <1>14
<1> QED BY <1>13, <1>15

-------------------------------------------------------------------------------
(* Rounds of scoring.                                                      *)

Standing == [iScore : [Keys -> Nat], iRoundSeed : [Keys -> Nat]]

\* The nodes in X refer to nodes in X only.
Closed(lists, X) == \A k \in X : \A i \in 1..Len(lists[k]) : lists[k][i] \in X

\* Only nodes in X have points.
Within(f, X) == \A k \in Keys : f[k] > 0 => k \in X

\* The standing after n rounds from start.
AfterRounds(sn, n, lists, start) ==
    /\ sn \in Standing
    /\ \A k \in Keys : sn.iScore[k] >= start[k]
    /\ \A X \in SUBSET Keys :
        Closed(lists, X) /\ Within(start, X) => Within(sn.iScore, X) /\ Within(sn.iRoundSeed, X)
    /\ SumFunctionOnSet(sn.iRoundSeed, Keys) <= SumFunctionOnSet(start, Keys)
    /\ SumFunctionOnSet(sn.iScore, Keys) <= (n + 1) * SumFunctionOnSet(start, Keys)

\* What a round does to each node.
LEMMA RoundOf ==
    ASSUME NEW lists \in [Keys -> Seq(Keys)], NEW sn \in Standing
    PROVE  \E r \in [Keys -> Nat], q \in [Keys -> Nat] :
              /\ scoreRound(lists, sn) = [iScore |-> q, iRoundSeed |-> r]
              /\ \A k \in Keys : r[k] = Received(lists, sn.iRoundSeed, k)
              /\ \A k \in Keys : q[k] = sn.iScore[k] + r[k]
<1>1. sn.iScore \in [Keys -> Nat] /\ sn.iRoundSeed \in [Keys -> Nat]
  BY DEF Standing
<1>2. PICK r : r = [k \in Keys |-> Received(lists, sn.iRoundSeed, k)]
  OBVIOUS
<1>3. \A k \in Keys : Received(lists, sn.iRoundSeed, k) \in Nat
  BY <1>1, ReceivedFrom
<1>4. r \in [Keys -> Nat]
  BY <1>2, <1>3
<1>5. PICK q : q = [k \in Keys |-> sn.iScore[k] + r[k]]
  OBVIOUS
<1>6. q \in [Keys -> Nat]
  BY <1>1, <1>4, <1>5
<1>7. scoreRound(lists, sn) = [iScore |-> q, iRoundSeed |-> r]
  BY <1>2, <1>5 DEF scoreRound
<1> QED BY <1>2, <1>4, <1>5, <1>6, <1>7

\* One more round.
LEMMA RoundOK ==
    ASSUME NEW lists \in [Keys -> Seq(Keys)], NEW start \in [Keys -> Nat], NEW n \in Nat, NEW sn,
           AfterRounds(sn, n, lists, start)
    PROVE  AfterRounds(scoreRound(lists, sn), n + 1, lists, start)
<1>1. sn \in Standing
  BY DEF AfterRounds
<1>2. PICK s, t : s = sn.iRoundSeed /\ t = sn.iScore
  OBVIOUS
<1>3. s \in [Keys -> Nat] /\ t \in [Keys -> Nat]
  BY <1>1, <1>2 DEF Standing
<1>4. PICK r \in [Keys -> Nat], q \in [Keys -> Nat] :
          /\ scoreRound(lists, sn) = [iScore |-> q, iRoundSeed |-> r]
          /\ \A k \in Keys : r[k] = Received(lists, s, k)
          /\ \A k \in Keys : q[k] = t[k] + r[k]
  BY <1>1, <1>2, RoundOf
<1>5. PICK z : z = scoreRound(lists, sn)
  OBVIOUS
<1>6. z \in Standing /\ z.iScore = q /\ z.iRoundSeed = r
  BY <1>4, <1>5 DEF Standing
<1>7. \A k \in Keys : q[k] >= start[k]
  <2>1. SUFFICES ASSUME NEW k \in Keys PROVE q[k] >= start[k]
    OBVIOUS
  <2>2. t[k] >= start[k]
    BY <1>2 DEF AfterRounds
  <2>3. q[k] = t[k] + r[k] /\ t[k] \in Nat /\ r[k] \in Nat /\ start[k] \in Nat
    BY <1>3, <1>4
  <2> QED BY <2>2, <2>3
<1>8. ASSUME NEW X \in SUBSET Keys, Closed(lists, X), Within(start, X)
      PROVE  Within(q, X) /\ Within(r, X)
  <2>1. Within(t, X) /\ Within(s, X)
    BY <1>2, <1>8 DEF AfterRounds
  <2>2. ASSUME NEW k \in Keys, r[k] > 0 PROVE k \in X
    <3>1. Received(lists, s, k) > 0
      BY <1>4, <2>2
    <3>2. Named(lists, s, k)
      BY <1>3, <3>1, ReceivedFrom
    <3> QED BY <1>8, <2>1, <3>2 DEF Within, Closed, Named
  <2>3. ASSUME NEW k \in Keys, q[k] > 0 PROVE k \in X
    <3>1. q[k] = t[k] + r[k] /\ t[k] \in Nat /\ r[k] \in Nat
      BY <1>3, <1>4
    <3>2. t[k] > 0 \/ r[k] > 0
      BY <2>3, <3>1
    <3> QED BY <2>1, <2>2, <3>2 DEF Within
  <2> QED BY <2>2, <2>3 DEF Within
<1>9. IsFiniteSet(Keys)
  BY ConstantsAssumption
<1>10. PICK a \in Nat, b \in Nat, c \in Nat, d \in Nat :
          /\ a = SumFunctionOnSet(start, Keys) /\ b = SumFunctionOnSet(s, Keys)
          /\ c = SumFunctionOnSet(t, Keys) /\ d = SumFunctionOnSet(r, Keys)
  <2>1. SumFunctionOnSet(start, Keys) \in Nat
    BY <1>9, SumNat
  <2>2. SumFunctionOnSet(s, Keys) \in Nat
    BY <1>3, <1>9, SumNat
  <2>3. SumFunctionOnSet(t, Keys) \in Nat
    BY <1>3, <1>9, SumNat
  <2>4. SumFunctionOnSet(r, Keys) \in Nat
    BY <1>9, SumNat
  <2> QED BY <2>1, <2>2, <2>3, <2>4
<1>11. d <= b
  <2>1. SumFunctionOnSet(r, Keys) <= SumFunctionOnSet(s, Keys)
    BY <1>3, <1>4, <1>9, ReceivedBound
  <2> QED BY <1>10, <2>1
<1>12. b <= a /\ c <= (n + 1) * a
  BY <1>2, <1>10 DEF AfterRounds
<1>13. SumFunctionOnSet(q, Keys) = c + d
  <2>1. Adds(t, r, q, Keys)
    BY <1>3, <1>4 DEF Adds
  <2>2. SumFunctionOnSet(q, Keys) = SumFunctionOnSet(t, Keys) + SumFunctionOnSet(r, Keys)
    BY <1>9, <2>1, SumPlus
  <2> QED BY <1>10, <2>2
<1>14. d <= a /\ c + d <= ((n + 1) + 1) * a
  <2>1. ((n + 1) + 1) * a = (n + 1) * a + a /\ (n + 1) * a \in Nat
    OBVIOUS
  <2> QED BY <1>11, <1>12, <2>1
<1>15. AfterRounds(z, n + 1, lists, start)
  <2>1. SumFunctionOnSet(r, Keys) <= SumFunctionOnSet(start, Keys)
    BY <1>10, <1>14
  <2>2. SumFunctionOnSet(q, Keys) <= ((n + 1) + 1) * SumFunctionOnSet(start, Keys)
    <3>1. PICK e : e = ((n + 1) + 1) * a
      OBVIOUS
    <3>2. c + d <= e
      BY <1>14, <3>1
    <3>3. e = ((n + 1) + 1) * SumFunctionOnSet(start, Keys)
      BY <1>10, <3>1
    <3> QED BY <1>13, <3>2, <3>3
  <2> QED BY <1>6, <1>7, <1>8, <2>1, <2>2 DEF AfterRounds
<1> QED BY <1>5, <1>15

\* The scores are those of a standing after all rounds.
LEMMA ScoresOK ==
    ASSUME NEW lists \in [Keys -> Seq(Keys)], NEW start \in [Keys -> Nat]
    PROVE  \E sn : AfterRounds(sn, Rounds, lists, start) /\ Scores(lists, start) = sn.iScore
<1> DEFINE b == [iScore |-> start, iRoundSeed |-> start]
           st == [n \in Nat |-> [sn \in Standing |-> scoreRound(lists, sn)]]
<1>1. b \in Standing /\ b.iScore = start /\ b.iRoundSeed = start
  BY DEF Standing
<1>2. ASSUME NEW sn \in Standing PROVE scoreRound(lists, sn) \in Standing
  <2>1. PICK r \in [Keys -> Nat], q \in [Keys -> Nat] :
            scoreRound(lists, sn) = [iScore |-> q, iRoundSeed |-> r]
    BY RoundOf
  <2> QED BY <2>1 DEF Standing
<1>3. st \in [Nat -> [Standing -> Standing]]
  BY <1>2
<1>4. \A n \in Nat : \A sn \in Standing : st[n][sn] = scoreRound(lists, sn)
  OBVIOUS
<1> HIDE DEF st
<1>5. PICK f : FollowsOn(f, Standing, b, st)
  <2>1. b \in Standing
    BY <1>1
  <2> HIDE DEF b
  <2> QED BY <1>3, <2>1, Iterates
<1>6. f \in [Nat -> Standing] /\ f[0] = b /\ \A n \in Nat : f[n + 1] = st[n + 1][f[n]]
  BY <1>5 DEF FollowsOn
<1>7. f = [n \in Nat |-> IF n = 0 THEN b ELSE scoreRound(lists, f[n - 1])]
  <2> HIDE DEF b
  <2>1. ASSUME NEW n \in Nat, n # 0 PROVE f[n] = scoreRound(lists, f[n - 1])
    <3>1. n - 1 \in Nat /\ (n - 1) + 1 = n
      BY <2>1
    <3>2. f[(n - 1) + 1] = st[(n - 1) + 1][f[n - 1]]
      BY <1>6, <3>1
    <3>3. f[n] = st[n][f[n - 1]] /\ f[n - 1] \in Standing
      BY <1>6, <3>1, <3>2
    <3> QED BY <1>4, <3>3
  <2>2. \A n \in Nat : f[n] = IF n = 0 THEN b ELSE scoreRound(lists, f[n - 1])
    BY <1>6, <2>1
  <2>3. f = [n \in Nat |-> f[n]]
    BY <1>6
  <2> QED BY <2>2, <2>3
<1>8. PICK g : g = CHOOSE h : h = [n \in Nat |-> IF n = 0 THEN b ELSE scoreRound(lists, h[n - 1])]
  OBVIOUS
<1>9. g = [n \in Nat |-> IF n = 0 THEN b ELSE scoreRound(lists, g[n - 1])]
  BY <1>7, <1>8
<1>10. Scores(lists, start) = g[Rounds].iScore
  BY <1>8 DEF Scores
<1> HIDE DEF b
<1> DEFINE T == {n \in Nat : AfterRounds(g[n], n, lists, start)}
<1>11. 0 \in T
  <2>1. g[0] = b
    BY <1>9
  <2>2. IsFiniteSet(Keys)
    BY ConstantsAssumption
  <2>3. PICK a \in Nat : a = SumFunctionOnSet(start, Keys)
    BY <2>2, SumNat
  <2>4. (0 + 1) * a = a /\ a <= a /\ \A k \in Keys : start[k] >= start[k]
    OBVIOUS
  <2>5. AfterRounds(b, 0, lists, start)
    BY <1>1, <2>3, <2>4 DEF AfterRounds
  <2> QED BY <2>1, <2>5
<1>12. ASSUME NEW n \in Nat, n \in T PROVE n + 1 \in T
  <2>1. n + 1 \in Nat /\ n + 1 # 0 /\ (n + 1) - 1 = n
    OBVIOUS
  <2>2. g[n + 1] = scoreRound(lists, g[n])
    BY <1>9, <2>1
  <2>3. AfterRounds(scoreRound(lists, g[n]), n + 1, lists, start)
    BY <1>12, RoundOK
  <2> QED BY <2>1, <2>2, <2>3
<1> HIDE DEF T
<1>13. Nat \subseteq T
  BY <1>11, <1>12, NatSet
<1>14. AfterRounds(g[Rounds], Rounds, lists, start)
  BY <1>13, ConstantsAssumption DEF T
<1> QED BY <1>10, <1>14

-------------------------------------------------------------------------------
(* What is reached.                                                        *)

\* The least set with B that next does not lead out of.
Least(B, next, C) ==
    /\ C \in SUBSET Keys
    /\ B \subseteq C
    /\ \A k \in C : next[k] \subseteq C
    /\ \A X \in SUBSET Keys : B \subseteq X /\ (\A k \in X : next[k] \subseteq X) => C \subseteq X

\* As many steps as there are keys reach everything.
LEMMA ReachedOK ==
    ASSUME NEW B \in SUBSET Keys, NEW next \in [Keys -> SUBSET Keys]
    PROVE  Least(B, next, Reached(B, next))
<1> DEFINE more(C) == C \cup UNION {next[k] : k \in C}
           st == [n \in Nat |-> [C \in SUBSET Keys |-> more(C)]]
<1>1. \A C \in SUBSET Keys : more(C) \in SUBSET Keys /\ C \subseteq more(C)
  OBVIOUS
<1>2. \A C : more(C) = C \cup UNION {next[k] : k \in C}
  OBVIOUS
<1> HIDE DEF more
<1>3. st \in [Nat -> [SUBSET Keys -> SUBSET Keys]]
  BY <1>1
<1>4. \A n \in Nat : \A C \in SUBSET Keys : st[n][C] = more(C)
  OBVIOUS
<1> HIDE DEF st
<1>5. PICK f : FollowsOn(f, SUBSET Keys, B, st)
  BY <1>3, Iterates
<1>6. f \in [Nat -> SUBSET Keys] /\ f[0] = B /\ \A n \in Nat : f[n + 1] = more(f[n])
  BY <1>4, <1>5 DEF FollowsOn
<1>7. f = [n \in Nat |-> IF n = 0 THEN B ELSE more(f[n - 1])]
  <2>1. ASSUME NEW n \in Nat, n # 0 PROVE f[n] = more(f[n - 1])
    <3>1. n - 1 \in Nat /\ (n - 1) + 1 = n
      BY <2>1
    <3>2. f[(n - 1) + 1] = more(f[n - 1])
      BY <1>6, <3>1
    <3> QED BY <3>1, <3>2
  <2>2. \A n \in Nat : f[n] = IF n = 0 THEN B ELSE more(f[n - 1])
    BY <1>6, <2>1
  <2>3. f = [n \in Nat |-> f[n]]
    BY <1>6
  <2> QED BY <2>2, <2>3
<1>8. PICK g : g = CHOOSE h : h = [n \in Nat |-> IF n = 0 THEN B ELSE more(h[n - 1])]
  OBVIOUS
<1>9. g = [n \in Nat |-> IF n = 0 THEN B ELSE more(g[n - 1])]
  BY <1>7, <1>8
<1>10. Reached(B, next) = g[Cardinality(Keys)]
  BY <1>8 DEF Reached, more
<1>11. g[0] = B /\ \A n \in Nat : g[n + 1] = more(g[n])
  <2>1. \A n \in Nat : n + 1 \in Nat /\ n + 1 # 0 /\ (n + 1) - 1 = n
    OBVIOUS
  <2> QED BY <1>9, <2>1
<1>12. \A n \in Nat : g[n] \in SUBSET Keys /\ B \subseteq g[n]
  <2> DEFINE T == {n \in Nat : g[n] \in SUBSET Keys /\ B \subseteq g[n]}
  <2>1. 0 \in T
    BY <1>11
  <2>2. ASSUME NEW n \in Nat, n \in T PROVE n + 1 \in T
    BY <1>1, <1>11, <2>2
  <2> HIDE DEF T
  <2>3. Nat \subseteq T
    BY <2>1, <2>2, NatSet
  <2> QED BY <2>3 DEF T
<1>13. IsFiniteSet(Keys)
  BY ConstantsAssumption
<1>14. \A n \in Nat : IsFiniteSet(g[n]) /\ Cardinality(g[n]) \in Nat
  BY <1>12, <1>13, FS_Subset, FS_CardinalityType
<1>15. \A n \in Nat : more(g[n]) = g[n] \/ Cardinality(g[n]) >= n
  <2> DEFINE T == {n \in Nat : more(g[n]) = g[n] \/ Cardinality(g[n]) >= n}
  <2>1. 0 \in T
    BY <1>14
  <2>2. ASSUME NEW n \in Nat, n \in T PROVE n + 1 \in T
    <3>1. g[n + 1] = more(g[n])
      BY <1>11
    <3>2. CASE more(g[n]) = g[n]
      BY <3>1, <3>2
    <3>3. CASE more(g[n]) # g[n] /\ Cardinality(g[n]) >= n
      <4>1. n + 1 \in Nat
        OBVIOUS
      <4>2. PICK C, D : C = g[n] /\ D = g[n + 1]
        OBVIOUS
      <4>3. IsFiniteSet(D) /\ C \in SUBSET D /\ C # D
        BY <1>1, <1>12, <1>14, <3>1, <3>3, <4>1, <4>2
      <4>4. Cardinality(C) <= Cardinality(D) /\ Cardinality(C) # Cardinality(D)
        BY <4>3, FS_Subset
      <4>5. Cardinality(C) \in Nat /\ Cardinality(D) \in Nat /\ Cardinality(C) >= n
        BY <1>14, <3>3, <4>1, <4>2
      <4>6. Cardinality(D) >= n + 1
        BY <4>4, <4>5
      <4> QED BY <4>1, <4>2, <4>6
    <3> QED BY <2>2, <3>2, <3>3
  <2> HIDE DEF T
  <2>3. Nat \subseteq T
    BY <2>1, <2>2, NatSet
  <2> QED BY <2>3 DEF T
<1>16. PICK m \in Nat : m = Cardinality(Keys)
  BY <1>13, FS_CardinalityType
<1>17. more(g[m]) = g[m]
  <2>1. CASE Cardinality(g[m]) >= m
    <3>1. Cardinality(g[m]) <= m /\ (m = Cardinality(g[m]) => Keys = g[m])
      BY <1>12, <1>13, <1>16, FS_Subset
    <3>2. m = Cardinality(g[m])
      BY <1>14, <2>1, <3>1
    <3>3. g[m] = Keys
      BY <3>1, <3>2
    <3>4. more(Keys) \in SUBSET Keys /\ Keys \subseteq more(Keys)
      BY <1>1
    <3>5. more(Keys) = Keys
      BY <3>4
    <3> QED BY <3>3, <3>5
  <2> QED BY <1>15, <2>1
<1>18. ASSUME NEW X \in SUBSET Keys, B \subseteq X, \A k \in X : next[k] \subseteq X
       PROVE  g[m] \subseteq X
  <2> DEFINE T == {n \in Nat : g[n] \subseteq X}
  <2>1. 0 \in T
    BY <1>11, <1>18
  <2>2. ASSUME NEW n \in Nat, n \in T PROVE n + 1 \in T
    <3>1. g[n + 1] = g[n] \cup UNION {next[k] : k \in g[n]}
      BY <1>2, <1>11
    <3> QED BY <1>18, <2>2, <3>1
  <2> HIDE DEF T
  <2>3. Nat \subseteq T
    BY <2>1, <2>2, NatSet
  <2> QED BY <2>3 DEF T
<1>19. \A k \in g[m] : next[k] \subseteq g[m]
  BY <1>2, <1>17
<1> QED BY <1>10, <1>12, <1>16, <1>18, <1>19 DEF Least

-------------------------------------------------------------------------------
(* Lists.                                                                  *)

\* The entries that are kept are good ones of the list.
LEMMA KeptOK ==
    ASSUME NEW S, NEW list \in Seq(S), NEW good
    PROVE  Kept(list, good) \in Seq(good \cap Range(list))
<1> DEFINE more(i, q) == IF list[i] \in good THEN Append(q, list[i]) ELSE q
           st == [i \in Nat |-> [q \in Seq(good) |-> more(i, q)]]
<1>1. \A i \in Nat : \A q \in Seq(good) : more(i, q) \in Seq(good)
  OBVIOUS
<1>2. \A i, q : more(i, q) = IF list[i] \in good THEN Append(q, list[i]) ELSE q
  OBVIOUS
<1> HIDE DEF more
<1>3. st \in [Nat -> [Seq(good) -> Seq(good)]]
  BY <1>1
<1>4. \A i \in Nat : \A q \in Seq(good) : st[i][q] = more(i, q)
  OBVIOUS
<1> HIDE DEF st
<1>5. PICK f : FollowsOn(f, Seq(good), <<>>, st)
  <2>1. <<>> \in Seq(good)
    OBVIOUS
  <2> QED BY <1>3, <2>1, Iterates
<1>6. f \in [Nat -> Seq(good)] /\ f[0] = <<>> /\ \A n \in Nat : f[n + 1] = st[n + 1][f[n]]
  BY <1>5 DEF FollowsOn
<1>7. f = [i \in Nat |-> IF i = 0 THEN <<>> ELSE more(i, f[i - 1])]
  <2>1. ASSUME NEW n \in Nat, n # 0 PROVE f[n] = more(n, f[n - 1])
    <3>1. n - 1 \in Nat /\ (n - 1) + 1 = n
      BY <2>1
    <3>2. f[(n - 1) + 1] = st[(n - 1) + 1][f[n - 1]]
      BY <1>6, <3>1
    <3>3. f[n] = st[n][f[n - 1]] /\ f[n - 1] \in Seq(good)
      BY <1>6, <3>1, <3>2
    <3> QED BY <1>4, <3>3
  <2>2. \A n \in Nat : f[n] = IF n = 0 THEN <<>> ELSE more(n, f[n - 1])
    BY <1>6, <2>1
  <2>3. f = [n \in Nat |-> f[n]]
    BY <1>6
  <2> QED BY <2>2, <2>3
<1>8. PICK g : g = CHOOSE h : h = [i \in Nat |-> IF i = 0 THEN <<>> ELSE more(i, h[i - 1])]
  OBVIOUS
<1>9. g = [i \in Nat |-> IF i = 0 THEN <<>> ELSE more(i, g[i - 1])]
  BY <1>7, <1>8
<1>10. Kept(list, good) = g[Len(list)]
  BY <1>8 DEF Kept, more
<1>11. PICK E : E = good \cap Range(list)
  OBVIOUS
<1>12. PICK n \in Nat : n = Len(list) /\ DOMAIN list = 1..n
  OBVIOUS
<1> DEFINE T == {i \in Nat : i <= n => g[i] \in Seq(E)}
<1>13. 0 \in T
  <2>1. g[0] = <<>>
    BY <1>9
  <2>2. <<>> \in Seq(E)
    OBVIOUS
  <2> QED BY <2>1, <2>2
<1>14. ASSUME NEW i \in Nat, i \in T PROVE i + 1 \in T
  <2>1. SUFFICES ASSUME i + 1 <= n PROVE g[i + 1] \in Seq(E)
    OBVIOUS
  <2>2. i + 1 \in Nat /\ i + 1 # 0 /\ (i + 1) - 1 = i /\ i <= n /\ i + 1 \in 1..n
    BY <2>1
  <2>3. g[i + 1] = more(i + 1, g[i])
    BY <1>9, <2>2
  <2>4. g[i + 1] = IF list[i + 1] \in good THEN Append(g[i], list[i + 1]) ELSE g[i]
    BY <1>2, <2>3
  <2>5. g[i] \in Seq(E)
    BY <1>14, <2>2
  <2>6. list[i + 1] \in good => list[i + 1] \in E
    BY <1>11, <1>12, <2>2 DEF Range
  <2>7. \A e \in E : Append(g[i], e) \in Seq(E)
    BY <2>5
  <2> QED BY <2>4, <2>5, <2>6, <2>7
<1> HIDE DEF T
<1>15. Nat \subseteq T
  BY <1>13, <1>14, NatSet
<1>16. g[n] \in Seq(E)
  BY <1>15 DEF T
<1> QED BY <1>10, <1>11, <1>12, <1>16

\* The smaller of two lengths.
LEMMA MinTwo ==
    ASSUME NEW a \in Nat, NEW b \in Nat
    PROVE  Min({a, b}) \in Nat /\ Min({a, b}) <= a /\ Min({a, b}) <= b
<1>1. \E x \in {a, b} : \A y \in {a, b} : x =< y
  <2>1. CASE a <= b
    BY <2>1
  <2>2. CASE b <= a
    BY <2>2
  <2> QED BY <2>1, <2>2
<1>2. PICK x : x = Min({a, b})
  OBVIOUS
<1>3. x \in {a, b} /\ \A y \in {a, b} : x =< y
  BY <1>1, <1>2 DEF Min
<1> QED BY <1>2, <1>3

\* The beginning of a list.
LEMMA Beginning ==
    ASSUME NEW S, NEW q \in Seq(S), NEW n \in Nat, n <= Len(q)
    PROVE  /\ SubSeq(q, 1, n) \in Seq(S) /\ Len(SubSeq(q, 1, n)) = n
           /\ \A i \in 1..n : SubSeq(q, 1, n)[i] = q[i]
OBVIOUS

\* A list of some is a list of more.
LEMMA SeqWider ==
    ASSUME NEW S, NEW R, S \subseteq R, NEW q \in Seq(S)
    PROVE  q \in Seq(R)
<1>1. Len(q) \in Nat /\ q \in [1..Len(q) -> S]
  OBVIOUS
<1>2. q \in [1..Len(q) -> R]
  BY <1>1
<1> QED BY <1>1, <1>2, SeqDef

\* No more entries are used than there may be, and all are good.
LEMMA AcceptedOK ==
    ASSUME NEW S, NEW list \in Seq(S), NEW good
    PROVE  Accepted(list, good) \in Bounded(good)
<1>1. PICK q : q = Kept(list, good)
  OBVIOUS
<1>2. q \in Seq(good)
  <2>1. q \in Seq(good \cap Range(list))
    BY <1>1, KeptOK
  <2>2. good \cap Range(list) \subseteq good
    OBVIOUS
  <2> QED BY <2>1, <2>2, SeqWider
<1>3. PICK n \in Nat : n = Min({Len(q), MaxReferrals}) /\ n <= Len(q) /\ n <= MaxReferrals
  <2>1. Len(q) \in Nat /\ MaxReferrals \in Nat
    BY <1>2, ConstantsAssumption
  <2> QED BY <2>1, MinTwo
<1>4. SubSeq(q, 1, n) \in Seq(good) /\ Len(SubSeq(q, 1, n)) = n
  BY <1>2, <1>3, Beginning
<1> QED BY <1>1, <1>3, <1>4 DEF Accepted, Bounded

\* What a list holds.
LEMMA RangeOK ==
    ASSUME NEW S, NEW q \in Seq(S)
    PROVE  Range(q) \subseteq S /\ \A x : x \in Range(q) <=> \E i \in 1..Len(q) : q[i] = x
BY DEF Range

-------------------------------------------------------------------------------
(* Sources.                                                                *)

Worths == {0, 200, 1000, 1500}

\* What a source is worth.
LEMMA WorthOK ==
    ASSUME NEW w
    PROVE  iSourceScore(w) \in Worths
<1>1. CASE w \in {"C", "M"}
  BY <1>1 DEF iSourceScore, Worths
<1>2. CASE w = "V"
  BY <1>2 DEF iSourceScore, Worths
<1>3. CASE w = "W"
  BY <1>3 DEF iSourceScore, Worths
<1>4. CASE w \notin {"C", "M", "V", "W"}
  BY <1>4 DEF iSourceScore, Worths
<1> QED BY <1>1, <1>2, <1>3, <1>4

\* The best of some.
LEMMA MaxWorth ==
    ASSUME NEW M \in SUBSET Worths, 0 \in M
    PROVE  Max(M) \in M /\ \A y \in M : Max(M) >= y
<1>1. \E x \in M : \A y \in M : x >= y
  <2>1. CASE 1500 \in M
    BY <2>1 DEF Worths
  <2>2. CASE 1500 \notin M /\ 1000 \in M
    BY <2>2 DEF Worths
  <2>3. CASE 1500 \notin M /\ 1000 \notin M /\ 200 \in M
    BY <2>3 DEF Worths
  <2>4. CASE 1500 \notin M /\ 1000 \notin M /\ 200 \notin M
    BY <2>4 DEF Worths
  <2> QED BY <2>1, <2>2, <2>3, <2>4
<1> QED BY <1>1 DEF Max

\* The points of a seed: at least those of each source, and none without one.
LEMMA SeedScoreOK ==
    ASSUME NEW t, NEW k
    PROVE  /\ SeedScore(t, k) \in Nat
           /\ \A w \in SourcesOf(t, k) : SeedScore(t, k) >= iSourceScore(w)
           /\ SeedScore(t, k) > 0 => \E w \in SourcesOf(t, k) : SeedScore(t, k) = iSourceScore(w)
<1>1. PICK M : M = {0} \cup {iSourceScore(w) : w \in SourcesOf(t, k)}
  OBVIOUS
<1>2. M \in SUBSET Worths /\ 0 \in M
  BY <1>1, WorthOK DEF Worths
<1>3. Max(M) \in M /\ \A y \in M : Max(M) >= y
  BY <1>2, MaxWorth
<1>4. SeedScore(t, k) = Max(M)
  BY <1>1 DEF SeedScore
<1>5. SeedScore(t, k) \in Nat
  <2>1. SeedScore(t, k) \in Worths
    BY <1>2, <1>3, <1>4
  <2> QED BY <2>1 DEF Worths
<1>6. \A w \in SourcesOf(t, k) : SeedScore(t, k) >= iSourceScore(w)
  BY <1>1, <1>3, <1>4
<1>7. SeedScore(t, k) > 0 => \E w \in SourcesOf(t, k) : SeedScore(t, k) = iSourceScore(w)
  <2>1. SeedScore(t, k) = 0 \/ \E w \in SourcesOf(t, k) : SeedScore(t, k) = iSourceScore(w)
    <3>1. SeedScore(t, k) \in M
      BY <1>3, <1>4
    <3> QED BY <1>1, <3>1
  <2> QED BY <2>1
<1> QED BY <1>5, <1>6, <1>7

-------------------------------------------------------------------------------
(* What scoring finds.                                                     *)

\* The nodes that k refers to, and those its points may go to.
Referred(t) == [k \in Keys |-> Range(Referrals(t, k)) \cap Keys]
Leads(t) == [k \in Keys |-> (Range(Referrals(t, k)) \cap Keys)
                \cup {x \in Keys : DomainsOf(t, x) \cap Range(Referrals(t, k)) # {}}]

Start(t) == [k \in Keys |-> SeedScore(t, k)]

\* The referrals that are found are some of the table.
LEMMA ReferralsType ==
    ASSUME NEW t \in Tables, NEW k \in Keys
    PROVE  Referrals(t, k) \in Seq(Keys \cup Addresses)
<1>1. t.ValidatorReferrals[k] \in Bounded(Keys \cup Addresses)
  BY DEF Tables
<1>2. t.ValidatorReferrals[k] \in Seq(Keys \cup Addresses)
  BY <1>1 DEF Bounded
<1>3. <<>> \in Seq(Keys \cup Addresses)
  OBVIOUS
<1> QED BY <1>2, <1>3 DEF Referrals

\* Nodes and the trusting ones are least closed sets.
LEMMA NodesOK ==
    ASSUME NEW t
    PROVE  /\ Least(Seeds(t), Referred(t), Nodes(t))
           /\ Least({k \in Keys : SeedScore(t, k) > 0}, Leads(t), Trusting(t))
<1>1. Seeds(t) \in SUBSET Keys /\ {k \in Keys : SeedScore(t, k) > 0} \in SUBSET Keys
  BY DEF Seeds
<1>2. Referred(t) \in [Keys -> SUBSET Keys] /\ Leads(t) \in [Keys -> SUBSET Keys]
  BY DEF Referred, Leads
<1>3. Least(Seeds(t), Referred(t), Reached(Seeds(t), Referred(t)))
  BY <1>1, <1>2, ReachedOK
<1>4. Least({k \in Keys : SeedScore(t, k) > 0}, Leads(t),
            Reached({k \in Keys : SeedScore(t, k) > 0}, Leads(t)))
  BY <1>1, <1>2, ReachedOK
<1>5. Nodes(t) = Reached(Seeds(t), Referred(t))
  BY DEF Nodes, Referred
<1>6. Trusting(t) = Reached({k \in Keys : SeedScore(t, k) > 0}, Leads(t))
  BY DEF Trusting, Leads
<1> QED BY <1>3, <1>4, <1>5, <1>6

\* A node whose domain is listed is a seed.
LEMMA DomainMakesSeed ==
    ASSUME NEW t, NEW k \in Keys, DomainsOf(t, k) # {}
    PROVE  k \in Seeds(t)
<1>1. PICK d \in DomainsOf(t, k) : TRUE
  OBVIOUS
<1>2. t.SeedDomains[d].Source \in SourcesOf(t, k)
  BY DEF SourcesOf
<1> QED BY <1>2 DEF Seeds

\* viReferrals leads where the referrals lead.
LEMMA ListsOK ==
    ASSUME NEW t \in Tables, NEW idx \in DomainIndexes(t), NEW end \in Ends(t), NEW k \in Keys
    PROVE  viReferrals(t, idx, end)[k] \in Seq(Leads(t)[k])
<1> DEFINE node(e) == IF e \in Keys THEN {e} ELSE {x \in Keys : e \in idx \cap DomainsOf(t, x)}
           list == SubSeq(Referrals(t, k), 1, end[k])
           mapped == [i \in DOMAIN list |->
                        IF node(list[i]) = {} THEN NULL ELSE CHOOSE x \in node(list[i]) : TRUE]
<1>1. viReferrals(t, idx, end)[k] = Kept(mapped, Keys \ {k})
  BY DEF viReferrals
<1>2. DOMAIN mapped = DOMAIN list
  OBVIOUS
<1>3. \A i \in DOMAIN list :
        IF node(list[i]) = {} THEN mapped[i] = NULL ELSE mapped[i] \in node(list[i])
  OBVIOUS
<1> HIDE DEF mapped
<1>4. PICK ref : ref = Referrals(t, k) /\ ref \in Seq(Keys \cup Addresses)
  BY ReferralsType
<1>5. end[k] \in Nat /\ end[k] <= Len(ref)
  <2>1. PICK m \in Nat : m = Len(ref)
    BY <1>4
  <2>2. end[k] \in 0..MaxReferrals /\ (end[k] = m \/ end[k] < m)
    BY <1>4, <2>1 DEF Ends
  <2> QED BY <2>1, <2>2, ConstantsAssumption
<1>6. list = SubSeq(ref, 1, end[k])
  BY <1>4
<1> HIDE DEF list
<1>7. PICK n \in Nat : n = end[k] /\ Len(list) = n /\ DOMAIN list = 1..n
  <2>1. list \in Seq(Keys \cup Addresses) /\ Len(list) = end[k]
    BY <1>4, <1>5, <1>6, Beginning
  <2> QED BY <1>5, <2>1
<1>8. \A i \in 1..n : list[i] = ref[i] /\ list[i] \in Range(ref)
  <2>1. \A i \in 1..n : list[i] = ref[i]
    BY <1>4, <1>5, <1>6, <1>7, Beginning
  <2>2. \A i \in 1..n : i \in 1..Len(ref)
    BY <1>4, <1>5, <1>7
  <2>3. \A i \in 1..n : ref[i] \in Range(ref)
    BY <1>4, <2>2, RangeOK
  <2> QED BY <2>1, <2>3
<1>9. ASSUME NEW i \in 1..n PROVE mapped[i] = NULL \/ mapped[i] \in Leads(t)[k]
  <2>1. CASE node(list[i]) = {}
    BY <1>7, <1>3, <2>1
  <2>2. CASE node(list[i]) # {}
    <3>1. PICK x : x = mapped[i] /\ x \in node(list[i])
      BY <1>7, <1>3, <2>2
    <3>2. PICK e : e = list[i] /\ e \in Range(ref) /\ e \in Keys \cup Addresses
      <4>1. Range(ref) \subseteq Keys \cup Addresses
        BY <1>4, RangeOK
      <4> QED BY <1>8, <4>1
    <3>3. CASE e \in Keys
      BY <1>4, <3>1, <3>2, <3>3 DEF Leads
    <3>4. CASE e \notin Keys
      <4>1. x \in Keys /\ e \in DomainsOf(t, x)
        BY <3>1, <3>2, <3>4
      <4>2. DomainsOf(t, x) \cap Range(Referrals(t, k)) # {}
        BY <1>4, <3>2, <4>1
      <4>3. x \in Leads(t)[k]
        BY <4>1, <4>2 DEF Leads
      <4> QED BY <3>1, <4>3
    <3> QED BY <3>3, <3>4
  <2> QED BY <2>1, <2>2
<1>10. mapped \in Seq(Leads(t)[k] \cup {NULL})
  <2>1. mapped = [i \in 1..n |-> mapped[i]]
    BY <1>2, <1>7 DEF mapped
  <2>2. mapped \in [1..n -> Leads(t)[k] \cup {NULL}]
    BY <1>9, <2>1
  <2> QED BY <2>2, SeqDef
<1>11. PICK E : E = (Keys \ {k}) \cap Range(mapped)
  OBVIOUS
<1>12. Kept(mapped, Keys \ {k}) \in Seq(E)
  BY <1>10, <1>11, KeptOK
<1>13. E \subseteq Leads(t)[k]
  <2>1. Range(mapped) \subseteq Leads(t)[k] \cup {NULL}
    BY <1>10, RangeOK
  <2> QED BY <1>11, <2>1, ConstantsAssumption
<1>14. Kept(mapped, Keys \ {k}) \in Seq(Leads(t)[k])
  BY <1>12, <1>13, SeqWider
<1> QED BY <1>1, <1>14

\* The scores that are found.
Found(t, score) ==
    /\ score \in [Keys -> Nat]
    /\ \A k \in Keys : score[k] >= SeedScore(t, k)
    /\ Within(score, Trusting(t))
    /\ Within(score, Nodes(t))
    /\ SumFunctionOnSet(score, Keys) <= (Rounds + 1) * SumFunctionOnSet(Start(t), Keys)

\* Whatever scoreCompute finds is of that kind.
LEMMA OutcomeOK ==
    ASSUME NEW t \in Tables, NEW score \in ScoreOutcomes(t)
    PROVE  Found(t, score)
<1>1. PICK idx \in DomainIndexes(t), end \in Ends(t) :
          score = Scores(viReferrals(t, idx, end), Start(t))
  <2>1. PICK ls \in {viReferrals(t, idx, end) : idx \in DomainIndexes(t), end \in Ends(t)} :
            score = Scores(ls, Start(t))
    BY DEF ScoreOutcomes, Start
  <2> QED BY <2>1
<1>2. PICK lists : lists = viReferrals(t, idx, end)
  OBVIOUS
<1>3. \A k \in Keys : lists[k] \in Seq(Leads(t)[k])
  BY <1>2, ListsOK
<1>4. \A k \in Keys : Leads(t)[k] \subseteq Keys
  BY DEF Leads
<1>5. lists \in [Keys -> Seq(Keys)]
  <2>1. lists = [k \in Keys |-> lists[k]]
    BY <1>2 DEF viReferrals
  <2>2. ASSUME NEW k \in Keys PROVE lists[k] \in Seq(Keys)
    <3>1. PICK q, L : q = lists[k] /\ L = Leads(t)[k]
      OBVIOUS
    <3>2. q \in Seq(L) /\ L \subseteq Keys
      BY <1>3, <1>4, <3>1
    <3>3. q \in Seq(Keys)
      BY <3>2, SeqWider
    <3> QED BY <3>1, <3>3
  <2> QED BY <2>1, <2>2
<1>6. Start(t) \in [Keys -> Nat]
  BY SeedScoreOK DEF Start
<1>7. PICK sn : AfterRounds(sn, Rounds, lists, Start(t)) /\ score = sn.iScore
  BY <1>1, <1>2, <1>5, <1>6, ScoresOK
<1>8. \A k \in Keys : \A i \in 1..Len(lists[k]) : lists[k][i] \in Leads(t)[k]
  BY <1>3
<1>9. Closed(lists, Trusting(t)) /\ Within(Start(t), Trusting(t)) /\ Trusting(t) \in SUBSET Keys
  <2>1. /\ Trusting(t) \in SUBSET Keys
        /\ \A k \in Trusting(t) : Leads(t)[k] \subseteq Trusting(t)
        /\ {k \in Keys : SeedScore(t, k) > 0} \subseteq Trusting(t)
    BY NodesOK DEF Least
  <2>2. Closed(lists, Trusting(t))
    BY <1>8, <2>1 DEF Closed
  <2>3. Within(Start(t), Trusting(t))
    BY <2>1 DEF Within, Start
  <2> QED BY <2>1, <2>2, <2>3
<1>10. Closed(lists, Nodes(t)) /\ Within(Start(t), Nodes(t)) /\ Nodes(t) \in SUBSET Keys
  <2>1. /\ Nodes(t) \in SUBSET Keys
        /\ \A k \in Nodes(t) : Referred(t)[k] \subseteq Nodes(t)
        /\ Seeds(t) \subseteq Nodes(t)
    BY NodesOK DEF Least
  <2>2. ASSUME NEW k \in Nodes(t), NEW x \in Leads(t)[k] PROVE x \in Nodes(t)
    <3>1. CASE x \in Range(Referrals(t, k)) \cap Keys
      BY <2>1, <3>1 DEF Referred
    <3>2. CASE x \in Keys /\ DomainsOf(t, x) # {}
      BY <2>1, <3>2, DomainMakesSeed
    <3> QED BY <2>1, <3>1, <3>2 DEF Leads
  <2>3. Closed(lists, Nodes(t))
    BY <1>8, <2>1, <2>2 DEF Closed
  <2>4. ASSUME NEW k \in Keys, SeedScore(t, k) > 0 PROVE k \in Nodes(t)
    <3>1. SourcesOf(t, k) # {}
      BY <2>4, SeedScoreOK
    <3> QED BY <2>1, <3>1 DEF Seeds
  <2>5. Within(Start(t), Nodes(t))
    BY <2>4 DEF Within, Start
  <2> QED BY <2>1, <2>3, <2>5
<1>11. score \in [Keys -> Nat]
  BY <1>7 DEF AfterRounds, Standing
<1>12. \A k \in Keys : score[k] >= SeedScore(t, k)
  <2>1. \A k \in Keys : Start(t)[k] = SeedScore(t, k)
    BY DEF Start
  <2> QED BY <1>7, <2>1 DEF AfterRounds
<1>13. Within(score, Trusting(t)) /\ Within(score, Nodes(t))
  BY <1>7, <1>9, <1>10 DEF AfterRounds
<1>14. SumFunctionOnSet(score, Keys) <= (Rounds + 1) * SumFunctionOnSet(Start(t), Keys)
  BY <1>7 DEF AfterRounds
<1> QED BY <1>11, <1>12, <1>13, <1>14 DEF Found

-------------------------------------------------------------------------------
(* Filling the tables.                                                     *)

\* A row with a file has the key of the file.
KeysOfFiles(t) ==
    \A d \in Domains :
        t.SeedDomains[d] # NULL /\ t.SeedDomains[d].Sha256 # NULL
            => t.SeedDomains[d].PublicKey = t.SeedDomains[d].Sha256.key

Good(t) == t \in Tables /\ KeysOfFiles(t)

\* u has the scores of t.
SameScores(t, u) == Good(u) /\ u.TrustedNodes = t.TrustedNodes /\ u.IpScore = t.IpScore

\* From t to u sources were promoted and domains without a key were added.
PromotedRow(r, q) ==
    IF r = NULL THEN q = NULL \/ (q # NULL /\ q.PublicKey = NULL)
    ELSE /\ q # NULL
         /\ q.PublicKey = r.PublicKey
         /\ iSourceScore(q.Source) >= iSourceScore(r.Source)

Promoted(t, u) ==
    /\ u.SeedNodes = t.SeedNodes
    /\ u.class = t.class
    /\ u.ValidatorReferrals = t.ValidatorReferrals
    /\ u.IpReferrals = t.IpReferrals
    /\ \A d \in Domains : PromotedRow(t.SeedDomains[d], u.SeedDomains[d])

\* Marking the scores as old changes nothing else.
LEMMA FetchDirtyOK ==
    ASSUME NEW t, Good(t)
    PROVE  SameScores(t, fetchDirty(t)) /\ fetchDirty(t).dirty
<1>1. PICK u : u = fetchDirty(t)
  OBVIOUS
<1>2. t \in Tables
  BY DEF Good
<1>3. u \in Tables
  BY <1>1, <1>2 DEF fetchDirty, Tables
<1>4. /\ u.SeedDomains = t.SeedDomains /\ u.TrustedNodes = t.TrustedNodes
      /\ u.IpScore = t.IpScore /\ u.dirty = TRUE
  BY <1>1, <1>2 DEF fetchDirty, Tables
<1>5. KeysOfFiles(u)
  BY <1>4 DEF Good, KeysOfFiles
<1> QED BY <1>1, <1>3, <1>4, <1>5 DEF SameScores, Good

\* The row a domain has after it is added.
RowAdded(r, vsWhy) ==
    IF r = NULL THEN [PublicKey |-> NULL, Source |-> vsWhy, Sha256 |-> NULL]
    ELSE IF Promotes(vsWhy, r.Source) THEN [r EXCEPT !.Source = vsWhy]
    ELSE r

\* A row that is added or promoted keeps its key and its file.
LEMMA RowAddedOK ==
    ASSUME NEW r \in SeedDomain \cup {NULL}, NEW w \in Sources
    PROVE  /\ RowAdded(r, w) \in SeedDomain
           /\ RowAdded(r, w) # NULL
           /\ PromotedRow(r, RowAdded(r, w))
           /\ r = NULL => RowAdded(r, w).Sha256 = NULL
           /\ r # NULL => RowAdded(r, w).Sha256 = r.Sha256
<1>1. CASE r = NULL
  <2>1. PICK q : q = [PublicKey |-> NULL, Source |-> w, Sha256 |-> NULL]
    OBVIOUS
  <2>2. q \in SeedDomain /\ q.PublicKey = NULL /\ q.Sha256 = NULL
    BY <2>1 DEF SeedDomain
  <2>3. RowAdded(r, w) = q
    BY <1>1, <2>1 DEF RowAdded
  <2> QED BY <1>1, <2>2, <2>3, RowAssumption DEF PromotedRow
<1>2. CASE r # NULL /\ Promotes(w, r.Source)
  <2>1. r \in SeedDomain
    BY <1>2
  <2>2. PICK q : q = [r EXCEPT !.Source = w]
    OBVIOUS
  <2>3. q \in SeedDomain /\ q.PublicKey = r.PublicKey /\ q.Sha256 = r.Sha256 /\ q.Source = w
    BY <2>1, <2>2 DEF SeedDomain
  <2>4. RowAdded(r, w) = q
    BY <1>2, <2>2 DEF RowAdded
  <2>5. r.Source # NULL
    BY <2>1, ConstantsAssumption DEF SeedDomain
  <2>6. iSourceScore(w) >= iSourceScore(r.Source)
    BY <1>2, <2>5 DEF Promotes
  <2> QED BY <1>2, <2>3, <2>4, <2>6, RowAssumption DEF PromotedRow
<1>3. CASE r # NULL /\ ~Promotes(w, r.Source)
  <2>1. RowAdded(r, w) = r /\ r \in SeedDomain
    BY <1>3 DEF RowAdded
  <2>2. PICK n \in Nat : n = iSourceScore(r.Source)
    <3>1. iSourceScore(r.Source) \in Worths
      BY WorthOK
    <3> QED BY <3>1 DEF Worths
  <2>3. n >= n
    OBVIOUS
  <2> QED BY <1>3, <2>1, <2>2, <2>3 DEF PromotedRow
<1> QED BY <1>1, <1>2, <1>3

\* A domain that is not added keeps its row.
LEMMA PromotedSame ==
    ASSUME NEW r
    PROVE  PromotedRow(r, r)
<1>1. PICK n \in Nat : n = iSourceScore(r.Source)
  <2>1. iSourceScore(r.Source) \in Worths
    BY WorthOK
  <2> QED BY <2>1 DEF Worths
<1>2. n >= n
  OBVIOUS
<1> QED BY <1>1, <1>2 DEF PromotedRow

\* Adding domains.
LEMMA AddDomainsOK ==
    ASSUME NEW t, Good(t), NEW D, NEW w \in Sources
    PROVE  LET u == nodeAddDomains(t, D, w)
           IN SameScores(t, u) /\ u.dirty = t.dirty /\ u.torn = t.torn /\ Promoted(t, u)
<1>1. PICK u : u = nodeAddDomains(t, D, w)
  OBVIOUS
<1>2. t \in Tables /\ KeysOfFiles(t)
  BY DEF Good
<1>3. PICK S : S = [d \in Domains |-> IF d \notin D THEN t.SeedDomains[d]
                                      ELSE RowAdded(t.SeedDomains[d], w)]
  OBVIOUS
<1>4. u = [t EXCEPT !.SeedDomains = S]
  BY <1>1, <1>3 DEF nodeAddDomains, RowAdded
<1>5. \A d \in Domains : t.SeedDomains[d] \in SeedDomain \cup {NULL}
  BY <1>2 DEF Tables
<1>6. \A d \in Domains : S[d] = t.SeedDomains[d] \/ S[d] = RowAdded(t.SeedDomains[d], w)
  BY <1>3
<1>7. ASSUME NEW d \in Domains
      PROVE  /\ S[d] \in SeedDomain \cup {NULL}
             /\ PromotedRow(t.SeedDomains[d], S[d])
             /\ S[d] # NULL /\ S[d].Sha256 # NULL =>
                    /\ t.SeedDomains[d] # NULL
                    /\ S[d].Sha256 = t.SeedDomains[d].Sha256
                    /\ S[d].PublicKey = t.SeedDomains[d].PublicKey
  <2>1. PICK r, q : r = t.SeedDomains[d] /\ q = S[d]
    OBVIOUS
  <2>2. r \in SeedDomain \cup {NULL} /\ (q = r \/ q = RowAdded(r, w))
    BY <1>5, <1>6, <2>1
  <2>3. CASE q = r
    BY <2>1, <2>2, <2>3, PromotedSame
  <2>4. CASE q = RowAdded(r, w)
    <3>1. /\ q \in SeedDomain /\ q # NULL /\ PromotedRow(r, q)
          /\ r = NULL => q.Sha256 = NULL
          /\ r # NULL => q.Sha256 = r.Sha256
      BY <2>2, <2>4, RowAddedOK
    <3>2. r # NULL => q.PublicKey = r.PublicKey
      BY <3>1 DEF PromotedRow
    <3> QED BY <2>1, <3>1, <3>2
  <2> QED BY <2>2, <2>3, <2>4
<1>8. S \in [Domains -> SeedDomain \cup {NULL}]
  BY <1>3, <1>7
<1>9. /\ u \in Tables
      /\ u.SeedDomains = S /\ u.SeedNodes = t.SeedNodes /\ u.class = t.class
      /\ u.ValidatorReferrals = t.ValidatorReferrals /\ u.IpReferrals = t.IpReferrals
      /\ u.TrustedNodes = t.TrustedNodes /\ u.IpScore = t.IpScore
      /\ u.dirty = t.dirty /\ u.torn = t.torn
  BY <1>2, <1>4, <1>8 DEF Tables
<1>10. KeysOfFiles(u)
  BY <1>2, <1>7, <1>9 DEF KeysOfFiles
<1>11. Promoted(t, u)
  BY <1>7, <1>9 DEF Promoted
<1>12. SameScores(t, u)
  BY <1>9, <1>10 DEF SameScores, Good
<1> QED BY <1>1, <1>9, <1>11, <1>12

\* Adding nodes marks the scores as old, or changes nothing.
LEMMA AddPublicsOK ==
    ASSUME NEW t, Good(t), NEW K \in SUBSET Keys, NEW w \in Sources
    PROVE  LET u == nodeAddPublics(t, K, w) IN SameScores(t, u) /\ (u.dirty \/ u = t)
<1>1. PICK u : u = nodeAddPublics(t, K, w)
  OBVIOUS
<1>2. t \in Tables /\ KeysOfFiles(t)
  BY DEF Good
<1>3. PICK C : C = {k \in K : Promotes(w, t.SeedNodes[k])}
  OBVIOUS
<1>4. PICK S : S = [k \in Keys |-> IF k \in C THEN w ELSE t.SeedNodes[k]]
  OBVIOUS
<1>5. PICK b \in BOOLEAN : b = (t.dirty \/ C # {})
  OBVIOUS
<1>6. u = [t EXCEPT !.SeedNodes = S, !.dirty = b]
  BY <1>1, <1>3, <1>4, <1>5 DEF nodeAddPublics
<1>7. S \in [Keys -> Sources \cup {NULL}]
  BY <1>2, <1>4 DEF Tables
<1>8. /\ u \in Tables /\ u.SeedDomains = t.SeedDomains
      /\ u.TrustedNodes = t.TrustedNodes /\ u.IpScore = t.IpScore /\ u.dirty = b
  BY <1>2, <1>6, <1>7 DEF Tables
<1>9. KeysOfFiles(u)
  BY <1>2, <1>8 DEF KeysOfFiles
<1>10. u.dirty \/ u = t
  <2>1. CASE b
    BY <1>8, <2>1
  <2>2. CASE ~b
    <3>1. C = {} /\ t.dirty = FALSE
      BY <1>2, <1>5, <2>2 DEF Tables
    <3>2. S = t.SeedNodes
      <4>1. t.SeedNodes \in [Keys -> Sources \cup {NULL}]
        BY <1>2 DEF Tables
      <4> QED BY <1>4, <3>1, <4>1
    <3>3. b = t.dirty
      BY <2>2, <3>1
    <3>4. u = [t EXCEPT !.SeedNodes = t.SeedNodes, !.dirty = t.dirty]
      BY <1>6, <3>2, <3>3
    <3> QED BY <1>2, <3>4 DEF Tables
  <2> QED BY <2>1, <2>2
<1> QED BY <1>1, <1>8, <1>9, <1>10 DEF SameScores, Good

\* The scores stay the same along several changes.
LEMMA SameOn ==
    ASSUME NEW t, NEW u, NEW v, SameScores(t, u), SameScores(u, v)
    PROVE  SameScores(t, v)
BY DEF SameScores

\* A list of validators marks the scores as old.
LEMMA ProcessValidatorsOK ==
    ASSUME NEW t, Good(t), NEW key \in Keys \cup {NULL}, NEW w \in Sources,
           NEW list \in Seq(Keys \cup Domains \cup {NULL})
    PROVE  LET u == processValidators(t, key, w, list) IN SameScores(t, u) /\ u.dirty
<1>1. PICK e : e = Accepted(list, GoodValidators) /\ e \in Bounded(Keys \cup Addresses)
  BY AcceptedOK DEF GoodValidators
<1>2. PICK D, K : D = Range(e) \cap Domains /\ K = Range(e) \cap Keys
  OBVIOUS
<1>3. PICK a : a = nodeAddDomains(t, D, w)
  OBVIOUS
<1>4. SameScores(t, a)
  BY <1>3, AddDomainsOK
<1>5. PICK b : b = nodeAddPublics(a, K, w)
  OBVIOUS
<1>6. SameScores(a, b)
  <2>1. Good(a) /\ K \in SUBSET Keys
    BY <1>2, <1>4 DEF SameScores
  <2> QED BY <1>5, <2>1, AddPublicsOK
<1>7. SameScores(t, b)
  BY <1>4, <1>6, SameOn
<1>8. PICK c : c = IF key = NULL THEN b ELSE [b EXCEPT !.ValidatorReferrals[key] = e]
  OBVIOUS
<1>9. SameScores(b, c)
  <2>1. Good(b)
    BY <1>7 DEF SameScores
  <2>2. CASE key = NULL
    BY <1>8, <2>1, <2>2 DEF SameScores
  <2>3. CASE key # NULL
    <3>1. b \in Tables /\ key \in Keys
      BY <2>1, <2>3 DEF Good
    <3>2. PICK V : V = [b.ValidatorReferrals EXCEPT ![key] = e]
      OBVIOUS
    <3>3. V \in [Keys -> Bounded(Keys \cup Addresses)]
      BY <1>1, <3>1, <3>2 DEF Tables
    <3>4. c = [b EXCEPT !.ValidatorReferrals = V]
      BY <1>8, <2>3, <3>2
    <3>5. /\ c \in Tables /\ c.SeedDomains = b.SeedDomains
          /\ c.TrustedNodes = b.TrustedNodes /\ c.IpScore = b.IpScore
      BY <3>1, <3>3, <3>4 DEF Tables
    <3>6. KeysOfFiles(c)
      BY <2>1, <3>5 DEF Good, KeysOfFiles
    <3> QED BY <3>5, <3>6 DEF SameScores, Good
  <2> QED BY <2>2, <2>3
<1>10. SameScores(t, c)
  BY <1>7, <1>9, SameOn
<1>11. SameScores(c, fetchDirty(c)) /\ fetchDirty(c).dirty
  <2>1. Good(c)
    BY <1>10 DEF SameScores
  <2> QED BY <2>1, FetchDirtyOK
<1>12. processValidators(t, key, w, list) = fetchDirty(c)
  BY <1>1, <1>2, <1>3, <1>5, <1>8 DEF processValidators
<1>13. SameScores(t, fetchDirty(c))
  BY <1>10, <1>11, SameOn
<1> QED BY <1>11, <1>12, <1>13

\* So does a list of addresses.
LEMMA ProcessIpsOK ==
    ASSUME NEW t, Good(t), NEW key \in Keys, NEW list \in Seq(Ips \cup {NULL})
    PROVE  LET u == processIps(t, key, list) IN SameScores(t, u) /\ u.dirty
<1>1. PICK e : e = Accepted(list, Ips) /\ e \in Bounded(Ips)
  BY AcceptedOK
<1>2. t \in Tables
  BY DEF Good
<1>3. PICK V : V = [t.IpReferrals EXCEPT ![key] = e]
  OBVIOUS
<1>4. V \in [Keys -> Bounded(Ips)]
  BY <1>1, <1>2, <1>3 DEF Tables
<1>5. PICK c : c = [t EXCEPT !.IpReferrals = V]
  OBVIOUS
<1>6. /\ c \in Tables /\ c.SeedDomains = t.SeedDomains
      /\ c.TrustedNodes = t.TrustedNodes /\ c.IpScore = t.IpScore
  BY <1>2, <1>4, <1>5 DEF Tables
<1>7. KeysOfFiles(c)
  BY <1>6 DEF Good, KeysOfFiles
<1>8. SameScores(t, c) /\ Good(c)
  BY <1>6, <1>7 DEF SameScores, Good
<1>9. SameScores(c, fetchDirty(c)) /\ fetchDirty(c).dirty
  BY <1>8, FetchDirtyOK
<1>10. processIps(t, key, list) = fetchDirty(c)
  BY <1>1, <1>3, <1>5 DEF processIps
<1>11. SameScores(t, fetchDirty(c))
  BY <1>8, <1>9, SameOn
<1> QED BY <1>9, <1>10, <1>11

\* A list of our own marks the scores as old, unless there is none.
LEMMA OwnListOK ==
    ASSUME NEW t, Good(t), NEW w \in Sources, NEW list \in ValidatorLists \cup {NULL}
    PROVE  LET u == OwnList(t, w, list) IN SameScores(t, u) /\ (u.dirty \/ u = t)
<1>1. CASE list = NULL
  BY <1>1 DEF OwnList, SameScores
<1>2. CASE list # NULL
  <2>1. list \in Seq(Keys \cup Domains \cup {NULL})
    BY <1>2, ConstantsAssumption
  <2>2. PICK u : u = processValidators(t, NULL, w, list)
    OBVIOUS
  <2>3. SameScores(t, u) /\ u.dirty
    BY <2>1, <2>2, ProcessValidatorsOK
  <2> QED BY <1>2, <2>2, <2>3 DEF OwnList
<1> QED BY <1>1, <1>2

-------------------------------------------------------------------------------
(* Tables that are scored.                                                 *)

ScoreOf(t, k) == IF t.TrustedNodes[k] = NULL THEN 0 ELSE t.TrustedNodes[k]
Stored(t) == [k \in Keys |-> ScoreOf(t, k)]

\* What the scores owe to the tables.
Scored(t) ==
    /\ \A k \in Keys : ScoreOf(t, k) > 0 => k \in Trusting(t) /\ k \in Nodes(t)
    /\ \A a \in Ips : t.IpScore[a] > 0 => \E k \in Trusting(t) : a \in Range(t.IpReferrals[k])
    /\ \A k \in Seeds(t) : t.TrustedNodes[k] # NULL
    /\ \A k \in Keys : t.SeedNodes[k] # NULL => ScoreOf(t, k) >= iSourceScore(t.SeedNodes[k])
    /\ SumFunctionOnSet(Stored(t), Keys) <= (Rounds + 1) * SumFunctionOnSet(Start(t), Keys)

\* The invariant of the tables: scores that are not old are right, and addresses
\* never have more than the nodes.
TablesInv(t) ==
    /\ Good(t)
    /\ ~t.dirty /\ ~t.torn => Scored(t)
    /\ SumFunctionOnSet(t.IpScore, Ips) <= SumFunctionOnSet(Stored(t), Keys)

\* What anything but scoring makes of t: old scores, or scores that are as
\* right as before.
After(t, u) ==
    /\ Good(u)
    /\ u.TrustedNodes = t.TrustedNodes
    /\ \A a \in Ips : u.IpScore[a] <= t.IpScore[a]
    /\ \/ u.dirty
       \/ /\ u.dirty = t.dirty /\ u.torn = t.torn
          /\ u.IpScore = t.IpScore /\ Promoted(t, u)

\* Stored scores are numbers.
LEMMA StoredOK ==
    ASSUME NEW t \in Tables
    PROVE  Stored(t) \in [Keys -> Nat]
<1>1. \A k \in Keys : t.TrustedNodes[k] \in Nat \cup {NULL}
  BY DEF Tables
<1>2. \A k \in Keys : ScoreOf(t, k) \in Nat
  BY <1>1 DEF ScoreOf
<1> QED BY <1>2 DEF Stored

\* So are the points to start with, and their sum.
LEMMA StartOK ==
    ASSUME NEW t
    PROVE  Start(t) \in [Keys -> Nat] /\ SumFunctionOnSet(Start(t), Keys) \in Nat
<1>1. Start(t) \in [Keys -> Nat]
  BY SeedScoreOK DEF Start
<1>2. IsFiniteSet(Keys)
  BY ConstantsAssumption
<1>3. SumFunctionOnSet(Start(t), Keys) \in Nat
  BY <1>1, <1>2, SumNat
<1> QED BY <1>1, <1>3

\* Promotion adds points and leads nowhere else.
LEMMA PromotedOK ==
    ASSUME NEW t \in Tables, NEW u \in Tables, Promoted(t, u)
    PROVE  /\ Seeds(u) = Seeds(t)
           /\ Nodes(u) = Nodes(t)
           /\ Trusting(t) \subseteq Trusting(u)
           /\ \A k \in Keys : SeedScore(t, k) <= SeedScore(u, k)
<1>1. \A k \in Keys : DomainsOf(u, k) = DomainsOf(t, k)
  <2>1. SUFFICES ASSUME NEW k \in Keys, NEW d \in Domains
                 PROVE  d \in DomainsOf(u, k) <=> d \in DomainsOf(t, k)
    BY DEF DomainsOf
  <2>2. PICK r, q : r = t.SeedDomains[d] /\ q = u.SeedDomains[d]
    OBVIOUS
  <2>3. PromotedRow(r, q) /\ k # NULL
    BY <2>2, ConstantsAssumption DEF Promoted
  <2>4. (q # NULL /\ q.PublicKey = k) <=> (r # NULL /\ r.PublicKey = k)
    BY <2>3 DEF PromotedRow
  <2> QED BY <2>2, <2>4 DEF DomainsOf
<1>2. \A k \in Keys : SourcesOf(u, k) = {} <=> SourcesOf(t, k) = {}
  BY ZenonT(40), <1>1 DEF SourcesOf, Promoted
<1>3. Seeds(u) = Seeds(t)
  BY <1>2 DEF Seeds
<1>4. \A k : Referrals(u, k) = Referrals(t, k)
  BY DEF Referrals, Promoted
<1>5. Referred(u) = Referred(t) /\ Leads(u) = Leads(t)
  BY <1>1, <1>4 DEF Referred, Leads
<1>6. Nodes(u) = Nodes(t)
  BY <1>3, <1>5 DEF Nodes, Referred
<1>7. ASSUME NEW k \in Keys PROVE SeedScore(t, k) <= SeedScore(u, k)
  <2>1. PICK a \in Nat, b \in Nat : a = SeedScore(t, k) /\ b = SeedScore(u, k)
    BY SeedScoreOK
  <2>2. CASE a > 0
    <3>1. PICK w \in SourcesOf(t, k) : a = iSourceScore(w)
      BY <2>1, <2>2, SeedScoreOK
    <3>2. PICK v \in SourcesOf(u, k) : iSourceScore(v) >= iSourceScore(w)
      <4>1. CASE w \in {t.SeedNodes[k]} \ {NULL}
        <5>1. w \in SourcesOf(u, k)
          BY <4>1 DEF SourcesOf, Promoted
        <5>2. a >= a
          OBVIOUS
        <5> QED BY <3>1, <5>1, <5>2
      <4>2. CASE w \in {t.SeedDomains[d].Source : d \in DomainsOf(t, k)}
        <5>1. PICK d \in DomainsOf(t, k) : w = t.SeedDomains[d].Source
          BY <4>2
        <5>2. d \in Domains /\ t.SeedDomains[d] # NULL /\ d \in DomainsOf(u, k)
          BY <1>1 DEF DomainsOf
        <5>3. PromotedRow(t.SeedDomains[d], u.SeedDomains[d])
          BY <5>2 DEF Promoted
        <5>4. iSourceScore(u.SeedDomains[d].Source) >= iSourceScore(w)
          BY <5>1, <5>2, <5>3 DEF PromotedRow
        <5>5. u.SeedDomains[d].Source \in SourcesOf(u, k)
          BY <5>2 DEF SourcesOf
        <5> QED BY <5>4, <5>5
      <4> QED BY <4>1, <4>2 DEF SourcesOf
    <3>3. b >= iSourceScore(v)
      BY <2>1, SeedScoreOK
    <3>4. PICK c \in Nat : c = iSourceScore(v)
      <4>1. iSourceScore(v) \in Worths
        BY WorthOK
      <4> QED BY <4>1 DEF Worths
    <3>5. a <= c /\ c <= b
      BY <3>1, <3>2, <3>3, <3>4
    <3>6. a <= b
      BY <3>5
    <3> QED BY <2>1, <3>6
  <2>3. CASE a = 0
    BY <2>1, <2>3
  <2> QED BY <2>2, <2>3
<1>8. Trusting(t) \subseteq Trusting(u)
  <2>1. Least({k \in Keys : SeedScore(t, k) > 0}, Leads(t), Trusting(t))
    BY NodesOK
  <2>2. Least({k \in Keys : SeedScore(u, k) > 0}, Leads(t), Trusting(u))
    BY <1>5, NodesOK
  <2>3. ASSUME NEW k \in Keys, SeedScore(t, k) > 0 PROVE SeedScore(u, k) > 0
    <3>1. PICK a \in Nat, b \in Nat : a = SeedScore(t, k) /\ b = SeedScore(u, k)
      BY SeedScoreOK
    <3>2. a <= b /\ a > 0
      BY <1>7, <2>3, <3>1
    <3>3. b > 0
      BY <3>2
    <3> QED BY <3>1, <3>3
  <2>4. {k \in Keys : SeedScore(t, k) > 0} \subseteq Trusting(u)
    BY <2>2, <2>3 DEF Least
  <2>5. Trusting(u) \in SUBSET Keys /\ \A k \in Trusting(u) : Leads(t)[k] \subseteq Trusting(u)
    BY <2>2 DEF Least
  <2> QED BY <2>1, <2>4, <2>5 DEF Least
<1> QED BY <1>3, <1>6, <1>7, <1>8

\* u has the nodes' scores of t, and no address has more points.
NoMore(t, u) ==
    /\ Good(u)
    /\ u.TrustedNodes = t.TrustedNodes
    /\ \A a \in Ips : u.IpScore[a] <= t.IpScore[a]

\* What holds of the tables at any moment.
Sound(t) == Good(t) /\ SumFunctionOnSet(t.IpScore, Ips) <= SumFunctionOnSet(Stored(t), Keys)

\* Addresses never have more than the nodes.
LEMMA SumKept ==
    ASSUME NEW t, NEW u, TablesInv(t), NoMore(t, u)
    PROVE  Sound(u)
<1>1. t \in Tables /\ u \in Tables /\ Good(u)
  BY DEF TablesInv, NoMore, Good
<1>2. Stored(u) = Stored(t)
  BY DEF NoMore, Stored, ScoreOf
<1>3. u.IpScore \in [Ips -> Nat] /\ t.IpScore \in [Ips -> Nat]
  BY <1>1 DEF Tables
<1>4. PICK f, g : f = u.IpScore /\ g = t.IpScore
  OBVIOUS
<1>5. \A a \in Ips : f[a] \in Nat /\ g[a] \in Nat /\ f[a] <= g[a]
  BY <1>3, <1>4 DEF NoMore
<1>6. IsFiniteSet(Ips) /\ IsFiniteSet(Keys)
  BY ConstantsAssumption
<1>7. SumFunctionOnSet(f, Ips) <= SumFunctionOnSet(g, Ips)
  BY <1>5, <1>6, SumLeq
<1>8. SumFunctionOnSet(f, Ips) \in Nat
  BY <1>5, <1>6, SumNat
<1>9. SumFunctionOnSet(g, Ips) \in Nat
  BY <1>5, <1>6, SumNat
<1>10. SumFunctionOnSet(Stored(u), Keys) \in Nat
  BY <1>1, <1>6, StoredOK, SumNat
<1>11. SumFunctionOnSet(g, Ips) <= SumFunctionOnSet(Stored(u), Keys)
  BY <1>2, <1>4 DEF TablesInv
<1>12. SumFunctionOnSet(f, Ips) <= SumFunctionOnSet(Stored(u), Keys)
  BY <1>7, <1>8, <1>9, <1>10, <1>11
<1> QED BY <1>1, <1>4, <1>12 DEF Sound

\* The invariant of the tables is kept.
LEMMA AfterOK ==
    ASSUME NEW t, NEW u, TablesInv(t), After(t, u)
    PROVE  /\ TablesInv(u)
           /\ ~u.dirty /\ ~u.torn => ~t.dirty /\ ~t.torn /\ Nodes(u) = Nodes(t)
<1>1. t \in Tables /\ u \in Tables /\ Good(u)
  BY DEF TablesInv, After, Good
<1>2. Stored(u) = Stored(t) /\ \A k : ScoreOf(u, k) = ScoreOf(t, k)
  BY DEF After, Stored, ScoreOf
<1>3. SumFunctionOnSet(u.IpScore, Ips) <= SumFunctionOnSet(Stored(u), Keys)
  BY SumKept DEF After, NoMore, Sound
<1>4. ASSUME ~u.dirty, ~u.torn
      PROVE  ~t.dirty /\ ~t.torn /\ Nodes(u) = Nodes(t) /\ Scored(u)
  <2>1. ~t.dirty /\ ~t.torn /\ u.IpScore = t.IpScore /\ Promoted(t, u)
    BY <1>4 DEF After
  <2>2. Scored(t)
    BY <2>1 DEF TablesInv
  <2>3. /\ Seeds(u) = Seeds(t) /\ Nodes(u) = Nodes(t) /\ Trusting(t) \subseteq Trusting(u)
        /\ \A k \in Keys : SeedScore(t, k) <= SeedScore(u, k)
    BY <1>1, <2>1, PromotedOK
  <2>4. u.SeedNodes = t.SeedNodes /\ u.IpReferrals = t.IpReferrals /\ u.TrustedNodes = t.TrustedNodes
    BY <2>1 DEF Promoted, After
  <2>5. SumFunctionOnSet(Stored(u), Keys) <= (Rounds + 1) * SumFunctionOnSet(Start(u), Keys)
    <3>1. PICK f, g : f = Start(t) /\ g = Start(u)
      OBVIOUS
    <3>2. \A k \in Keys : f[k] \in Nat /\ g[k] \in Nat /\ f[k] <= g[k]
      BY <2>3, <3>1, SeedScoreOK DEF Start
    <3>3. IsFiniteSet(Keys)
      BY ConstantsAssumption
    <3>4. SumFunctionOnSet(f, Keys) <= SumFunctionOnSet(g, Keys)
      BY <3>2, <3>3, SumLeq
    <3>5. PICK a \in Nat, b \in Nat, c \in Nat :
              /\ a = SumFunctionOnSet(f, Keys) /\ b = SumFunctionOnSet(g, Keys)
              /\ c = SumFunctionOnSet(Stored(u), Keys)
      <4>1. SumFunctionOnSet(f, Keys) \in Nat
        BY <3>2, <3>3, SumNat
      <4>2. SumFunctionOnSet(g, Keys) \in Nat
        BY <3>2, <3>3, SumNat
      <4>3. SumFunctionOnSet(Stored(u), Keys) \in Nat
        BY <1>1, <3>3, StoredOK, SumNat
      <4> QED BY <4>1, <4>2, <4>3
    <3>6. a <= b /\ c <= (Rounds + 1) * a
      BY <1>2, <2>2, <3>1, <3>4, <3>5 DEF Scored
    <3>7. PICK r \in Nat : r = Rounds + 1
      BY ConstantsAssumption
    <3>8. r * a <= r * b
      BY <3>6
    <3>9. r * a \in Nat /\ r * b \in Nat
      OBVIOUS
    <3>10. c <= r * a
      BY <3>6, <3>7
    <3>11. c <= r * b
      BY <3>8, <3>9, <3>10
    <3> QED BY <3>1, <3>5, <3>7, <3>11
  <2>6. \A k \in Keys : ScoreOf(u, k) > 0 => k \in Trusting(u) /\ k \in Nodes(u)
    BY <1>2, <2>2, <2>3 DEF Scored
  <2>7. \A a \in Ips : u.IpScore[a] > 0 => \E k \in Trusting(u) : a \in Range(u.IpReferrals[k])
    BY <2>1, <2>2, <2>3, <2>4 DEF Scored
  <2>8. \A k \in Seeds(u) : u.TrustedNodes[k] # NULL
    BY <2>2, <2>3, <2>4 DEF Scored
  <2>9. \A k \in Keys : u.SeedNodes[k] # NULL => ScoreOf(u, k) >= iSourceScore(u.SeedNodes[k])
    BY <1>2, <2>2, <2>4 DEF Scored
  <2>10. Scored(u)
    BY <2>5, <2>6, <2>7, <2>8, <2>9 DEF Scored
  <2> QED BY <2>1, <2>3, <2>10
<1> QED BY <1>1, <1>3, <1>4 DEF TablesInv

\* Stored scores are right.
LEMMA StoreOK ==
    ASSUME NEW t, Good(t), NEW score, Found(t, score)
    PROVE  LET u == StoreScores(t, score)
           IN /\ TablesInv(u)
              /\ ~u.dirty /\ ~u.torn
              /\ Nodes(u) = Nodes(t)
              /\ \A k \in Keys : ScoreOf(u, k) > 0 => k \in Nodes(t)
              /\ \A k \in Nodes(t) : u.TrustedNodes[k] # NULL
<1>1. t \in Tables /\ KeysOfFiles(t)
  BY DEF Good
<1>2. PICK u : u = StoreScores(t, score)
  OBVIOUS
<1>3. PICK N : N = [k \in Keys |-> IF k \in Nodes(t) THEN score[k]
                                   ELSE IF t.TrustedNodes[k] = NULL THEN NULL ELSE 0]
  OBVIOUS
<1>4. PICK I : I = [a \in Ips |-> Received(t.IpReferrals, score, a)]
  OBVIOUS
<1>5. u = [t EXCEPT !.TrustedNodes = N, !.IpScore = I, !.dirty = FALSE, !.torn = FALSE]
  BY <1>2, <1>3, <1>4 DEF StoreScores
<1>6. score \in [Keys -> Nat]
  BY DEF Found
<1>7. N \in [Keys -> Nat \cup {NULL}]
  BY <1>3, <1>6
<1>8. t.IpReferrals \in [Keys -> Seq(Ips)]
  <2>1. t.IpReferrals \in [Keys -> Bounded(Ips)]
    BY <1>1 DEF Tables
  <2>2. Bounded(Ips) \subseteq Seq(Ips)
    BY DEF Bounded
  <2> QED BY <2>1, <2>2
<1>9. \A a \in Ips : I[a] = Received(t.IpReferrals, score, a) /\ I[a] \in Nat
  <2>1. \A a : Received(t.IpReferrals, score, a) \in Nat
    BY <1>6, <1>8, ReceivedFrom
  <2> QED BY <1>4, <2>1
<1>10. I \in [Ips -> Nat]
  BY <1>4, <1>9
<1>11. /\ u \in Tables
       /\ u.SeedDomains = t.SeedDomains /\ u.SeedNodes = t.SeedNodes /\ u.class = t.class
       /\ u.ValidatorReferrals = t.ValidatorReferrals /\ u.IpReferrals = t.IpReferrals
       /\ u.TrustedNodes = N /\ u.IpScore = I /\ u.dirty = FALSE /\ u.torn = FALSE
  BY <1>1, <1>5, <1>7, <1>10 DEF Tables
<1>12. Promoted(t, u)
  BY <1>11, PromotedSame DEF Promoted
<1>13. Promoted(u, t)
  BY <1>11, PromotedSame DEF Promoted
<1>14. Seeds(u) = Seeds(t) /\ Nodes(u) = Nodes(t) /\ Trusting(t) \subseteq Trusting(u)
  BY <1>1, <1>11, <1>12, PromotedOK
<1>15. Start(u) = Start(t)
  <2>1. ASSUME NEW k \in Keys PROVE SeedScore(u, k) = SeedScore(t, k)
    <3>1. PICK a \in Nat, b \in Nat : a = SeedScore(t, k) /\ b = SeedScore(u, k)
      BY SeedScoreOK
    <3>2. SeedScore(t, k) <= SeedScore(u, k)
      BY <1>1, <1>11, <1>12, PromotedOK
    <3>3. SeedScore(u, k) <= SeedScore(t, k)
      BY <1>1, <1>11, <1>13, PromotedOK
    <3>4. a = b
      BY <3>1, <3>2, <3>3
    <3> QED BY <3>1, <3>4
  <2> QED BY <2>1 DEF Start
<1>16. KeysOfFiles(u)
  BY <1>1, <1>11 DEF KeysOfFiles
<1>17. Within(score, Trusting(t)) /\ Within(score, Nodes(t))
  BY DEF Found
<1>18. \A k \in Keys : ScoreOf(u, k) = IF k \in Nodes(t) THEN score[k] ELSE 0
  <2>1. NULL \notin Nat
    BY ConstantsAssumption
  <2> QED BY <1>3, <1>6, <1>11, <2>1 DEF ScoreOf
<1>19. \A k \in Keys : ScoreOf(u, k) = score[k]
  <2>1. ASSUME NEW k \in Keys, k \notin Nodes(t) PROVE score[k] = 0
    BY <1>6, <1>17, <2>1 DEF Within
  <2> QED BY <1>18, <2>1
<1>20. Stored(u) = score
  BY <1>6, <1>19 DEF Stored
<1>21. Seeds(t) \subseteq Nodes(t) /\ Nodes(t) \subseteq Keys
  BY NodesOK DEF Least
<1>22. \A k \in Nodes(t) : u.TrustedNodes[k] # NULL
  BY <1>3, <1>6, <1>11, <1>21, ConstantsAssumption
<1>23. \A k \in Keys : ScoreOf(u, k) > 0 => k \in Trusting(u) /\ k \in Nodes(u)
  BY <1>14, <1>17, <1>19 DEF Within
<1>24. \A a \in Ips : u.IpScore[a] > 0 => \E k \in Trusting(u) : a \in Range(u.IpReferrals[k])
  <2>1. SUFFICES ASSUME NEW a \in Ips, I[a] > 0
                 PROVE  \E k \in Trusting(u) : a \in Range(t.IpReferrals[k])
    BY <1>11
  <2>2. Received(t.IpReferrals, score, a) > 0
    BY <1>9, <2>1
  <2>3. Named(t.IpReferrals, score, a)
    BY <1>6, <1>8, <2>2, ReceivedFrom
  <2>4. PICK k \in Keys : score[k] > 0 /\ \E i \in 1..Len(t.IpReferrals[k]) : t.IpReferrals[k][i] = a
    BY <2>3 DEF Named
  <2>5. k \in Trusting(u)
    BY <1>14, <1>17, <2>4 DEF Within
  <2>6. a \in Range(t.IpReferrals[k])
    <3>1. t.IpReferrals[k] \in Seq(Ips)
      BY <1>8
    <3> QED BY <2>4, <3>1, RangeOK
  <2> QED BY <2>5, <2>6
<1>25. \A k \in Keys : u.SeedNodes[k] # NULL => ScoreOf(u, k) >= iSourceScore(u.SeedNodes[k])
  <2>1. SUFFICES ASSUME NEW k \in Keys, t.SeedNodes[k] # NULL
                 PROVE  score[k] >= iSourceScore(t.SeedNodes[k])
    BY <1>11, <1>19
  <2>2. t.SeedNodes[k] \in SourcesOf(t, k)
    BY <2>1 DEF SourcesOf
  <2>3. SeedScore(t, k) >= iSourceScore(t.SeedNodes[k]) /\ SeedScore(t, k) \in Nat
    BY <2>2, SeedScoreOK
  <2>4. score[k] >= SeedScore(t, k) /\ score[k] \in Nat
    BY <1>6 DEF Found
  <2>5. iSourceScore(t.SeedNodes[k]) \in Nat
    <3>1. iSourceScore(t.SeedNodes[k]) \in Worths
      BY WorthOK
    <3> QED BY <3>1 DEF Worths
  <2> QED BY <2>3, <2>4, <2>5
<1>26. SumFunctionOnSet(Stored(u), Keys) <= (Rounds + 1) * SumFunctionOnSet(Start(u), Keys)
  BY <1>15, <1>20 DEF Found
<1>27. SumFunctionOnSet(u.IpScore, Ips) <= SumFunctionOnSet(Stored(u), Keys)
  <2>1. IsFiniteSet(Ips) /\ \A a \in Ips : I[a] = Received(t.IpReferrals, score, a)
    BY <1>9, ConstantsAssumption
  <2>2. SumFunctionOnSet(I, Ips) <= SumFunctionOnSet(score, Keys)
    BY <1>6, <1>8, <2>1, ReceivedBound
  <2> QED BY <1>11, <1>20, <2>2
<1>28. \A k \in Seeds(u) : u.TrustedNodes[k] # NULL
  BY <1>14, <1>21, <1>22
<1>29. Scored(u)
  BY <1>23, <1>24, <1>25, <1>26, <1>28 DEF Scored
<1>30. TablesInv(u)
  BY <1>11, <1>16, <1>27, <1>29 DEF TablesInv, Good
<1>31. \A k \in Keys : ScoreOf(u, k) > 0 => k \in Nodes(t)
  BY <1>14, <1>23
<1> QED BY <1>2, <1>11, <1>14, <1>22, <1>30, <1>31

-------------------------------------------------------------------------------
(* Jobs.                                                                   *)

JobsOK(J) == J \subseteq Job /\ IsFiniteSet(J) /\ Cardinality(J) <= FetchJobs

\* There is a number for one more job.
LEMMA FreshNumberOK ==
    ASSUME NEW f \in Files, JobsOK(jobs), Cardinality(jobs) < FetchJobs
    PROVE  FreshNumber(f) \in 1..FetchJobs
<1>1. \E n \in 1..FetchJobs : \A j \in jobs : j.file = f => j.n # n
  <2>1. SUFFICES ASSUME \A n \in 1..FetchJobs : \E j \in jobs : j.n = n PROVE FALSE
    OBVIOUS
  <2>2. PICK h : h = [j \in jobs |-> j.n]
    OBVIOUS
  <2>3. PICK T : T = {h[j] : j \in jobs}
    OBVIOUS
  <2>4. h \in Surjection(jobs, T)
    BY <2>2, <2>3 DEF Surjection
  <2>5. IsFiniteSet(T) /\ Cardinality(T) <= Cardinality(jobs)
    BY <2>4, FS_Surjection DEF JobsOK
  <2>6. 1..FetchJobs \subseteq T
    BY <2>1, <2>2, <2>3
  <2>7. Cardinality(1..FetchJobs) = FetchJobs
    BY FS_Interval, ConstantsAssumption
  <2>8. Cardinality(1..FetchJobs) <= Cardinality(T)
    BY <2>5, <2>6, FS_Subset
  <2>9. Cardinality(T) \in Nat /\ Cardinality(jobs) \in Nat /\ FetchJobs \in Nat
    BY <2>5, FS_CardinalityType, ConstantsAssumption DEF JobsOK
  <2> QED BY <2>5, <2>7, <2>8, <2>9
<1> QED BY <1>1 DEF FreshNumber

\* A job that begins takes a place that is free.
LEMMA JobBegins ==
    ASSUME NEW J, JobsOK(J), Cardinality(J) < FetchJobs, NEW j \in Job
    PROVE  JobsOK(J \cup getValidatorsUrl(j))
<1>1. Cardinality(J) \in Nat /\ FetchJobs \in Nat /\ IsFiniteSet(J) /\ J \subseteq Job
  BY FS_CardinalityType, ConstantsAssumption DEF JobsOK
<1>2. ASSUME NEW i \in Job PROVE JobsOK(J \cup {i})
  <2>1. /\ IsFiniteSet(J \cup {i})
        /\ Cardinality(J \cup {i}) = IF i \in J THEN Cardinality(J) ELSE Cardinality(J) + 1
    BY <1>1, FS_AddElement
  <2>2. Cardinality(J \cup {i}) <= FetchJobs
    BY <1>1, <2>1
  <2> QED BY <1>1, <2>1, <2>2 DEF JobsOK
<1>3. [j EXCEPT !.phase = "ips"] \in Job
  BY DEF Job
<1>4. J \cup {} = J
  OBVIOUS
<1> QED BY <1>2, <1>3, <1>4 DEF getValidatorsUrl, getIpsUrl

\* A job that goes on keeps its place.
LEMMA JobGoesOn ==
    ASSUME NEW J, JobsOK(J), NEW j \in J
    PROVE  JobsOK(J \ {j}) /\ JobsOK((J \ {j}) \cup getIpsUrl(j))
<1>1. Cardinality(J) \in Nat /\ FetchJobs \in Nat /\ IsFiniteSet(J) /\ J \subseteq Job
  BY FS_CardinalityType, ConstantsAssumption DEF JobsOK
<1>2. PICK K : K = J \ {j}
  OBVIOUS
<1>3. IsFiniteSet(K) /\ Cardinality(K) = Cardinality(J) - 1
  BY <1>1, <1>2, FS_RemoveElement
<1>4. Cardinality(K) \in Nat
  BY <1>3, FS_CardinalityType
<1>5. Cardinality(K) < FetchJobs
  BY <1>1, <1>3, <1>4 DEF JobsOK
<1>6. JobsOK(K)
  BY <1>1, <1>2, <1>3, <1>4, <1>5 DEF JobsOK
<1>7. PICK i : i = [j EXCEPT !.phase = "ips"] /\ i \in Job
  <2>1. j \in Job
    BY <1>1
  <2>2. [j EXCEPT !.phase = "ips"] \in Job
    BY <2>1 DEF Job
  <2> QED BY <2>2
<1>8. JobsOK(K \cup {i})
  <2>1. /\ IsFiniteSet(K \cup {i})
        /\ Cardinality(K \cup {i}) = IF i \in K THEN Cardinality(K) ELSE Cardinality(K) + 1
    BY <1>3, FS_AddElement
  <2>2. Cardinality(K \cup {i}) <= FetchJobs
    BY <1>1, <1>4, <1>5, <2>1
  <2> QED BY <1>1, <1>2, <1>7, <2>1, <2>2 DEF JobsOK
<1>9. K \cup {} = K
  OBVIOUS
<1> QED BY <1>2, <1>6, <1>7, <1>8, <1>9 DEF getIpsUrl

-------------------------------------------------------------------------------
(* The invariant of the program.                                           *)

\* The list in memory is drawn from the nodes that are scored, and it has all
\* those that have points.
ListInv ==
    /\ mUNL \subseteq Keys
    /\ ~db.dirty /\ ~db.torn => mUNL \subseteq Nodes(db)
    /\ up => /\ \A k \in Keys : ScoreOf(db, k) > 0 => k \in mUNL
             /\ \A k \in mUNL : db.TrustedNodes[k] # NULL

ScoreInv ==
    /\ TablesInv(db)
    /\ ListInv
    /\ JobsOK(jobs)
    /\ up \in BOOLEAN
    /\ ops \in 0..MaxOps

\* Empty tables are right.
LEMMA InitOK ==
    ASSUME Init
    PROVE  ScoreInv
<1>1. /\ db.SeedDomains = [d \in Domains |-> NULL]
      /\ db.SeedNodes = [k \in Keys |-> NULL]
      /\ db.class \in Classes
      /\ db.ValidatorReferrals = [k \in Keys |-> <<>>]
      /\ db.IpReferrals = [k \in Keys |-> <<>>]
      /\ db.TrustedNodes = [k \in Keys |-> NULL]
      /\ db.IpScore = [a \in Ips |-> 0]
      /\ db.dirty = FALSE /\ db.torn = FALSE
  BY DEF Init
<1>2. <<>> \in Bounded(Keys \cup Addresses) /\ <<>> \in Bounded(Ips)
  BY ConstantsAssumption, EmptySeq DEF Bounded
<1>3. db \in Tables
  <2>1. /\ [d \in Domains |-> NULL] \in [Domains -> SeedDomain \cup {NULL}]
        /\ [k \in Keys |-> NULL] \in [Keys -> Sources \cup {NULL}]
        /\ [k \in Keys |-> <<>>] \in [Keys -> Bounded(Keys \cup Addresses)]
        /\ [k \in Keys |-> <<>>] \in [Keys -> Bounded(Ips)]
        /\ [k \in Keys |-> NULL] \in [Keys -> Nat \cup {NULL}]
        /\ [a \in Ips |-> 0] \in [Ips -> Nat]
    BY <1>2
  <2> QED BY <2>1 DEF Init, Tables
<1>4. Good(db)
  BY <1>1, <1>3 DEF Good, KeysOfFiles
<1>5. \A k \in Keys : ScoreOf(db, k) = 0
  BY <1>1 DEF ScoreOf
<1>6. \A k \in Keys : DomainsOf(db, k) = {}
  BY <1>1 DEF DomainsOf
<1>7. \A k \in Keys : SourcesOf(db, k) = {}
  BY <1>1, <1>6 DEF SourcesOf
<1>8. Seeds(db) = {}
  BY <1>7 DEF Seeds
<1>9. SumFunctionOnSet(Stored(db), Keys) = 0
  <2>1. PICK F : F = Stored(db)
    OBVIOUS
  <2>2. \A k \in Keys : F[k] = 0 /\ F[k] \in Nat
    BY <1>5, <2>1 DEF Stored
  <2>3. IsFiniteSet(Keys)
    BY ConstantsAssumption
  <2>4. SumFunctionOnSet(F, Keys) \in Nat
    BY <2>2, <2>3, SumNat
  <2>5. ASSUME SumFunctionOnSet(F, Keys) > 0 PROVE FALSE
    <3>1. \E k \in Keys : F[k] > 0
      BY <2>2, <2>3, <2>5, SumPositive
    <3> QED BY <2>2, <3>1
  <2> QED BY <2>1, <2>4, <2>5
<1>10. SumFunctionOnSet(db.IpScore, Ips) = 0
  <2>1. PICK F : F = db.IpScore
    OBVIOUS
  <2>2. \A k \in Ips : F[k] = 0 /\ F[k] \in Nat
    BY <1>1, <2>1
  <2>3. IsFiniteSet(Ips)
    BY ConstantsAssumption
  <2>4. SumFunctionOnSet(F, Ips) \in Nat
    BY <2>2, <2>3, SumNat
  <2>5. ASSUME SumFunctionOnSet(F, Ips) > 0 PROVE FALSE
    <3>1. \E k \in Ips : F[k] > 0
      BY <2>2, <2>3, <2>5, SumPositive
    <3> QED BY <2>2, <3>1
  <2> QED BY <2>1, <2>4, <2>5
<1>11. (Rounds + 1) * SumFunctionOnSet(Start(db), Keys) >= 0
  <2>1. PICK a \in Nat : a = SumFunctionOnSet(Start(db), Keys)
    BY StartOK
  <2>2. PICK r \in Nat : r = Rounds + 1
    BY ConstantsAssumption
  <2>3. r * a >= 0
    OBVIOUS
  <2> QED BY <2>1, <2>2, <2>3
<1>12. Scored(db)
  <2>1. SumFunctionOnSet(Stored(db), Keys) <= (Rounds + 1) * SumFunctionOnSet(Start(db), Keys)
    BY <1>9, <1>11
  <2>2. \A k \in Keys : ~(ScoreOf(db, k) > 0)
    BY <1>5
  <2>3. \A a \in Ips : ~(db.IpScore[a] > 0)
    BY <1>1
  <2>4. \A k \in Keys : db.SeedNodes[k] = NULL
    BY <1>1
  <2> QED BY <1>8, <2>1, <2>2, <2>3, <2>4 DEF Scored
<1>13. SumFunctionOnSet(db.IpScore, Ips) <= SumFunctionOnSet(Stored(db), Keys)
  BY <1>9, <1>10
<1>14. TablesInv(db)
  BY <1>4, <1>12, <1>13 DEF TablesInv
<1>15. JobsOK(jobs)
  BY FS_EmptySet, ConstantsAssumption DEF Init, JobsOK
<1>16. ListInv
  BY DEF Init, ListInv
<1>17. up \in BOOLEAN
  BY DEF Init
<1>18. ops \in 0..MaxOps
  BY ConstantsAssumption DEF Init
<1> QED BY <1>14, <1>15, <1>16, <1>17, <1>18 DEF ScoreInv

\* What a request or a handler of a job leaves.
LEMMA Changed ==
    ASSUME ScoreInv, After(db, db'), mUNL' = mUNL, up' = up, JobsOK(jobs'), ops' \in 0..MaxOps
    PROVE  ScoreInv'
<1>1. /\ TablesInv(db')
      /\ ~db'.dirty /\ ~db'.torn => ~db.dirty /\ ~db.torn /\ Nodes(db') = Nodes(db)
  <2>1. PICK t, u : t = db /\ u = db'
    OBVIOUS
  <2>2. TablesInv(t) /\ After(t, u)
    BY <2>1 DEF ScoreInv
  <2>3. /\ TablesInv(u)
        /\ ~u.dirty /\ ~u.torn => ~t.dirty /\ ~t.torn /\ Nodes(u) = Nodes(t)
    BY <2>2, AfterOK
  <2> QED BY <2>1, <2>3
<1>2. \A k : ScoreOf(db', k) = ScoreOf(db, k) /\ db'.TrustedNodes[k] = db.TrustedNodes[k]
  BY DEF After, ScoreOf
<1>3. ListInv'
  BY <1>1, <1>2 DEF ScoreInv, ListInv
<1> QED BY <1>1, <1>3 DEF ScoreInv

-------------------------------------------------------------------------------
(* What the actions make of the tables.                                    *)

\* Scores that are old, or nothing new.
LEMMA SameAfter ==
    ASSUME NEW t, NEW u, Good(t), SameScores(t, u), u.dirty \/ u = t
    PROVE  After(t, u)
<1>1. t.IpScore \in [Ips -> Nat]
  BY DEF Good, Tables
<1>2. PICK f : f = t.IpScore
  OBVIOUS
<1>3. \A a \in Ips : f[a] <= f[a]
  <2>1. \A a \in Ips : f[a] \in Nat
    BY <1>1, <1>2
  <2> QED BY <2>1
<1>4. u.IpScore = f /\ \A a \in Ips : u.IpScore[a] <= t.IpScore[a]
  BY <1>2, <1>3 DEF SameScores
<1>5. u = t => Promoted(t, u)
  BY PromotedSame DEF Promoted
<1> QED BY <1>2, <1>4, <1>5 DEF After, SameScores

\* Other seeds.
LEMMA SeedsReplaced ==
    ASSUME NEW t, Good(t), NEW S \in [Domains -> SeedDomain \cup {NULL}],
           NEW N \in [Keys -> Sources \cup {NULL}],
           \A d \in Domains : S[d] # NULL /\ S[d].Sha256 # NULL => S[d].PublicKey = S[d].Sha256.key
    PROVE  SameScores(t, [t EXCEPT !.SeedDomains = S, !.SeedNodes = N])
<1>1. PICK u : u = [t EXCEPT !.SeedDomains = S, !.SeedNodes = N]
  OBVIOUS
<1>2. t \in Tables
  BY DEF Good
<1>3. /\ u \in Tables /\ u.SeedDomains = S
      /\ u.TrustedNodes = t.TrustedNodes /\ u.IpScore = t.IpScore
  BY <1>1, <1>2 DEF Tables
<1>4. KeysOfFiles(u)
  BY <1>3 DEF KeysOfFiles
<1> QED BY <1>1, <1>3, <1>4 DEF SameScores, Good

\* nodeAddDomain: the scores do not get old, and stay right.
LEMMA AddDomainAfter ==
    ASSUME NEW t, Good(t), NEW d \in Domains
    PROVE  After(t, nodeAddDomains(t, {d}, "M"))
<1>1. PICK u : u = nodeAddDomains(t, {d}, "M")
  OBVIOUS
<1>2. "M" \in Sources
  BY DEF Sources
<1>3. SameScores(t, u) /\ u.dirty = t.dirty /\ u.torn = t.torn /\ Promoted(t, u)
  BY <1>1, <1>2, AddDomainsOK
<1>4. t.IpScore \in [Ips -> Nat]
  BY DEF Good, Tables
<1>5. PICK f : f = t.IpScore
  OBVIOUS
<1>6. \A a \in Ips : f[a] <= f[a]
  <2>1. \A a \in Ips : f[a] \in Nat
    BY <1>4, <1>5
  <2> QED BY <2>1
<1>7. \A a \in Ips : u.IpScore[a] <= t.IpScore[a]
  BY <1>3, <1>5, <1>6 DEF SameScores
<1> QED BY <1>1, <1>3, <1>7 DEF After, SameScores

\* nodeBootstrap.
LEMMA BootstrapAfter ==
    ASSUME NEW t, Good(t), NEW file \in ValidatorLists \cup {NULL},
           NEW list \in ValidatorLists \cup {NULL}
    PROVE  LET v == OwnList(OwnList(t, "V", file), "C", list)
           IN After(t, IpsReplaced(v))
<1>1. "V" \in Sources /\ "C" \in Sources
  BY DEF Sources
<1>2. PICK s : s = OwnList(t, "V", file)
  OBVIOUS
<1>3. SameScores(t, s) /\ (s.dirty \/ s = t)
  BY <1>1, <1>2, OwnListOK
<1>4. Good(s)
  BY <1>3 DEF SameScores
<1>5. PICK v : v = OwnList(s, "C", list)
  OBVIOUS
<1>6. SameScores(s, v) /\ (v.dirty \/ v = s)
  BY <1>1, <1>4, <1>5, OwnListOK
<1>7. SameScores(t, v) /\ (v.dirty \/ v = t)
  <2>1. SameScores(t, v)
    BY <1>3, <1>6, SameOn
  <2> QED BY <1>3, <1>6, <2>1
<1>8. CASE ConfigIps = {}
  BY <1>2, <1>5, <1>7, <1>8, SameAfter DEF IpsReplaced
<1>9. CASE ConfigIps # {}
  <2>1. v \in Tables /\ KeysOfFiles(v) /\ v.IpScore = t.IpScore /\ v.TrustedNodes = t.TrustedNodes
    BY <1>7 DEF SameScores, Good
  <2>2. PICK I : I = [a \in Ips |-> IF a \in ConfigIps THEN 0 ELSE v.IpScore[a]]
    OBVIOUS
  <2>3. v.IpScore \in [Ips -> Nat]
    BY <2>1 DEF Tables
  <2>4. I \in [Ips -> Nat]
    BY <2>2, <2>3
  <2>5. \A a \in Ips : I[a] <= v.IpScore[a]
    BY <2>2, <2>3
  <2>6. PICK c : c = [v EXCEPT !.IpScore = I]
    OBVIOUS
  <2>7. /\ c \in Tables /\ c.SeedDomains = v.SeedDomains
        /\ c.TrustedNodes = v.TrustedNodes /\ c.IpScore = I
    BY <2>1, <2>4, <2>6 DEF Tables
  <2>8. Good(c)
    BY <2>1, <2>7 DEF Good, KeysOfFiles
  <2>9. PICK u : u = fetchDirty(c)
    OBVIOUS
  <2>10. SameScores(c, u) /\ u.dirty
    BY <2>8, <2>9, FetchDirtyOK
  <2>11. After(t, u)
    BY <2>1, <2>5, <2>7, <2>10 DEF After, SameScores
  <2>12. u = IpsReplaced(v)
    BY <1>9, <2>2, <2>6, <2>9 DEF IpsReplaced
  <2> QED BY <1>2, <1>5, <2>11, <2>12
<1> QED BY <1>8, <1>9

\* nodeRemoveDomain.
LEMMA RemoveDomainAfter ==
    ASSUME NEW t, Good(t), NEW d \in Domains
    PROVE  After(t, fetchDirty([t EXCEPT !.SeedDomains[d] = NULL]))
<1>1. t \in Tables /\ KeysOfFiles(t)
  BY DEF Good
<1>2. PICK S : S = [t.SeedDomains EXCEPT ![d] = NULL]
  OBVIOUS
<1>3. S \in [Domains -> SeedDomain \cup {NULL}] /\ t.SeedNodes \in [Keys -> Sources \cup {NULL}]
  BY <1>1, <1>2 DEF Tables
<1>4. \A e \in Domains : S[e] = NULL \/ S[e] = t.SeedDomains[e]
  <2>1. t.SeedDomains \in [Domains -> SeedDomain \cup {NULL}]
    BY <1>1 DEF Tables
  <2> QED BY <1>2, <2>1
<1>5. \A e \in Domains : S[e] # NULL /\ S[e].Sha256 # NULL => S[e].PublicKey = S[e].Sha256.key
  BY <1>1, <1>4 DEF KeysOfFiles
<1>6. PICK u : u = [t EXCEPT !.SeedDomains = S, !.SeedNodes = t.SeedNodes]
  OBVIOUS
<1>7. SameScores(t, u)
  BY <1>3, <1>5, <1>6, SeedsReplaced
<1>8. u = [t EXCEPT !.SeedDomains[d] = NULL]
  BY <1>1, <1>2, <1>6 DEF Tables
<1>9. SameScores(u, fetchDirty(u)) /\ fetchDirty(u).dirty
  <2>1. Good(u)
    BY <1>7 DEF SameScores
  <2> QED BY <2>1, FetchDirtyOK
<1>10. SameScores(t, fetchDirty(u))
  BY <1>7, <1>9, SameOn
<1>11. After(t, fetchDirty(u))
  BY <1>9, <1>10, SameAfter
<1> QED BY <1>8, <1>11

\* nodeReset.
LEMMA ResetAfter ==
    ASSUME NEW t, Good(t)
    PROVE  After(t, fetchDirty([t EXCEPT !.SeedDomains = [d \in Domains |-> NULL],
                                         !.SeedNodes = [k \in Keys |-> NULL]]))
<1>1. PICK S, N : S = [d \in Domains |-> NULL] /\ N = [k \in Keys |-> NULL]
  OBVIOUS
<1>2. /\ S \in [Domains -> SeedDomain \cup {NULL}] /\ N \in [Keys -> Sources \cup {NULL}]
      /\ \A d \in Domains : S[d] = NULL
  BY <1>1
<1>3. PICK u : u = [t EXCEPT !.SeedDomains = S, !.SeedNodes = N]
  OBVIOUS
<1>4. SameScores(t, u)
  BY <1>2, <1>3, SeedsReplaced
<1>5. SameScores(u, fetchDirty(u)) /\ fetchDirty(u).dirty
  <2>1. Good(u)
    BY <1>4 DEF SameScores
  <2> QED BY <2>1, FetchDirtyOK
<1>6. SameScores(t, fetchDirty(u))
  BY <1>4, <1>5, SameOn
<1>7. After(t, fetchDirty(u))
  BY <1>5, <1>6, SameAfter
<1> QED BY <1>1, <1>3, <1>7

\* The row of a domain takes a file.
WithFile(t, f) ==
    [t EXCEPT !.SeedDomains[f.domain].PublicKey = f.key, !.SeedDomains[f.domain].Sha256 = f]

\* responseFetch: the row of the file has its key, and only a file that was
\* there leaves the scores as they are.
LEMMA FileTaken ==
    ASSUME NEW t, Good(t), NEW f \in Files, t.SeedDomains[f.domain] # NULL
    PROVE  /\ SameScores(t, WithFile(t, f))
           /\ t.SeedDomains[f.domain].Sha256 = f => WithFile(t, f) = t
<1>1. t \in Tables /\ KeysOfFiles(t)
  BY DEF Good
<1>2. f.domain \in Domains /\ f.key \in Keys /\ f # NULL
  BY ConstantsAssumption
<1>3. PICK d, k : d = f.domain /\ k = f.key
  OBVIOUS
<1>4. PICK D : D = t.SeedDomains /\ D \in [Domains -> SeedDomain \cup {NULL}]
  BY <1>1 DEF Tables
<1>5. PICK r : r = D[d] /\ r \in SeedDomain
  BY <1>2, <1>3, <1>4
<1>6. PICK q : q = [r EXCEPT !.PublicKey = k, !.Sha256 = f]
  OBVIOUS
<1>7. q \in SeedDomain /\ q.PublicKey = k /\ q.Sha256 = f
  BY <1>2, <1>3, <1>5, <1>6 DEF SeedDomain
<1>8. PICK S : S = [D EXCEPT ![d] = q]
  OBVIOUS
<1>9. S \in [Domains -> SeedDomain \cup {NULL}]
  BY <1>4, <1>7, <1>8
<1>10. \A e \in Domains : (e = d /\ S[e] = q) \/ S[e] = D[e]
  BY <1>4, <1>8
<1>11. \A e \in Domains : S[e] # NULL /\ S[e].Sha256 # NULL => S[e].PublicKey = S[e].Sha256.key
  BY <1>1, <1>3, <1>4, <1>7, <1>10 DEF KeysOfFiles
<1>12. t.SeedNodes \in [Keys -> Sources \cup {NULL}]
  BY <1>1 DEF Tables
<1>13. SameScores(t, [t EXCEPT !.SeedDomains = S, !.SeedNodes = t.SeedNodes])
  BY <1>9, <1>11, <1>12, SeedsReplaced
<1>14. PICK u : u = [t EXCEPT !.SeedDomains = S]
  OBVIOUS
<1>15. u = [t EXCEPT !.SeedDomains = S, !.SeedNodes = t.SeedNodes]
  BY <1>1, <1>14 DEF Tables
<1>16. WithFile(t, f) = u
  <2>1. PICK p : p = [r EXCEPT !.PublicKey = k]
    OBVIOUS
  <2>2. q = [p EXCEPT !.Sha256 = f]
    BY <1>6, <2>1
  <2>3. PICK A : A = [D EXCEPT ![d] = p]
    OBVIOUS
  <2>4. A[d] = p /\ S = [A EXCEPT ![d] = q]
    BY <1>2, <1>3, <1>4, <1>8, <2>3
  <2>5. PICK a : a = [t EXCEPT !.SeedDomains = A]
    OBVIOUS
  <2>6. a = [t EXCEPT !.SeedDomains[d].PublicKey = k]
    BY <1>4, <1>5, <2>1, <2>3, <2>5
  <2>7. a.SeedDomains = A /\ u = [a EXCEPT !.SeedDomains = S]
    BY <1>1, <1>14, <2>5 DEF Tables
  <2>8. u = [a EXCEPT !.SeedDomains[d].Sha256 = f]
    BY <2>2, <2>4, <2>7
  <2> QED BY <1>3, <2>6, <2>8 DEF WithFile
<1>17. ASSUME r.Sha256 = f PROVE u = t
  <2>1. r.PublicKey = k
    BY <1>1, <1>2, <1>3, <1>4, <1>5, <1>17, RowAssumption DEF KeysOfFiles
  <2>2. q = r
    BY <1>5, <1>6, <1>17, <2>1 DEF SeedDomain
  <2>3. S = D
    BY <1>4, <1>5, <1>8, <2>2
  <2> QED BY <1>1, <1>4, <1>14, <2>3 DEF Tables
<1> QED BY <1>3, <1>4, <1>5, <1>13, <1>15, <1>16, <1>17

\* ... and the lists of a file that is new make them old.
LEMMA FileAfter ==
    ASSUME NEW t, Good(t), NEW f \in Files, t.SeedDomains[f.domain] # NULL
    PROVE  LET u == processValidators(WithFile(t, f), f.key, "R", f.validators)
           IN After(t, processIps(u, f.key, f.ips))
<1>1. /\ f.key \in Keys /\ f.validators \in Seq(Keys \cup Domains \cup {NULL})
      /\ f.ips \in Seq(Ips \cup {NULL})
  BY ConstantsAssumption
<1>2. PICK k, vs, is : k = f.key /\ vs = f.validators /\ is = f.ips
  OBVIOUS
<1>3. k \in Keys /\ vs \in Seq(Keys \cup Domains \cup {NULL}) /\ is \in Seq(Ips \cup {NULL})
  BY <1>1, <1>2
<1>4. PICK w : w = WithFile(t, f) /\ SameScores(t, w) /\ Good(w)
  BY FileTaken DEF SameScores
<1>5. "R" \in Sources
  BY DEF Sources
<1>6. PICK u : u = processValidators(w, k, "R", vs)
  OBVIOUS
<1>7. SameScores(w, u)
  BY <1>3, <1>4, <1>5, <1>6, ProcessValidatorsOK
<1>8. Good(u)
  BY <1>7 DEF SameScores
<1>9. PICK v : v = processIps(u, k, is)
  OBVIOUS
<1>10. SameScores(u, v) /\ v.dirty
  BY <1>3, <1>8, <1>9, ProcessIpsOK
<1>11. SameScores(t, v)
  <2>1. SameScores(t, u)
    BY <1>4, <1>7, SameOn
  <2> QED BY <1>10, <2>1, SameOn
<1>12. After(t, v)
  BY <1>10, <1>11, SameAfter
<1> QED BY <1>2, <1>4, <1>6, <1>9, <1>12

-------------------------------------------------------------------------------
(* What a process leaves that is killed inside a handler.                   *)

\* Without its note a change has the same scores.
LEMMA UnnotedOK ==
    ASSUME NEW t, Good(t), NEW u \in Tables
    PROVE  SameScores(t, Unnoted(t, u))
<1>1. PICK v : v = Unnoted(t, u)
  OBVIOUS
<1>2. t \in Tables /\ u.dirty \in BOOLEAN
  BY DEF Good, Tables
<1>3. /\ v \in Tables /\ v.SeedDomains = t.SeedDomains
      /\ v.TrustedNodes = t.TrustedNodes /\ v.IpScore = t.IpScore
  BY <1>1, <1>2 DEF Unnoted, Tables
<1>4. KeysOfFiles(v)
  BY <1>3 DEF Good, KeysOfFiles
<1> QED BY <1>1, <1>3, <1>4 DEF SameScores, Good

\* The entries in e are added.
Added(t, e, w) == nodeAddPublics(nodeAddDomains(t, e \cap Domains, w), e \cap Keys, w)

LEMMA AddedOK ==
    ASSUME NEW t, Good(t), NEW e, NEW w \in Sources
    PROVE  SameScores(t, Added(t, e, w))
<1>1. PICK D, K : D = e \cap Domains /\ K = e \cap Keys
  OBVIOUS
<1>2. PICK a : a = nodeAddDomains(t, D, w)
  OBVIOUS
<1>3. SameScores(t, a)
  BY <1>2, AddDomainsOK
<1>4. PICK b : b = nodeAddPublics(a, K, w)
  OBVIOUS
<1>5. Good(a) /\ K \in SUBSET Keys
  BY <1>1, <1>3 DEF SameScores
<1>6. SameScores(a, b)
  BY <1>4, <1>5, AddPublicsOK
<1>7. SameScores(t, b)
  BY <1>3, <1>6, SameOn
<1> QED BY <1>1, <1>2, <1>4, <1>7 DEF Added

\* Inside a list of validators.
LEMMA PartValidatorsOK ==
    ASSUME NEW t, Good(t), NEW key \in Keys \cup {NULL}, NEW w \in Sources,
           NEW list \in Seq(Keys \cup Domains \cup {NULL}),
           NEW u \in PartValidators(t, key, w, list)
    PROVE  SameScores(t, u)
<1>1. PICK e : e = Accepted(list, GoodValidators)
  OBVIOUS
<1>2. PICK b : b = IF key = NULL THEN t ELSE [t EXCEPT !.ValidatorReferrals[key] = <<>>]
  OBVIOUS
<1>3. PICK p : p = processValidators(t, key, w, list)
  OBVIOUS
<1> DEFINE a(n) == Added(b, Range(SubSeq(e, 1, n)), w)
<1>4. \/ \E n \in 0..Len(e) : u = a(n)
      \/ \E n \in 1..Len(e) : u = Unnoted(a(n), a(n - 1))
      \/ u = Unnoted(p, a(Len(e)))
  BY <1>1, <1>2, <1>3 DEF PartValidators, Added
<1>5. SameScores(t, b)
  <2>1. CASE key = NULL
    BY <1>2, <2>1 DEF SameScores
  <2>2. CASE key # NULL
    <3>1. t \in Tables /\ key \in Keys
      BY <2>2 DEF Good
    <3>2. PICK V : V = [t.ValidatorReferrals EXCEPT ![key] = <<>>]
      OBVIOUS
    <3>3. <<>> \in Bounded(Keys \cup Addresses)
      BY ConstantsAssumption, EmptySeq DEF Bounded
    <3>4. V \in [Keys -> Bounded(Keys \cup Addresses)]
      BY <3>1, <3>2, <3>3 DEF Tables
    <3>5. b = [t EXCEPT !.ValidatorReferrals = V]
      BY <1>2, <2>2, <3>2
    <3>6. /\ b \in Tables /\ b.SeedDomains = t.SeedDomains
          /\ b.TrustedNodes = t.TrustedNodes /\ b.IpScore = t.IpScore
      BY <3>1, <3>4, <3>5 DEF Tables
    <3>7. KeysOfFiles(b)
      BY <3>6 DEF Good, KeysOfFiles
    <3> QED BY <3>6, <3>7 DEF SameScores, Good
  <2> QED BY <2>1, <2>2
<1>6. ASSUME NEW n PROVE SameScores(t, a(n)) /\ Good(a(n)) /\ a(n) \in Tables
  <2>1. PICK r : r = Range(SubSeq(e, 1, n))
    OBVIOUS
  <2>2. SameScores(b, Added(b, r, w))
    BY <1>5, AddedOK DEF SameScores
  <2>3. SameScores(t, Added(b, r, w))
    BY <1>5, <2>2, SameOn
  <2> QED BY <2>1, <2>3 DEF SameScores, Good
<1>7. SameScores(t, p) /\ Good(p)
  BY <1>3, ProcessValidatorsOK DEF SameScores
<1> HIDE DEF a
<1>8. ASSUME NEW n, NEW m PROVE SameScores(t, Unnoted(a(n), a(m)))
  <2>1. SameScores(a(n), Unnoted(a(n), a(m)))
    BY <1>6, UnnotedOK
  <2>2. SameScores(t, a(n))
    BY <1>6
  <2> QED BY <2>1, <2>2, SameOn
<1>9. SameScores(t, Unnoted(p, a(Len(e))))
  <2>1. SameScores(p, Unnoted(p, a(Len(e))))
    BY <1>6, <1>7, UnnotedOK
  <2> QED BY <1>7, <2>1, SameOn
<1> QED BY <1>4, <1>6, <1>8, <1>9

\* Inside a list of addresses.
LEMMA PartIpsOK ==
    ASSUME NEW t, Good(t), NEW key \in Keys, NEW list \in Seq(Ips \cup {NULL}),
           NEW u \in PartIps(t, key, list)
    PROVE  SameScores(t, u)
<1>1. PICK p : p = processIps(t, key, list)
  OBVIOUS
<1>2. t \in Tables
  BY DEF Good
<1>3. CASE u = Unnoted(p, t)
  <2>1. SameScores(t, p) /\ Good(p)
    BY <1>1, ProcessIpsOK DEF SameScores
  <2>2. SameScores(p, u)
    BY <1>2, <1>3, <2>1, UnnotedOK
  <2> QED BY <2>1, <2>2, SameOn
<1>4. CASE u = [t EXCEPT !.IpReferrals[key] = <<>>]
  <2>1. PICK V : V = [t.IpReferrals EXCEPT ![key] = <<>>]
    OBVIOUS
  <2>2. <<>> \in Bounded(Ips)
    BY ConstantsAssumption, EmptySeq DEF Bounded
  <2>3. V \in [Keys -> Bounded(Ips)]
    BY <1>2, <2>1, <2>2 DEF Tables
  <2>4. u = [t EXCEPT !.IpReferrals = V]
    BY <1>4, <2>1
  <2>5. /\ u \in Tables /\ u.SeedDomains = t.SeedDomains
        /\ u.TrustedNodes = t.TrustedNodes /\ u.IpScore = t.IpScore
    BY <1>2, <2>3, <2>4 DEF Tables
  <2>6. KeysOfFiles(u)
    BY <2>5 DEF Good, KeysOfFiles
  <2> QED BY <2>5, <2>6 DEF SameScores, Good
<1> QED BY <1>1, <1>3, <1>4 DEF PartIps

\* The scores of u are those of t.
LEMMA SameNoMore ==
    ASSUME NEW t, NEW u, Good(t), SameScores(t, u)
    PROVE  NoMore(t, u)
<1>1. PICK f : f = t.IpScore /\ f \in [Ips -> Nat]
  BY DEF Good, Tables
<1>2. \A a \in Ips : f[a] <= f[a]
  BY <1>1
<1>3. u.IpScore = f
  BY <1>1 DEF SameScores
<1> QED BY <1>1, <1>2, <1>3 DEF SameScores, NoMore

\* Inside nodeBootstrap and nodeProcess.
LEMMA PartBootstrapOK ==
    ASSUME Good(db), NEW file \in ValidatorLists \cup {NULL},
           NEW list \in ValidatorLists \cup {NULL}, NEW u \in PartBootstrap(file, list)
    PROVE  NoMore(db, u)
<1>1. "V" \in Sources /\ "C" \in Sources
  BY DEF Sources
<1>2. PICK s : s = OwnList(db, "V", file)
  OBVIOUS
<1>3. SameScores(db, s) /\ Good(s)
  BY <1>1, <1>2, OwnListOK DEF SameScores
<1>4. PICK v : v = OwnList(s, "C", list)
  OBVIOUS
<1>5. SameScores(s, v) /\ Good(v)
  BY <1>1, <1>3, <1>4, OwnListOK DEF SameScores
<1>6. PICK c : c = IpsReplaced(v)
  OBVIOUS
<1>7. \/ file # NULL /\ u \in PartValidators(db, NULL, "V", file)
      \/ list # NULL /\ u \in PartValidators(s, NULL, "C", list)
      \/ u = Unnoted(c, v)
  BY <1>2, <1>4, <1>6 DEF PartBootstrap
<1>8. CASE file # NULL /\ u \in PartValidators(db, NULL, "V", file)
  <2>1. file \in Seq(Keys \cup Domains \cup {NULL})
    BY <1>8, ConstantsAssumption
  <2>2. SameScores(db, u)
    BY <1>1, <1>8, <2>1, PartValidatorsOK
  <2> QED BY <2>2, SameNoMore
<1>9. CASE list # NULL /\ u \in PartValidators(s, NULL, "C", list)
  <2>1. list \in Seq(Keys \cup Domains \cup {NULL})
    BY <1>9, ConstantsAssumption
  <2>2. SameScores(s, u)
    BY <1>1, <1>3, <1>9, <2>1, PartValidatorsOK
  <2>3. SameScores(db, u)
    BY <1>3, <2>2, SameOn
  <2> QED BY <2>3, SameNoMore
<1>10. CASE u = Unnoted(c, v)
  <2>1. After(db, c)
    BY <1>2, <1>4, <1>6, BootstrapAfter
  <2>2. Good(c) /\ v \in Tables
    BY <1>5, <2>1 DEF After, Good
  <2>3. SameScores(c, u)
    BY <1>10, <2>2, UnnotedOK
  <2> QED BY <2>1, <2>3 DEF After, SameScores, NoMore
<1> QED BY <1>7, <1>8, <1>9, <1>10

\* Inside responseFetch.
LEMMA PartFetchOK ==
    ASSUME Good(db), NEW f \in Files, NEW u \in PartFetch(f)
    PROVE  SameScores(db, u)
<1>1. PICK k, vs, is : k = f.key /\ vs = f.validators /\ is = f.ips
  OBVIOUS
<1>2. k \in Keys /\ vs \in Seq(Keys \cup Domains \cup {NULL}) /\ is \in Seq(Ips \cup {NULL})
  BY <1>1, ConstantsAssumption
<1>3. "R" \in Sources
  BY DEF Sources
<1>4. PICK t : t = FileStored(f)
  OBVIOUS
<1>5. PICK p : p = processValidators(t, k, "R", vs)
  OBVIOUS
<1>6. /\ Fetchable(f)
      /\ u = t \/ u \in PartValidators(t, k, "R", vs) \/ u \in PartIps(p, k, is)
  BY <1>1, <1>4, <1>5 DEF PartFetch
<1>7. SameScores(db, t) /\ Good(t)
  <2>1. t = WithFile(db, f) /\ db.SeedDomains[f.domain] # NULL
    BY <1>4, <1>6 DEF FileStored, WithFile, Fetchable
  <2> QED BY <2>1, FileTaken DEF SameScores
<1>8. CASE u \in PartValidators(t, k, "R", vs)
  <2>1. SameScores(t, u)
    BY <1>2, <1>3, <1>7, <1>8, PartValidatorsOK
  <2> QED BY <1>7, <2>1, SameOn
<1>9. CASE u \in PartIps(p, k, is)
  <2>1. SameScores(t, p) /\ Good(p)
    BY <1>2, <1>3, <1>5, <1>7, ProcessValidatorsOK DEF SameScores
  <2>2. SameScores(p, u)
    BY <1>2, <1>9, <2>1, PartIpsOK
  <2>3. SameScores(t, u)
    BY <2>1, <2>2, SameOn
  <2> QED BY <1>7, <2>3, SameOn
<1> QED BY <1>6, <1>7, <1>8, <1>9

\* A row of SeedDomains or all of them are deleted, the rows of SeedNodes too
\* or not yet.
LEMMA PartRemoveOK ==
    ASSUME NEW t, Good(t)
    PROVE  /\ \A d \in Domains : SameScores(t, [t EXCEPT !.SeedDomains[d] = NULL])
           /\ SameScores(t, [t EXCEPT !.SeedDomains = [d \in Domains |-> NULL]])
           /\ SameScores(t, [t EXCEPT !.SeedDomains = [d \in Domains |-> NULL],
                                      !.SeedNodes = [k \in Keys |-> NULL]])
<1>1. /\ t \in Tables /\ KeysOfFiles(t)
      /\ t.SeedDomains \in [Domains -> SeedDomain \cup {NULL}]
      /\ t.SeedNodes \in [Keys -> Sources \cup {NULL}]
  BY DEF Good, Tables
<1>2. ASSUME NEW d \in Domains PROVE SameScores(t, [t EXCEPT !.SeedDomains[d] = NULL])
  <2>1. PICK S : S = [t.SeedDomains EXCEPT ![d] = NULL]
    OBVIOUS
  <2>2. S \in [Domains -> SeedDomain \cup {NULL}]
    BY <1>1, <2>1
  <2>3. \A e \in Domains : S[e] = NULL \/ S[e] = t.SeedDomains[e]
    BY <1>1, <2>1
  <2>4. \A e \in Domains : S[e] # NULL /\ S[e].Sha256 # NULL => S[e].PublicKey = S[e].Sha256.key
    BY <1>1, <2>3 DEF KeysOfFiles
  <2>5. PICK u : u = [t EXCEPT !.SeedDomains = S, !.SeedNodes = t.SeedNodes]
    OBVIOUS
  <2>6. SameScores(t, u)
    BY <1>1, <2>2, <2>4, <2>5, SeedsReplaced
  <2>7. u = [t EXCEPT !.SeedDomains[d] = NULL]
    BY <1>1, <2>1, <2>5 DEF Tables
  <2> QED BY <2>6, <2>7
<1>3. PICK S, N : S = [d \in Domains |-> NULL] /\ N = [k \in Keys |-> NULL]
  OBVIOUS
<1>4. /\ S \in [Domains -> SeedDomain \cup {NULL}] /\ N \in [Keys -> Sources \cup {NULL}]
      /\ \A d \in Domains : S[d] = NULL
  BY <1>3
<1>5. SameScores(t, [t EXCEPT !.SeedDomains = S, !.SeedNodes = N])
  BY <1>4, SeedsReplaced
<1>6. SameScores(t, [t EXCEPT !.SeedDomains = S])
  <2>1. PICK u : u = [t EXCEPT !.SeedDomains = S, !.SeedNodes = t.SeedNodes]
    OBVIOUS
  <2>2. SameScores(t, u)
    BY <1>1, <1>4, <2>1, SeedsReplaced
  <2>3. u = [t EXCEPT !.SeedDomains = S]
    BY <1>1, <2>1 DEF Tables
  <2> QED BY <2>2, <2>3
<1> QED BY <1>2, <1>3, <1>5, <1>6

\* Inside any handler.
LEMMA InterruptedOK ==
    ASSUME TablesInv(db), JobsOK(jobs), NEW u \in Interrupted
    PROVE  Sound(u)
<1>1. Good(db) /\ db \in Tables
  BY DEF TablesInv, Good
<1>2. ASSUME SameScores(db, u) PROVE Sound(u)
  BY <1>1, <1>2, SameNoMore, SumKept
<1>3. ASSUME NEW j \in jobs PROVE j.file.key \in Keys
  <2>1. j.file \in Files
    BY DEF JobsOK, Job
  <2> QED BY <2>1, ConstantsAssumption
<1>4. CASE u \in {Unnoted(nodeAddPublics(db, {k}, "M"), db) : k \in Keys}
  <2>1. PICK k \in Keys : u = Unnoted(nodeAddPublics(db, {k}, "M"), db)
    BY <1>4
  <2>2. PICK v : v = nodeAddPublics(db, {k}, "M")
    OBVIOUS
  <2>3. {k} \in SUBSET Keys /\ "M" \in Sources
    BY DEF Sources
  <2>4. SameScores(db, v) /\ Good(v)
    BY <1>1, <2>2, <2>3, AddPublicsOK DEF SameScores
  <2>5. SameScores(v, u)
    BY <1>1, <2>1, <2>2, <2>4, UnnotedOK
  <2>6. SameScores(db, u)
    BY <2>4, <2>5, SameOn
  <2> QED BY <1>2, <2>6
<1>5. CASE u \in UNION {PartBootstrap(file, list) : file, list \in ValidatorLists \cup {NULL}}
  <2>1. PICK file \in ValidatorLists \cup {NULL}, list \in ValidatorLists \cup {NULL} :
            u \in PartBootstrap(file, list)
    BY <1>5
  <2>2. NoMore(db, u)
    BY <1>1, <2>1, PartBootstrapOK
  <2> QED BY <2>2, SumKept
<1>6. CASE u \in {[db EXCEPT !.SeedDomains[d] = NULL] : d \in Domains}
  BY <1>1, <1>2, <1>6, PartRemoveOK
<1>7. CASE u = [db EXCEPT !.SeedDomains = [d \in Domains |-> NULL]]
  BY <1>1, <1>2, <1>7, PartRemoveOK
<1>8. CASE u = Unnoted(SeedsDeleted, db)
  <2>1. PICK c : c = [db EXCEPT !.SeedDomains = [d \in Domains |-> NULL],
                                !.SeedNodes = [k \in Keys |-> NULL]]
    OBVIOUS
  <2>2. SameScores(db, c) /\ Good(c)
    BY <1>1, <2>1, PartRemoveOK DEF SameScores
  <2>3. PICK v : v = fetchDirty(c)
    OBVIOUS
  <2>4. SameScores(c, v) /\ Good(v)
    BY <2>2, <2>3, FetchDirtyOK DEF SameScores
  <2>5. u = Unnoted(v, db)
    BY <1>8, <2>1, <2>3 DEF SeedsDeleted
  <2>6. SameScores(v, u)
    BY <1>1, <2>4, <2>5, UnnotedOK
  <2>7. SameScores(db, v)
    BY <2>2, <2>4, SameOn
  <2>8. SameScores(db, u)
    BY <2>6, <2>7, SameOn
  <2> QED BY <1>2, <2>8
<1>9. CASE u \in UNION {PartFetch(f) : f \in Files}
  <2>1. PICK f \in Files : u \in PartFetch(f)
    BY <1>9
  <2>2. SameScores(db, u)
    BY <1>1, <2>1, PartFetchOK
  <2> QED BY <1>2, <2>2
<1>10. CASE \E j \in jobs, list \in ValidatorLists : u \in PartValidators(db, j.file.key, "V", list)
  <2>1. PICK j \in jobs, list \in ValidatorLists : u \in PartValidators(db, j.file.key, "V", list)
    BY <1>10
  <2>2. list \in Seq(Keys \cup Domains \cup {NULL}) /\ "V" \in Sources
    BY ConstantsAssumption DEF Sources
  <2>3. SameScores(db, u)
    BY <1>1, <1>3, <2>1, <2>2, PartValidatorsOK
  <2> QED BY <1>2, <2>3
<1>11. CASE \E j \in jobs, list \in IpLists : u \in PartIps(db, j.file.key, list)
  <2>1. PICK j \in jobs, list \in IpLists : u \in PartIps(db, j.file.key, list)
    BY <1>11
  <2>2. list \in Seq(Ips \cup {NULL})
    BY ConstantsAssumption
  <2>3. SameScores(db, u)
    BY <1>1, <1>3, <2>1, <2>2, PartIpsOK
  <2> QED BY <1>2, <2>3
<1>12. CASE u \in {Unnoted(StoreScores(db, score), db) : score \in ScoreOutcomes(db)}
  <2>1. PICK score \in ScoreOutcomes(db) : u = Unnoted(StoreScores(db, score), db)
    BY <1>12
  <2>2. Found(db, score)
    BY <1>1, OutcomeOK
  <2>3. PICK v : v = StoreScores(db, score)
    OBVIOUS
  <2>4. TablesInv(v) /\ Good(v)
    BY <1>1, <2>2, <2>3, StoreOK DEF TablesInv
  <2>5. SameScores(v, u)
    BY <1>1, <2>1, <2>3, <2>4, UnnotedOK
  <2> QED BY <2>4, <2>5, SameNoMore, SumKept
<1> QED BY SMTT(40), <1>4, <1>5, <1>6, <1>7, <1>8, <1>9, <1>10, <1>11, <1>12 DEF Interrupted

\* Tables that are torn owe nothing to their seeds before they are scored.
LEMMA TornOK ==
    ASSUME TablesInv(db), JobsOK(jobs), NEW t \in Interrupted
    PROVE  TablesInv([t EXCEPT !.torn = @ \/ t # db])
<1>1. PICK u : u = [t EXCEPT !.torn = @ \/ t # db]
  OBVIOUS
<1>2. CASE t = db
  <2>1. t \in Tables
    BY <1>2 DEF TablesInv, Good
  <2>2. t.torn \in BOOLEAN
    BY <2>1 DEF Tables
  <2>3. (t.torn \/ t # db) = t.torn
    BY <1>2, <2>2
  <2>4. u = [t EXCEPT !.torn = t.torn]
    BY <1>1, <2>3
  <2>5. u = t
    BY <2>1, <2>4 DEF Tables
  <2> QED BY <1>1, <1>2, <2>5
<1>3. CASE t # db
  <2>1. Sound(t)
    BY <1>3, InterruptedOK
  <2>2. t \in Tables /\ KeysOfFiles(t)
    BY <2>1 DEF Sound, Good
  <2>3. (t.torn \/ t # db) = TRUE
    BY <1>3
  <2>4. u = [t EXCEPT !.torn = TRUE]
    BY <1>1, <2>3
  <2>5. /\ u \in Tables /\ u.SeedDomains = t.SeedDomains /\ u.torn = TRUE
        /\ u.TrustedNodes = t.TrustedNodes /\ u.IpScore = t.IpScore
    BY <2>2, <2>4 DEF Tables
  <2>6. Good(u) /\ Stored(u) = Stored(t)
    BY <2>2, <2>5 DEF Good, KeysOfFiles, Stored, ScoreOf
  <2> QED BY <1>1, <2>1, <2>5, <2>6 DEF TablesInv, Sound
<1> QED BY <1>2, <1>3

-------------------------------------------------------------------------------
(* The actions.                                                            *)

\* A request is one of these.
LEMMA RequestOK ==
    ASSUME ScoreInv, NEW t, After(db, t), Request(t)
    PROVE  ScoreInv'
<1>1. ops' \in 0..MaxOps
  BY ConstantsAssumption DEF ScoreInv, Request
<1>2. After(db, db') /\ mUNL' = mUNL /\ up' = up /\ JobsOK(jobs')
  BY DEF ScoreInv, Request
<1> QED BY <1>1, <1>2, Changed

\* A handler of a job is another.
LEMMA HandleOK ==
    ASSUME ScoreInv, NEW t, After(db, t), NEW J, JobsOK(J), Handle(t, J)
    PROVE  ScoreInv'
<1>1. ops' \in 0..MaxOps
  BY DEF ScoreInv, Handle
<1>2. After(db, db') /\ mUNL' = mUNL /\ up' = up /\ JobsOK(jobs')
  BY DEF Handle
<1> QED BY <1>1, <1>2, Changed

\* Tables that are right are after themselves.
LEMMA ItselfAfter ==
    ASSUME NEW t, Good(t)
    PROVE  After(t, t)
<1>1. SameScores(t, t)
  BY DEF SameScores
<1> QED BY <1>1, SameAfter

\* scoreCompute.
LEMMA ComputeOK ==
    ASSUME ScoreInv, scoreCompute, UNCHANGED <<jobs, up>>, ops' \in 0..MaxOps
    PROVE  ScoreInv'
<1>1. PICK score \in ScoreOutcomes(db) : db' = StoreScores(db, score) /\ mUNL' = Nodes(db)
  BY DEF scoreCompute
<1>2. PICK t, u : t = db /\ u = db'
  OBVIOUS
<1>3. Good(t) /\ t \in Tables
  BY <1>2 DEF ScoreInv, TablesInv, Good
<1>4. Found(t, score)
  BY <1>1, <1>2, <1>3, OutcomeOK
<1>5. u = StoreScores(t, score)
  BY <1>1, <1>2
<1>6. /\ TablesInv(u) /\ ~u.dirty /\ ~u.torn /\ Nodes(u) = Nodes(t)
      /\ \A k \in Keys : ScoreOf(u, k) > 0 => k \in Nodes(t)
      /\ \A k \in Nodes(t) : u.TrustedNodes[k] # NULL
  BY <1>3, <1>4, <1>5, StoreOK
<1>7. Nodes(t) \subseteq Keys
  BY NodesOK DEF Least
<1>8. TablesInv(db')
  BY <1>2, <1>6
<1>9. /\ mUNL' \subseteq Keys /\ mUNL' = Nodes(db')
      /\ \A k \in Keys : ScoreOf(db', k) > 0 => k \in mUNL'
      /\ \A k \in mUNL' : db'.TrustedNodes[k] # NULL
  BY <1>1, <1>2, <1>6, <1>7
<1>10. ListInv'
  BY <1>9 DEF ListInv
<1>11. JobsOK(jobs') /\ up' \in BOOLEAN
  BY DEF ScoreInv
<1> QED BY <1>8, <1>10, <1>11 DEF ScoreInv

\* Every step keeps the invariant.
LEMMA NextOK ==
    ASSUME ScoreInv, [Next]_vars
    PROVE  ScoreInv'
<1>1. Good(db) /\ TablesInv(db) /\ JobsOK(jobs)
  BY DEF ScoreInv, TablesInv
<1>2. MaxOps \in Nat /\ ops \in 0..MaxOps
  BY ConstantsAssumption DEF ScoreInv
<1>3. CASE trustedLoad
  <2>1. db' = db /\ jobs' = jobs /\ ops' = ops /\ up' = TRUE
    BY <1>3 DEF trustedLoad
  <2>2. PICK t : t = db
    OBVIOUS
  <2>3. t.TrustedNodes \in [Keys -> Nat \cup {NULL}]
    BY <1>1, <2>2 DEF Good, Tables
  <2>4. \A k \in Keys : t.TrustedNodes[k] \notin {NULL, 0} <=> ScoreOf(t, k) > 0
    BY <2>3 DEF ScoreOf
  <2>5. mUNL' = {k \in Keys : ScoreOf(t, k) > 0}
    BY <1>3, <2>2, <2>4 DEF trustedLoad
  <2>6. \A k \in mUNL' : t.TrustedNodes[k] # NULL
    BY <2>5 DEF ScoreOf
  <2>7. ~t.dirty /\ ~t.torn => mUNL' \subseteq Nodes(t)
    BY <1>1, <2>2, <2>5 DEF TablesInv, Scored
  <2>8. ListInv'
    BY <2>1, <2>2, <2>5, <2>6, <2>7 DEF ListInv
  <2> QED BY <1>1, <1>2, <2>1, <2>8 DEF ScoreInv
<1>4. CASE Crash
  <2>1. ops' \in 0..MaxOps
    <3>1. ops < MaxOps /\ (ops' = ops + 1 \/ (ops + 1 < MaxOps /\ ops' = ops + 2))
      BY <1>4 DEF Crash
    <3> QED BY <1>2, <3>1
  <2>2. mUNL' = {} /\ jobs' = {} /\ up' = FALSE
    BY <1>4 DEF Crash
  <2>3. JobsOK(jobs')
    BY <2>2, FS_EmptySet, ConstantsAssumption DEF JobsOK
  <2>4. ListInv'
    BY <2>2 DEF ListInv
  <2>5. TablesInv(db')
    <3>1. CASE db' = db
      BY <1>1, <3>1
    <3>2. CASE \E t \in Interrupted : db' = [t EXCEPT !.torn = @ \/ t # db]
      <4>1. PICK t \in Interrupted : db' = [t EXCEPT !.torn = @ \/ t # db]
        BY <3>2
      <4> QED BY <1>1, <4>1, TornOK
    <3> QED BY <1>4, <3>1, <3>2 DEF Crash
  <2> QED BY <2>1, <2>2, <2>3, <2>4, <2>5 DEF ScoreInv
<1>5. CASE \E d \in Domains : nodeAddDomain(d)
  <2>1. PICK d \in Domains : nodeAddDomain(d)
    BY <1>5
  <2>2. After(db, nodeAddDomains(db, {d}, "M"))
    BY <1>1, AddDomainAfter
  <2> QED BY <2>1, <2>2, RequestOK DEF nodeAddDomain
<1>6. CASE \E k \in Keys : nodeAddPublic(k)
  <2>1. PICK k \in Keys : nodeAddPublic(k)
    BY <1>6
  <2>2. PICK u : u = nodeAddPublics(db, {k}, "M")
    OBVIOUS
  <2>3. {k} \in SUBSET Keys /\ "M" \in Sources
    BY DEF Sources
  <2>4. SameScores(db, u) /\ (u.dirty \/ u = db)
    BY <1>1, <2>2, <2>3, AddPublicsOK
  <2>5. After(db, u)
    BY <1>1, <2>4, SameAfter
  <2>6. Request(u)
    BY <2>1, <2>2 DEF nodeAddPublic
  <2> QED BY <2>5, <2>6, RequestOK
<1>7. CASE \E list \in ValidatorLists : nodeProcess(list)
  <2>1. PICK list \in ValidatorLists : nodeProcess(list)
    BY <1>7
  <2>2. PICK u : u = OwnList(db, "V", list)
    OBVIOUS
  <2>3. "V" \in Sources
    BY DEF Sources
  <2>4. SameScores(db, u) /\ (u.dirty \/ u = db)
    BY <1>1, <2>2, <2>3, OwnListOK
  <2>5. After(db, u)
    BY <1>1, <2>4, SameAfter
  <2>6. Request(u)
    BY <2>1, <2>2 DEF nodeProcess
  <2> QED BY <2>5, <2>6, RequestOK
<1>8. CASE \E file, list \in ValidatorLists \cup {NULL} : nodeBootstrap(file, list)
  <2>1. PICK file \in ValidatorLists \cup {NULL}, list \in ValidatorLists \cup {NULL} :
            nodeBootstrap(file, list)
    BY <1>8
  <2>2. PICK v : v = OwnList(OwnList(db, "V", file), "C", list)
    OBVIOUS
  <2>3. PICK u : u = IpsReplaced(v)
    OBVIOUS
  <2>4. After(db, u)
    BY <1>1, <2>2, <2>3, BootstrapAfter
  <2>5. Request(u)
    BY <2>1, <2>2, <2>3 DEF nodeBootstrap
  <2> QED BY <2>4, <2>5, RequestOK
<1>9. CASE nodeRemovePublic
  <2>1. SameScores(db, fetchDirty(db)) /\ fetchDirty(db).dirty
    BY <1>1, FetchDirtyOK
  <2>2. After(db, fetchDirty(db))
    BY <1>1, <2>1, SameAfter
  <2> QED BY <1>9, <2>2, RequestOK DEF nodeRemovePublic
<1>10. CASE \E d \in Domains : nodeRemoveDomain(d)
  <2>1. PICK d \in Domains : nodeRemoveDomain(d)
    BY <1>10
  <2>2. PICK u : u = fetchDirty([db EXCEPT !.SeedDomains[d] = NULL])
    OBVIOUS
  <2>3. After(db, u)
    BY <1>1, <2>2, RemoveDomainAfter
  <2>4. Request(u)
    BY <2>1, <2>2 DEF nodeRemoveDomain
  <2> QED BY <2>3, <2>4, RequestOK
<1>11. CASE nodeReset
  <2>1. PICK u : u = fetchDirty([db EXCEPT !.SeedDomains = [d \in Domains |-> NULL],
                                           !.SeedNodes = [k \in Keys |-> NULL]])
    OBVIOUS
  <2>2. After(db, u)
    BY <1>1, <2>1, ResetAfter
  <2>3. Request(u)
    BY <1>11, <2>1 DEF nodeReset, SeedsDeleted
  <2> QED BY <2>2, <2>3, RequestOK
<1>12. CASE \E f \in Files : responseFetch(f)
  <2>1. PICK f \in Files : responseFetch(f)
    BY <1>12
  <2>2. PICK t : t = WithFile(db, f)
    OBVIOUS
  <2>3. PICK u : u = processIps(processValidators(t, f.key, "R", f.validators), f.key, f.ips)
    OBVIOUS
  <2>4. PICK job : job = [file |-> f, n |-> FreshNumber(f), phase |-> "validators"]
    OBVIOUS
  <2>5. PICK J : J = jobs \cup getValidatorsUrl(job)
    OBVIOUS
  <2>6. /\ db.SeedDomains[f.domain] # NULL /\ Cardinality(jobs) < FetchJobs
        /\ IF db.SeedDomains[f.domain].Sha256 = f THEN Handle(t, jobs) ELSE Handle(u, J)
    BY <2>1, <2>2, <2>3, <2>4, <2>5 DEF responseFetch, Fetchable, FileStored, WithFile
  <2>7. CASE db.SeedDomains[f.domain].Sha256 = f
    <3>1. t = db
      BY <1>1, <2>2, <2>6, <2>7, FileTaken
    <3>2. After(db, t)
      BY <1>1, <3>1, ItselfAfter
    <3> QED BY <1>1, <2>6, <2>7, <3>2, HandleOK
  <2>8. CASE db.SeedDomains[f.domain].Sha256 # f
    <3>1. After(db, u)
      BY <1>1, <2>2, <2>3, <2>6, FileAfter
    <3>2. job \in Job
      <4>1. FreshNumber(f) \in 1..FetchJobs
        BY <1>1, <2>6, FreshNumberOK
      <4> QED BY <2>4, <4>1 DEF Job
    <3>3. JobsOK(J)
      BY <1>1, <2>5, <2>6, <3>2, JobBegins
    <3> QED BY <2>6, <2>8, <3>1, <3>3, HandleOK
  <2> QED BY <2>7, <2>8
<1>13. CASE \E j \in jobs, list \in ValidatorLists \cup {NULL} : responseValidators(j, list)
  <2>1. PICK j \in jobs, list \in ValidatorLists \cup {NULL} : responseValidators(j, list)
    BY <1>13
  <2>2. PICK J : J = (jobs \ {j}) \cup getIpsUrl(j)
    OBVIOUS
  <2>3. JobsOK(J)
    BY <1>1, <2>2, JobGoesOn
  <2>4. PICK u : u = IF list = NULL THEN db ELSE processValidators(db, j.file.key, "V", list)
    OBVIOUS
  <2>5. After(db, u)
    <3>1. CASE list = NULL
      BY <1>1, <2>4, <3>1, ItselfAfter
    <3>2. CASE list # NULL
      <4>1. j.file.key \in Keys
        <5>1. j.file \in Files
          BY <1>1 DEF JobsOK, Job
        <5> QED BY <5>1, ConstantsAssumption
      <4>2. "V" \in Sources /\ list \in Seq(Keys \cup Domains \cup {NULL})
        BY <3>2, ConstantsAssumption DEF Sources
      <4>3. u = processValidators(db, j.file.key, "V", list)
        BY <2>4, <3>2
      <4>4. SameScores(db, u) /\ u.dirty
        BY <1>1, <4>1, <4>2, <4>3, ProcessValidatorsOK
      <4> QED BY <1>1, <4>4, SameAfter
    <3> QED BY <3>1, <3>2
  <2>6. Handle(u, J)
    BY <2>1, <2>2, <2>4 DEF responseValidators
  <2> QED BY <2>3, <2>5, <2>6, HandleOK
<1>14. CASE \E j \in jobs, list \in IpLists \cup {NULL} : responseIps(j, list)
  <2>1. PICK j \in jobs, list \in IpLists \cup {NULL} : responseIps(j, list)
    BY <1>14
  <2>2. PICK J : J = jobs \ {j}
    OBVIOUS
  <2>3. JobsOK(J)
    BY <1>1, <2>2, JobGoesOn
  <2>4. PICK u : u = IF list = NULL THEN db ELSE processIps(db, j.file.key, list)
    OBVIOUS
  <2>5. After(db, u)
    <3>1. CASE list = NULL
      BY <1>1, <2>4, <3>1, ItselfAfter
    <3>2. CASE list # NULL
      <4>1. j.file.key \in Keys
        <5>1. j.file \in Files
          BY <1>1 DEF JobsOK, Job
        <5> QED BY <5>1, ConstantsAssumption
      <4>2. list \in Seq(Ips \cup {NULL})
        BY <3>2, ConstantsAssumption
      <4>3. u = processIps(db, j.file.key, list)
        BY <2>4, <3>2
      <4>4. SameScores(db, u) /\ u.dirty
        BY <1>1, <4>1, <4>2, <4>3, ProcessIpsOK
      <4> QED BY <1>1, <4>4, SameAfter
    <3> QED BY <3>1, <3>2
  <2>6. Handle(u, J)
    BY <2>1, <2>2, <2>4 DEF responseIps
  <2> QED BY <2>3, <2>5, <2>6, HandleOK
<1>15. CASE scoreTimerHandler
  BY <1>2, <1>15, ComputeOK DEF scoreTimerHandler
<1>16. CASE nodeScore
  <2>1. ops' \in 0..MaxOps
    BY <1>2, <1>16 DEF nodeScore
  <2> QED BY <1>16, <2>1, ComputeOK DEF nodeScore
<1>17. CASE UNCHANGED vars
  <2>1. db' = db /\ mUNL' = mUNL /\ jobs' = jobs /\ up' = up /\ ops' = ops
    BY <1>17 DEF vars
  <2>2. After(db, db')
    BY <1>1, <2>1, ItselfAfter
  <2> QED BY <1>1, <1>2, <2>1, <2>2, Changed
<1> QED BY <1>3, <1>4, <1>5, <1>6, <1>7, <1>8, <1>9, <1>10, <1>11, <1>12, <1>13, <1>14,
           <1>15, <1>16, <1>17 DEF Next

-------------------------------------------------------------------------------
(* What it says.                                                           *)

\* The tables keep the invariant whatever files, lists, requests and crashes
\* come, in whatever order, and between whichever statements of a handler the
\* process is killed.
THEOREM ScoreInvariant == Spec => []ScoreInv
<1>1. Init => ScoreInv
  BY InitOK
<1>2. ScoreInv /\ [Next]_vars => ScoreInv'
  BY NextOK
<1> QED BY <1>1, <1>2, PTL DEF Spec

\* The points of a node, as the properties name them.
LEMMA ScoreIs ==
    \A k : Score(k) = ScoreOf(db, k)
BY DEF Score, ScoreOf

\* Trust has a source: once updates are scored, those of tables that a kill
\* left half changed included, no node has points, no address has points and
\* no node is in mUNL that today's seeds do not lead to (scoreCompute,
\* nodeReset, nodeRemoveDomain, responseFetch, trustedLoad).
THEOREM TrustIsSourced == Spec => []TrustHasSource
<1>1. ScoreInv => TrustHasSource
  <2>1. SUFFICES ASSUME ScoreInv PROVE TrustHasSource
    OBVIOUS
  <2>2. TypeOK
    BY <2>1 DEF ScoreInv, TablesInv, Good, ListInv, JobsOK, TypeOK
  <2>3. UpToDate => Scored(db) /\ mUNL \subseteq Nodes(db)
    BY <2>1 DEF ScoreInv, TablesInv, ListInv, UpToDate
  <2> QED BY <2>2, <2>3, ScoreIs DEF Scored, TrustHasSource
<1> QED BY <1>1, ScoreInvariant, PTL

\* Points are handed on and never made, however nodes refer to each other
\* (scoreRound, scoreCompute, nodeBootstrap).
THEOREM TrustIsBounded == Spec => []TrustBounded
<1>1. ScoreInv => TrustBounded
  <2>1. SUFFICES ASSUME ScoreInv PROVE TrustBounded
    OBVIOUS
  <2>2. [k \in Keys |-> Score(k)] = Stored(db) /\ DOMAIN Stored(db) = Keys
    BY ScoreIs DEF Stored
  <2>3. [k \in Keys |-> SeedScore(db, k)] = Start(db) /\ DOMAIN Start(db) = Keys
    BY DEF Start
  <2>4. DOMAIN db.IpScore = Ips
    BY <2>1 DEF ScoreInv, TablesInv, Good, Tables
  <2>5. /\ SumFunction([k \in Keys |-> Score(k)]) = SumFunctionOnSet(Stored(db), Keys)
        /\ SumFunction([k \in Keys |-> SeedScore(db, k)]) = SumFunctionOnSet(Start(db), Keys)
        /\ SumFunction(db.IpScore) = SumFunctionOnSet(db.IpScore, Ips)
    BY <2>2, <2>3, <2>4 DEF SumFunction
  <2> QED BY <2>1, <2>5 DEF ScoreInv, TablesInv, Scored, UpToDate, TrustBounded
<1> QED BY <1>1, ScoreInvariant, PTL

\* Once updates are scored, every seed is listed and has at least the points
\* of its own row, though adding a domain marks nothing as old, and a kill
\* can fall between the seed's row and the note of the update (setSeedNodes,
\* nodeAddDomain, scoreCompute).
THEOREM SeedsAreScored == Spec => []SeedsScored
<1>1. ScoreInv => SeedsScored
  BY ScoreIs DEF ScoreInv, TablesInv, Scored, UpToDate, SeedsScored
<1> QED BY <1>1, ScoreInvariant, PTL

\* The list in memory and the stored one agree on the nodes that have points,
\* also after a crash (trustedLoad, scoreCompute).
THEOREM UNLIsRemembered == Spec => []UNLRemembered
<1>1. ScoreInv => UNLRemembered
  <2>1. SUFFICES ASSUME ScoreInv, up PROVE
            /\ \A k \in Keys : Score(k) > 0 => k \in mUNL
            /\ \A k \in mUNL : k \in Keys /\ db.TrustedNodes[k] # NULL
    BY DEF UNLRemembered
  <2> QED BY <2>1, ScoreIs DEF ScoreInv, ListInv
<1> QED BY <1>1, ScoreInvariant, PTL
===============================================================================
