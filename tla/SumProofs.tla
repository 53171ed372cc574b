----------------------------- MODULE SumProofs -----------------------------
(***************************************************************************)
(* Sums over finite sets: what MapThenSumSet of the community modules      *)
(* computes, by induction over the set.  The induction hypothesis is a     *)
(* set, so that no theorem with an operator parameter is needed.  The last *)
(* parts are about dividing whole numbers and sharing them out, and about  *)
(* what the roundings of the parts of a bill add up to.                    *)
(***************************************************************************)
EXTENDS Integers, FiniteSetsExt, TLAPS, FiniteSetTheorems, WellFoundedInduction

\* the sum of h over S
Total(S, h) == MapThenSumSet(LAMBDA x : h[x], S)

\* g is the recursive function whose value at S is that sum
Chosen(s) == CHOOSE x \in s : TRUE
SumsUp(S, h, g) == g = [s \in SUBSET S |-> IF s = {} THEN 0 ELSE h[Chosen(s)] + g[s \ {Chosen(s)}]]

\* Every nonempty set of natural numbers has a least element.
LEMMA LeastOf ==
    ASSUME NEW T \in SUBSET Nat, T # {}
    PROVE  \E n \in T : \A m \in T : n <= m
<1>1. PICK R : R = OpToRel(<, Nat)
  OBVIOUS
<1>2. PICK n \in T : \A m \in T : ~(<<m, n>> \in R)
  BY <1>1, NatLessThanWellFounded, WFMin
<1>3. R = {ss \in Nat \X Nat : ss[1] < ss[2]}
  BY <1>1, Zenon DEF OpToRel
<1>4. ASSUME NEW m \in T, ~(n <= m) PROVE FALSE
  <2>1. m \in Nat /\ n \in Nat /\ m < n
    BY <1>4
  <2>2. <<m, n>> \in R
    BY <1>3, <2>1
  <2>3. QED
    BY <1>2, <2>2
<1>5. QED
  BY <1>4

\* Induction over the subsets of a finite set, the hypothesis given as a set.
LEMMA SubsetInduction ==
    ASSUME NEW S, IsFiniteSet(S), NEW G,
           \A T \in SUBSET S : (\A x \in T : T \ {x} \in G) => T \in G
    PROVE  \A T \in SUBSET S : T \in G
<1> SUFFICES ASSUME NEW T0 \in SUBSET S, T0 \notin G PROVE FALSE
  OBVIOUS
<1>1. PICK W : W = {n \in Nat : \E T \in SUBSET S : T \notin G /\ Cardinality(T) = n}
  OBVIOUS
<1>2. \A T \in SUBSET S : IsFiniteSet(T) /\ Cardinality(T) \in Nat
  BY FS_Subset, FS_CardinalityType
<1>3. W \in SUBSET Nat /\ W # {}
  BY <1>1, <1>2
<1>4. PICK n \in W : \A m \in W : n <= m
  BY <1>3, LeastOf
<1>5. PICK T \in SUBSET S : T \notin G /\ Cardinality(T) = n
  BY <1>1
<1>6. ASSUME NEW x \in T PROVE T \ {x} \in G
  <2>1. T \ {x} \in SUBSET S /\ Cardinality(T \ {x}) = Cardinality(T) - 1
    BY <1>2, FS_RemoveElement
  <2>2. Cardinality(T \ {x}) \in Nat /\ ~(n <= Cardinality(T \ {x}))
    BY <1>2, <1>5, <2>1
  <2>3. QED
    BY <1>1, <1>4, <2>1, <2>2
<1>7. QED
  BY <1>5, <1>6

\* Two such functions agree where both are defined.
LEMMA SumUnique ==
    ASSUME NEW S, NEW T, NEW h, NEW g1, NEW g2, SumsUp(S, h, g1), SumsUp(T, h, g2),
           NEW U, IsFiniteSet(U), U \subseteq S, U \subseteq T
    PROVE  g1[U] = g2[U]
<1>1. PICK G : G = {V \in SUBSET U : g1[V] = g2[V]}
  OBVIOUS
<1>2. ASSUME NEW V \in SUBSET U, \A x \in V : V \ {x} \in G PROVE V \in G
  <2>1. V \in SUBSET S /\ V \in SUBSET T
    OBVIOUS
  <2>2. CASE V = {}
    BY <1>1, <2>1, <2>2 DEF SumsUp
  <2>3. CASE V # {}
    <3>1. Chosen(V) \in V
      BY <2>3 DEF Chosen
    <3>2. g1[V \ {Chosen(V)}] = g2[V \ {Chosen(V)}]
      BY <1>1, <1>2, <3>1
    <3>3. g1[V] = h[Chosen(V)] + g1[V \ {Chosen(V)}] /\ g2[V] = h[Chosen(V)] + g2[V \ {Chosen(V)}]
      BY <2>1, <2>3 DEF SumsUp
    <3>4. QED
      BY <1>1, <3>2, <3>3
  <2>4. QED
    BY <2>2, <2>3
<1>3. \A V \in SUBSET U : (\A x \in V : V \ {x} \in G) => V \in G
  BY <1>2
<1>4. \A V \in SUBSET U : V \in G
  BY <1>3, SubsetInduction
<1>5. QED
  BY <1>1, <1>4

\* A sum is the value of its recursive function, when there is one.
LEMMA TotalIs ==
    ASSUME NEW S, NEW h, IsFiniteSet(S), NEW g, SumsUp(S, h, g)
    PROVE  Total(S, h) = g[S]
<1>1. Total(S, h) = (CHOOSE f : SumsUp(S, h, f))[S]
  BY DEF Total, MapThenSumSet, MapThenFoldSet, SumsUp, Chosen
<1>2. PICK f : f = CHOOSE e : SumsUp(S, h, e)
  OBVIOUS
<1>3. SumsUp(S, h, f)
  BY <1>2
<1>4. f[S] = g[S]
  BY <1>3, SumUnique
<1>5. QED
  BY <1>1, <1>2, <1>4

\* There is one for every finite set.
LEMMA SumExists ==
    ASSUME NEW S, NEW h, IsFiniteSet(S)
    PROVE  \E g : SumsUp(S, h, g)
<1>1. PICK G : G = {T \in SUBSET S : \A U \in SUBSET T : \E g : SumsUp(U, h, g)}
  OBVIOUS
<1>2. ASSUME NEW T \in SUBSET S, \A x \in T : T \ {x} \in G PROVE T \in G
  <2>1. ASSUME NEW U \in SUBSET T, U # T PROVE \E g : SumsUp(U, h, g)
    <3>1. PICK x \in T : x \notin U
      BY <2>1
    <3>2. U \in SUBSET (T \ {x}) /\ T \ {x} \in G
      BY <1>2, <3>1
    <3>3. QED
      BY <1>1, <3>2
  <2>2. PICK g : g = [U \in SUBSET T |-> IF U = {} THEN 0 ELSE h[Chosen(U)] + Total(U \ {Chosen(U)}, h)]
    OBVIOUS
  <2>3. ASSUME NEW U \in SUBSET T, U # T PROVE Total(U, h) = g[U]
    <3>1. IsFiniteSet(U)
      BY FS_Subset
    <3>2. PICK p : SumsUp(U, h, p)
      BY <2>1, <2>3
    <3>3. Total(U, h) = p[U]
      BY <3>1, <3>2, TotalIs
    <3>4. CASE U = {}
      BY <2>2, <3>2, <3>3, <3>4 DEF SumsUp
    <3>5. CASE U # {}
      <4>1. Chosen(U) \in U
        BY <3>5 DEF Chosen
      <4>2. PICK V \in SUBSET T : V = U \ {Chosen(U)} /\ V # T /\ V \subseteq U
        BY <2>3, <4>1
      <4>3. PICK q : SumsUp(V, h, q)
        BY <2>1, <4>2
      <4>4. IsFiniteSet(V)
        BY FS_Subset
      <4>5. Total(V, h) = q[V] /\ p[V] = q[V]
        BY <3>2, <4>2, <4>3, <4>4, TotalIs, SumUnique
      <4>6. p[U] = h[Chosen(U)] + p[V]
        BY <3>2, <3>5, <4>2 DEF SumsUp
      <4>7. g[U] = h[Chosen(U)] + Total(V, h)
        BY <2>2, <3>5, <4>2
      <4>8. QED
        BY <3>3, <4>5, <4>6, <4>7
    <3>6. QED
      BY <3>4, <3>5
  <2>4. ASSUME NEW U \in SUBSET T, U # {} PROVE Total(U \ {Chosen(U)}, h) = g[U \ {Chosen(U)}]
    <3>1. Chosen(U) \in U
      BY <2>4 DEF Chosen
    <3>2. U \ {Chosen(U)} \in SUBSET T /\ U \ {Chosen(U)} # T
      BY <3>1
    <3>3. QED
      BY <2>3, <3>2
  <2>5. SumsUp(T, h, g)
    <3>1. \A U \in SUBSET T : g[U] = IF U = {} THEN 0 ELSE h[Chosen(U)] + g[U \ {Chosen(U)}]
      BY <2>2, <2>4
    <3>2. g = [U \in SUBSET T |-> g[U]]
      BY <2>2
    <3>3. QED
      BY <3>1, <3>2 DEF SumsUp
  <2>6. QED
    BY <1>1, <2>1, <2>5
<1>3. S \in G
  BY <1>2, SubsetInduction
<1>4. QED
  BY <1>1, <1>3

\* The sum over the empty set is zero, and any other takes one element off.
LEMMA TotalStep ==
    ASSUME NEW S, NEW h, IsFiniteSet(S)
    PROVE  /\ S = {} => Total(S, h) = 0
           /\ S # {} => Chosen(S) \in S /\ Total(S, h) = h[Chosen(S)] + Total(S \ {Chosen(S)}, h)
<1>1. PICK g : SumsUp(S, h, g)
  BY SumExists
<1>2. Total(S, h) = g[S]
  BY <1>1, TotalIs
<1>3. S \in SUBSET S
  OBVIOUS
<1>4. CASE S = {}
  BY <1>1, <1>2, <1>3, <1>4 DEF SumsUp
<1>5. CASE S # {}
  <2>1. Chosen(S) \in S
    BY <1>5 DEF Chosen
  <2>2. PICK V \in SUBSET S : V = S \ {Chosen(S)}
    OBVIOUS
  <2>3. IsFiniteSet(V)
    BY FS_Subset
  <2>4. PICK q : SumsUp(V, h, q)
    BY <2>3, SumExists
  <2>5. Total(V, h) = q[V] /\ g[V] = q[V]
    BY <1>1, <2>3, <2>4, TotalIs, SumUnique
  <2>6. g[S] = h[Chosen(S)] + g[V]
    BY <1>1, <1>3, <1>5, <2>2 DEF SumsUp
  <2>7. QED
    BY <1>2, <1>5, <2>1, <2>2, <2>5, <2>6
<1>6. QED
  BY <1>4, <1>5

\* Sums of integers are integers, sums of natural numbers natural.
LEMMA TotalType ==
    ASSUME NEW S, NEW h, IsFiniteSet(S)
    PROVE  /\ (\A x \in S : h[x] \in Int) => Total(S, h) \in Int
           /\ (\A x \in S : h[x] \in Nat) => Total(S, h) \in Nat
<1>1. ASSUME NEW N, N \in {Int, Nat}, \A x \in S : h[x] \in N PROVE Total(S, h) \in N
  <2>1. PICK G : G = {T \in SUBSET S : Total(T, h) \in N}
    OBVIOUS
  <2>2. \A a, b \in N : a + b \in N
    BY <1>1
  <2>3. 0 \in N
    BY <1>1
  <2>4. ASSUME NEW T \in SUBSET S, \A x \in T : T \ {x} \in G PROVE T \in G
    <3>1. IsFiniteSet(T)
      BY FS_Subset
    <3>2. CASE T = {}
      BY <2>1, <2>3, <3>1, <3>2, TotalStep
    <3>3. CASE T # {}
      <4>1. Chosen(T) \in T /\ Total(T, h) = h[Chosen(T)] + Total(T \ {Chosen(T)}, h)
        BY <3>1, <3>3, TotalStep
      <4>2. h[Chosen(T)] \in N /\ Total(T \ {Chosen(T)}, h) \in N
        BY <1>1, <2>1, <2>4, <4>1
      <4>3. QED
        BY <2>1, <2>2, <4>1, <4>2
    <3>4. QED
      BY <3>2, <3>3
  <2>5. \A T \in SUBSET S : (\A x \in T : T \ {x} \in G) => T \in G
    BY <2>4
  <2>6. \A T \in SUBSET S : T \in G
    BY <2>5, SubsetInduction
  <2>7. QED
    BY <2>1, <2>6
<1>2. QED
  BY <1>1

\* A sum depends on the values over its set only.
LEMMA TotalSame ==
    ASSUME NEW S, NEW h1, NEW h2, IsFiniteSet(S), \A x \in S : h1[x] = h2[x]
    PROVE  Total(S, h1) = Total(S, h2)
<1>1. PICK G : G = {T \in SUBSET S : Total(T, h1) = Total(T, h2)}
  OBVIOUS
<1>2. ASSUME NEW T \in SUBSET S, \A x \in T : T \ {x} \in G PROVE T \in G
  <2>1. IsFiniteSet(T)
    BY FS_Subset
  <2>2. CASE T = {}
    BY <1>1, <2>1, <2>2, TotalStep
  <2>3. CASE T # {}
    <3>1. /\ Chosen(T) \in T /\ Total(T, h1) = h1[Chosen(T)] + Total(T \ {Chosen(T)}, h1)
          /\ Total(T, h2) = h2[Chosen(T)] + Total(T \ {Chosen(T)}, h2)
      BY <2>1, <2>3, TotalStep
    <3>2. Total(T \ {Chosen(T)}, h1) = Total(T \ {Chosen(T)}, h2) /\ h1[Chosen(T)] = h2[Chosen(T)]
      BY <1>1, <1>2, <3>1
    <3>3. QED
      BY <1>1, <3>1, <3>2
  <2>4. QED
    BY <2>2, <2>3
<1>3. \A T \in SUBSET S : (\A x \in T : T \ {x} \in G) => T \in G
  BY <1>2
<1>4. \A T \in SUBSET S : T \in G
  BY <1>3, SubsetInduction
<1>5. QED
  BY <1>1, <1>4

\* Whichever element is taken off, the rest of the sum is the same.
LEMMA TotalRemove ==
    ASSUME NEW S, NEW h, IsFiniteSet(S), \A x \in S : h[x] \in Int, NEW y \in S
    PROVE  Total(S, h) = h[y] + Total(S \ {y}, h)
<1>1. PICK G : G = {T \in SUBSET S : \A z \in T : Total(T, h) = h[z] + Total(T \ {z}, h)}
  OBVIOUS
<1>2. ASSUME NEW T \in SUBSET S, \A x \in T : T \ {x} \in G PROVE T \in G
  <2>1. IsFiniteSet(T)
    BY FS_Subset
  <2>2. ASSUME NEW z \in T PROVE Total(T, h) = h[z] + Total(T \ {z}, h)
    <3>1. PICK a \in T : a = Chosen(T) /\ Total(T, h) = h[a] + Total(T \ {a}, h)
      BY <2>1, TotalStep
    <3>2. CASE a = z
      BY <3>1, <3>2
    <3>3. CASE a # z
      <4>1. PICK A \in SUBSET S : A = T \ {a} /\ z \in A
        BY <3>3
      <4>2. PICK Z \in SUBSET S : Z = T \ {z} /\ a \in Z
        BY <3>3
      <4>3. PICK B \in SUBSET S : B = T \ {a, z} /\ B = A \ {z} /\ B = Z \ {a}
        BY <4>1, <4>2
      <4>4. A \in G /\ Z \in G
        BY <1>2, <4>1, <4>2
      <4>5. Total(A, h) = h[z] + Total(B, h) /\ Total(Z, h) = h[a] + Total(B, h)
        BY <1>1, <4>1, <4>2, <4>3, <4>4
      <4>6. IsFiniteSet(B)
        BY FS_Subset
      <4>7. Total(B, h) \in Int /\ h[a] \in Int /\ h[z] \in Int
        <5>1. \A x \in B : h[x] \in Int
          BY <4>3
        <5>2. QED
          BY <4>6, <5>1, TotalType
      <4>8. Total(T, h) = h[a] + Total(A, h)
        BY <3>1, <4>1
      <4>9. QED
        BY <4>2, <4>5, <4>7, <4>8
    <3>4. QED
      BY <3>2, <3>3
  <2>3. QED
    BY <1>1, <2>2
<1>3. \A T \in SUBSET S : (\A x \in T : T \ {x} \in G) => T \in G
  BY <1>2
<1>4. \A T \in SUBSET S : T \in G
  BY <1>3, SubsetInduction
<1>5. QED
  BY <1>1, <1>4

\* Adding an element to a set adds its value to the sum.
LEMMA TotalInsert ==
    ASSUME NEW S, NEW h, IsFiniteSet(S), NEW y, y \notin S, \A x \in S \cup {y} : h[x] \in Int
    PROVE  Total(S \cup {y}, h) = h[y] + Total(S, h)
<1>1. PICK T : T = S \cup {y}
  OBVIOUS
<1>2. IsFiniteSet(T)
  BY <1>1, FS_AddElement
<1>3. T \ {y} = S /\ y \in T
  BY <1>1
<1>4. Total(T, h) = h[y] + Total(T \ {y}, h)
  BY <1>1, <1>2, <1>3, TotalRemove
<1>5. QED
  BY <1>1, <1>3, <1>4

\* A sum over a set is the sum over a part and the sum over the rest.
LEMMA TotalSplit ==
    ASSUME NEW S, NEW h, IsFiniteSet(S), \A x \in S : h[x] \in Int, NEW T \in SUBSET S
    PROVE  Total(S, h) = Total(T, h) + Total(S \ T, h)
<1>1. PICK G : G = {U \in SUBSET T : Total(S, h) = Total(U, h) + Total(S \ U, h)}
  OBVIOUS
<1>2. IsFiniteSet(T)
  BY FS_Subset
<1>3. ASSUME NEW U \in SUBSET T, \A x \in U : U \ {x} \in G PROVE U \in G
  <2>1. IsFiniteSet(U) /\ IsFiniteSet(S \ U) /\ S \ U \in SUBSET S
    BY <1>2, FS_Subset
  <2>2. CASE U = {}
    <3>1. Total(U, h) = 0 /\ S \ U = S /\ Total(S, h) \in Int
      BY <2>1, <2>2, TotalStep, TotalType
    <3>2. QED
      BY <1>1, <3>1
  <2>3. ASSUME NEW y \in U PROVE U \in G
    <3>1. PICK V \in SUBSET T : V = U \ {y}
      OBVIOUS
    <3>2. Total(S, h) = Total(V, h) + Total(S \ V, h)
      BY <1>1, <1>3, <3>1
    <3>3. Total(U, h) = h[y] + Total(V, h)
      BY <2>1, <3>1, TotalRemove
    <3>4. S \ V = (S \ U) \cup {y} /\ y \notin S \ U
      BY <3>1
    <3>5. Total((S \ U) \cup {y}, h) = h[y] + Total(S \ U, h)
      <4>1. PICK R : R = S \ U
        OBVIOUS
      <4>2. \A x \in R \cup {y} : h[x] \in Int
        BY <4>1
      <4>3. y \notin R /\ IsFiniteSet(R)
        BY <2>1, <4>1
      <4>4. Total(R \cup {y}, h) = h[y] + Total(R, h)
        BY <4>2, <4>3, TotalInsert
      <4>5. QED
        BY <4>1, <4>4
    <3>6. Total(S \ U, h) \in Int /\ h[y] \in Int /\ Total(V, h) \in Int
      <4>1. IsFiniteSet(V) /\ (\A x \in V : h[x] \in Int) /\ (\A x \in S \ U : h[x] \in Int)
        BY <1>2, FS_Subset
      <4>2. QED
        BY <2>1, <4>1, TotalType
    <3>7. QED
      BY <1>1, <3>2, <3>3, <3>4, <3>5, <3>6
  <2>4. QED
    BY <2>2, <2>3
<1>4. \A U \in SUBSET T : (\A x \in U : U \ {x} \in G) => U \in G
  BY <1>3
<1>5. \A U \in SUBSET T : U \in G
  BY <1>2, <1>4, SubsetInduction
<1>6. QED
  BY <1>1, <1>5

\* Sums of natural numbers grow with the set.
LEMMA TotalPart ==
    ASSUME NEW S, NEW h, IsFiniteSet(S), \A x \in S : h[x] \in Nat, NEW T \in SUBSET S
    PROVE  Total(T, h) \in Nat /\ Total(S, h) \in Nat /\ Total(T, h) <= Total(S, h)
<1>1. IsFiniteSet(T) /\ IsFiniteSet(S \ T) /\ S \ T \in SUBSET S
  BY FS_Subset
<1>2. Total(S, h) \in Nat /\ Total(T, h) \in Nat /\ Total(S \ T, h) \in Nat
  BY <1>1, TotalType
<1>3. Total(S, h) = Total(T, h) + Total(S \ T, h)
  BY TotalSplit
<1>4. QED
  BY <1>2, <1>3

\* Zeros sum to zero.
LEMMA TotalZero ==
    ASSUME NEW S, NEW h, IsFiniteSet(S), \A x \in S : h[x] = 0
    PROVE  Total(S, h) = 0
<1>1. PICK G : G = {T \in SUBSET S : Total(T, h) = 0}
  OBVIOUS
<1>2. ASSUME NEW T \in SUBSET S, \A x \in T : T \ {x} \in G PROVE T \in G
  <2>1. IsFiniteSet(T)
    BY FS_Subset
  <2>2. CASE T = {}
    BY <1>1, <2>1, <2>2, TotalStep
  <2>3. CASE T # {}
    <3>1. Chosen(T) \in T /\ Total(T, h) = h[Chosen(T)] + Total(T \ {Chosen(T)}, h)
      BY <2>1, <2>3, TotalStep
    <3>2. Total(T \ {Chosen(T)}, h) = 0 /\ h[Chosen(T)] = 0
      BY <1>1, <1>2, <3>1
    <3>3. QED
      BY <1>1, <3>1, <3>2
  <2>4. QED
    BY <2>2, <2>3
<1>3. \A T \in SUBSET S : (\A x \in T : T \ {x} \in G) => T \in G
  BY <1>2
<1>4. \A T \in SUBSET S : T \in G
  BY <1>3, SubsetInduction
<1>5. QED
  BY <1>1, <1>4

\* A change of one value changes the sum by as much.
LEMMA TotalChange ==
    ASSUME NEW S, NEW h1, NEW h2, IsFiniteSet(S), NEW y \in S,
           \A x \in S : h1[x] \in Int /\ h2[x] \in Int, \A x \in S \ {y} : h1[x] = h2[x]
    PROVE  Total(S, h1) \in Int /\ Total(S, h2) = (Total(S, h1) - h1[y]) + h2[y]
<1>1. PICK R \in SUBSET S : R = S \ {y}
  OBVIOUS
<1>2. IsFiniteSet(R)
  BY FS_Subset
<1>3. Total(S, h1) = h1[y] + Total(R, h1) /\ Total(S, h2) = h2[y] + Total(R, h2)
  BY <1>1, TotalRemove
<1>4. Total(R, h1) = Total(R, h2)
  BY <1>1, <1>2, TotalSame
<1>5. Total(R, h1) \in Int /\ h1[y] \in Int /\ h2[y] \in Int
  <2>1. \A x \in R : h1[x] \in Int
    BY <1>1
  <2>2. QED
    BY <1>2, <2>1, TotalType
<1>6. QED
  BY <1>3, <1>4, <1>5

\* one column of a table of rows
ColumnSum(rows, S, k) == MapThenSumSet(LAMBDA x : rows[x][k], S)

\* Its sum is the total of the column.
LEMMA ColumnTotal ==
    ASSUME NEW S, NEW rows, NEW k, IsFiniteSet(S)
    PROVE  ColumnSum(rows, S, k) = Total(S, [x \in S |-> rows[x][k]])
<1>1. PICK h : h = [x \in S |-> rows[x][k]]
  OBVIOUS
<1> DEFINE Sums(g) == g = [s \in SUBSET S |-> IF s = {} THEN 0 ELSE rows[Chosen(s)][k] + g[s \ {Chosen(s)}]]
<1>2. ColumnSum(rows, S, k) = (CHOOSE g : Sums(g))[S]
  BY DEF ColumnSum, MapThenSumSet, MapThenFoldSet, Chosen
<1>3. ASSUME NEW g PROVE Sums(g) <=> SumsUp(S, h, g)
  <2>1. \A s \in SUBSET S : s # {} => h[Chosen(s)] = rows[Chosen(s)][k]
    BY <1>1 DEF Chosen
  <2>2. [s \in SUBSET S |-> IF s = {} THEN 0 ELSE rows[Chosen(s)][k] + g[s \ {Chosen(s)}]]
          = [s \in SUBSET S |-> IF s = {} THEN 0 ELSE h[Chosen(s)] + g[s \ {Chosen(s)}]]
    BY <2>1
  <2>3. QED
    BY <2>2 DEF SumsUp
<1> HIDE DEF Sums
<1>4. \E g : Sums(g)
  BY <1>3, SumExists
<1>5. PICK f : f = CHOOSE g : Sums(g)
  OBVIOUS
<1>6. Sums(f)
  BY <1>4, <1>5
<1>7. SumsUp(S, h, f)
  BY <1>3, <1>6
<1>8. Total(S, h) = f[S]
  BY <1>7, TotalIs
<1>9. QED
  BY <1>1, <1>2, <1>5, <1>8

\* Every nonempty finite set of integers has a greatest element.
LEMMA GreatestOf ==
    ASSUME NEW S \in SUBSET Int, IsFiniteSet(S), S # {}
    PROVE  Max(S) \in S /\ \A x \in S : x <= Max(S)
<1>1. PICK G : G = {T \in SUBSET S : T # {} => \E x \in T : \A y \in T : x >= y}
  OBVIOUS
<1>2. ASSUME NEW T \in SUBSET S, \A x \in T : T \ {x} \in G PROVE T \in G
  <2>1. CASE \E x \in T : T = {x}
    BY <1>1, <2>1
  <2>2. ASSUME NEW a \in T, T # {a} PROVE T \in G
    <3>1. PICK b \in T \ {a} : \A y \in T \ {a} : b >= y
      BY <1>1, <1>2, <2>2
    <3>2. CASE b >= a
      BY <1>1, <3>1, <3>2
    <3>3. CASE ~(b >= a)
      <4>1. \A y \in T : a >= y
        BY <3>1, <3>3
      <4>2. QED
        BY <1>1, <4>1
    <3>4. QED
      BY <3>2, <3>3
  <2>3. CASE T = {}
    BY <1>1, <2>3
  <2>4. QED
    BY <2>1, <2>2, <2>3
<1>3. \A T \in SUBSET S : (\A x \in T : T \ {x} \in G) => T \in G
  BY <1>2
<1>4. \A T \in SUBSET S : T \in G
  BY <1>3, SubsetInduction
<1>5. \E x \in S : \A y \in S : x >= y
  BY <1>1, <1>4
<1>6. Max(S) \in S /\ \A y \in S : Max(S) >= y
  BY <1>5 DEF Max
<1>7. QED
  BY <1>6

\* Every nonempty set of naturals has a least element.
LEMMA MinIn ==
    ASSUME NEW S \in SUBSET Nat, S # {}
    PROVE  Min(S) \in S /\ \A x \in S : Min(S) <= x
<1>1. \E n \in S : \A m \in S : n <= m
  BY LeastOf
<1>2. QED
  BY <1>1 DEF Min

\* the n least elements of F: those that fewer than n elements are below
Rank(F, a) == Cardinality({x \in F : x < a})
Least(F, n) == {a \in F : Rank(F, a) < n}

\* Ranks grow with the elements.
LEMMA RankGrows ==
    ASSUME NEW F \in SUBSET Nat, IsFiniteSet(F), NEW a \in F, NEW b \in F
    PROVE  /\ Rank(F, a) \in Nat
           /\ a <= b => Rank(F, a) <= Rank(F, b)
           /\ a < b => Rank(F, a) < Rank(F, b)
<1>1. PICK A \in SUBSET F : A = {x \in F : x < a}
  OBVIOUS
<1>2. PICK B \in SUBSET F : B = {x \in F : x < b}
  OBVIOUS
<1>3. /\ IsFiniteSet(A) /\ IsFiniteSet(B) /\ Cardinality(A) \in Nat /\ Cardinality(B) \in Nat
      /\ Rank(F, a) = Cardinality(A) /\ Rank(F, b) = Cardinality(B)
  BY <1>1, <1>2, FS_Subset, FS_CardinalityType DEF Rank
<1>4. ASSUME a <= b PROVE Rank(F, a) <= Rank(F, b)
  <2>1. \A x \in A : x \in B
    <3>1. \A x \in F : x < a => x < b
      BY <1>4
    <3>2. QED
      BY <1>1, <1>2, <3>1
  <2>2. QED
    BY <1>3, <2>1, FS_Subset
<1>5. ASSUME a < b PROVE Rank(F, a) < Rank(F, b)
  <2>1. \A x \in F : x < a => x < b
    BY <1>5
  <2>2. A \in SUBSET B /\ a \in B /\ a \notin A
    <3>1. \A x \in A : x \in B
      BY <1>1, <1>2, <2>1
    <3>2. ~(a < a)
      OBVIOUS
    <3>3. QED
      BY <1>1, <1>2, <1>5, <3>1, <3>2
  <2>3. Cardinality(A) <= Cardinality(B) /\ (Cardinality(A) = Cardinality(B) => A = B)
    BY <1>3, <2>2, FS_Subset
  <2>4. QED
    BY <1>3, <2>2, <2>3
<1>6. QED
  BY <1>3, <1>4, <1>5

\* There are n of them, unless F is smaller.
LEMMA LeastCount ==
    ASSUME NEW F \in SUBSET Nat, IsFiniteSet(F), NEW n0 \in Nat, n0 <= Cardinality(F)
    PROVE  Cardinality(Least(F, n0)) = n0
<1>1. \A n : IsFiniteSet(Least(F, n)) /\ Cardinality(Least(F, n)) \in Nat /\ Cardinality(F) \in Nat
  <2>1. \A n : Least(F, n) \in SUBSET F
    BY DEF Least
  <2>2. QED
    BY <2>1, FS_Subset, FS_CardinalityType
<1>2. PICK W : W = {n \in Nat : n <= Cardinality(F) /\ Cardinality(Least(F, n)) # n}
  OBVIOUS
<1> SUFFICES ASSUME W # {} PROVE FALSE
  BY <1>2
<1>3. PICK n \in W : \A m \in W : n <= m
  <2>1. W \in SUBSET Nat
    BY <1>2
  <2>2. QED
    BY <2>1, LeastOf
<1>4. n \in Nat /\ n <= Cardinality(F) /\ Cardinality(Least(F, n)) # n
  BY <1>2
<1>5. n # 0
  <2>1. ASSUME n = 0 PROVE FALSE
    <3>1. \A x \in F : ~(Rank(F, x) < 0)
      BY RankGrows
    <3>2. Least(F, n) = {}
      BY <2>1, <3>1 DEF Least
    <3>3. QED
      BY <1>4, <2>1, <3>2, FS_EmptySet
  <2>2. QED
    BY <2>1
<1>6. PICK m \in Nat : n = m + 1
  <2>1. n - 1 \in Nat /\ n = (n - 1) + 1
    BY <1>4, <1>5
  <2>2. QED
    BY <2>1
<1>7. Cardinality(Least(F, m)) = m
  <2>1. m \notin W
    BY <1>3, <1>4, <1>6
  <2>2. m <= Cardinality(F)
    BY <1>1, <1>4, <1>6
  <2>3. QED
    BY <1>2, <2>1, <2>2
<1>8. PICK L \in SUBSET F : L = Least(F, m)
  BY DEF Least
<1>9. F \ L # {}
  BY <1>1, <1>4, <1>6, <1>7, <1>8
<1>10. PICK a \in F \ L : \A x \in F \ L : a <= x
  <2>1. F \ L \in SUBSET Nat
    OBVIOUS
  <2>2. QED
    BY <1>9, <2>1, LeastOf
<1>11. \A x \in F : Rank(F, x) \in Nat
  BY RankGrows
<1>12. \A x \in F : x < a <=> x \in L
  <2>1. ASSUME NEW x \in F, x \notin L PROVE ~(x < a)
    BY <1>10, <2>1
  <2>2. ASSUME NEW x \in L, ~(x < a) PROVE FALSE
    <3>1. a <= x
      BY <2>2
    <3>2. Rank(F, a) <= Rank(F, x)
      BY <3>1, RankGrows
    <3>3. Rank(F, x) < m /\ ~(Rank(F, a) < m)
      BY <1>8, <1>10, <2>2 DEF Least
    <3>4. QED
      BY <1>11, <3>2, <3>3
  <2>3. QED
    BY <2>1, <2>2
<1>13. Rank(F, a) = m
  <2>1. {x \in F : x < a} = L
    BY <1>12
  <2>2. QED
    BY <1>7, <1>8, <2>1 DEF Rank
<1>14. Least(F, n) = L \cup {a}
  <2>1. ASSUME NEW x \in F PROVE Rank(F, x) < n <=> x \in L \/ x = a
    <3>1. CASE x \in L
      <4>1. Rank(F, x) < m
        BY <1>8, <3>1 DEF Least
      <4>2. QED
        BY <1>6, <1>11, <3>1, <4>1
    <3>2. CASE x = a
      BY <1>6, <1>13, <3>2
    <3>3. CASE x \notin L /\ x # a
      <4>1. a < x
        BY <1>10, <3>3
      <4>2. Rank(F, a) < Rank(F, x)
        BY <4>1, RankGrows
      <4>3. QED
        BY <1>6, <1>11, <1>13, <3>3, <4>2
    <3>4. QED
      BY <3>1, <3>2, <3>3
  <2>2. QED
    BY <1>8, <1>10, <2>1 DEF Least
<1>15. Cardinality(L \cup {a}) = m + 1
  <2>1. IsFiniteSet(L) /\ Cardinality(L) = m /\ a \notin L
    BY <1>1, <1>7, <1>8, <1>10
  <2>2. QED
    BY <2>1, FS_AddElement
<1>16. QED
  BY <1>4, <1>6, <1>14, <1>15

\* Sums add up element by element.
LEMMA TotalAdd ==
    ASSUME NEW S, NEW a, NEW b, NEW c, IsFiniteSet(S),
           \A x \in S : a[x] \in Int /\ b[x] \in Int /\ c[x] = a[x] + b[x]
    PROVE  Total(S, c) = Total(S, a) + Total(S, b)
<1>1. PICK G : G = {T \in SUBSET S : Total(T, c) = Total(T, a) + Total(T, b)}
  OBVIOUS
<1>2. ASSUME NEW T \in SUBSET S, \A x \in T : T \ {x} \in G PROVE T \in G
  <2>1. IsFiniteSet(T)
    BY FS_Subset
  <2>2. CASE T = {}
    <3>1. Total(T, c) = 0 /\ Total(T, a) = 0 /\ Total(T, b) = 0
      BY <2>1, <2>2, TotalStep
    <3>2. QED
      BY <1>1, <3>1
  <2>3. ASSUME NEW y \in T PROVE T \in G
    <3>1. Total(T \ {y}, c) = Total(T \ {y}, a) + Total(T \ {y}, b)
      BY <1>1, <1>2
    <3>2. \A x \in T : a[x] \in Int /\ b[x] \in Int /\ c[x] \in Int /\ c[x] = a[x] + b[x]
      OBVIOUS
    <3>3. /\ Total(T, a) = a[y] + Total(T \ {y}, a) /\ Total(T, b) = b[y] + Total(T \ {y}, b)
          /\ Total(T, c) = c[y] + Total(T \ {y}, c)
      BY <2>1, <3>2, TotalRemove
    <3>4. IsFiniteSet(T \ {y})
      BY <2>1, FS_RemoveElement
    <3>5. Total(T \ {y}, a) \in Int /\ Total(T \ {y}, b) \in Int
      BY <3>2, <3>4, TotalType
    <3>6. Total(T, c) = Total(T, a) + Total(T, b)
      BY <3>1, <3>2, <3>3, <3>5
    <3>7. QED
      BY <1>1, <3>6
  <2>4. QED
    BY <2>2, <2>3
<1>3. \A T \in SUBSET S : (\A x \in T : T \ {x} \in G) => T \in G
  BY <1>2
<1>4. S \in G
  <2>1. \A T \in SUBSET S : T \in G
    BY <1>3, SubsetInduction
  <2>2. QED
    BY <2>1
<1>5. QED
  BY <1>1, <1>4

PartOf(E, f, s) == {e \in E : f[e] = s}
PartsOf(E, f, S) == {e \in E : f[e] \in S}
CountedBy(h, E, f, S) == \A s \in S : h[s] = Cardinality(PartOf(E, f, s))

\* Counting a set part by part: as many elements go to the places of S, by f, as to
\* each of them together.
LEMMA CountParts ==
    ASSUME NEW E, NEW S, NEW f, NEW h, IsFiniteSet(E), IsFiniteSet(S), CountedBy(h, E, f, S)
    PROVE  Cardinality(PartsOf(E, f, S)) = Total(S, h)
<1>1. PICK G : G = {T \in SUBSET S : Cardinality(PartsOf(E, f, T)) = Total(T, h)}
  OBVIOUS
<1>2. ASSUME NEW T \in SUBSET S, \A x \in T : T \ {x} \in G PROVE T \in G
  <2>1. IsFiniteSet(T)
    BY FS_Subset
  <2>2. CASE T = {}
    <3>1. PartsOf(E, f, T) = {}
      BY <2>2 DEF PartsOf
    <3>2. Cardinality(PartsOf(E, f, T)) = 0
      BY <3>1, FS_EmptySet
    <3>3. Total(T, h) = 0
      BY <2>1, <2>2, TotalStep
    <3>4. QED
      BY <1>1, <3>2, <3>3
  <2>3. ASSUME NEW y \in T PROVE T \in G
    <3>1. PICK A \in SUBSET E : A = PartsOf(E, f, T)
      BY DEF PartsOf
    <3>2. PICK B \in SUBSET E : B = PartsOf(E, f, T \ {y})
      BY DEF PartsOf
    <3>3. PICK C \in SUBSET E : C = PartOf(E, f, y)
      BY DEF PartOf
    <3>4. IsFiniteSet(B) /\ IsFiniteSet(C)
      BY FS_Subset
    <3>5. A = B \cup C /\ B \cap C = {}
      BY <3>1, <3>2, <3>3 DEF PartOf, PartsOf
    <3>6. Cardinality(A) = Cardinality(B) + Cardinality(C) - Cardinality(B \cap C)
      BY <3>4, <3>5, FS_Union
    <3>7. Cardinality(B \cap C) = 0 /\ Cardinality(B) \in Nat /\ Cardinality(C) \in Nat
      BY <3>4, <3>5, FS_EmptySet, FS_CardinalityType
    <3>8. Cardinality(B) = Total(T \ {y}, h)
      BY <1>1, <1>2, <3>2
    <3>9. h[y] = Cardinality(C)
      BY <3>3 DEF CountedBy
    <3>10. \A x \in T : h[x] \in Int
      <4>1. ASSUME NEW x \in T PROVE h[x] \in Int
        <5>1. PICK D \in SUBSET E : D = PartOf(E, f, x)
          BY DEF PartOf
        <5>2. Cardinality(D) \in Nat
          BY FS_Subset, FS_CardinalityType
        <5>3. QED
          BY <5>1, <5>2 DEF CountedBy
      <4>2. QED
        BY <4>1
    <3>11. Total(T, h) = h[y] + Total(T \ {y}, h)
      BY <2>1, <3>10, TotalRemove
    <3>12. Cardinality(A) = Total(T, h)
      BY <3>6, <3>7, <3>8, <3>9, <3>11
    <3>13. QED
      BY <1>1, <3>1, <3>12
  <2>4. QED
    BY <2>2, <2>3
<1>3. \A T \in SUBSET S : (\A x \in T : T \ {x} \in G) => T \in G
  BY <1>2
<1>4. S \in G
  <2>1. \A T \in SUBSET S : T \in G
    BY <1>3, SubsetInduction
  <2>2. QED
    BY <2>1
<1>5. QED
  BY <1>1, <1>4

\* An element of value zero may be in a set or not.
LEMMA TotalAside ==
    ASSUME NEW S, NEW T, NEW h, NEW y, IsFiniteSet(S), IsFiniteSet(T), S \ {y} = T \ {y},
           \A x \in S \cup T : h[x] \in Int, h[y] = 0
    PROVE  Total(S, h) = Total(T, h)
<1>1. ASSUME NEW U, IsFiniteSet(U), \A x \in U : h[x] \in Int PROVE Total(U, h) = Total(U \ {y}, h)
  <2>1. CASE y \in U
    <3>1. Total(U, h) = h[y] + Total(U \ {y}, h)
      BY <1>1, <2>1, TotalRemove
    <3>2. IsFiniteSet(U \ {y}) /\ \A x \in U \ {y} : h[x] \in Int
      BY <1>1, FS_Subset
    <3>3. Total(U \ {y}, h) \in Int
      BY <3>2, TotalType
    <3>4. QED
      BY <3>1, <3>3
  <2>2. CASE y \notin U
    <3>1. U \ {y} = U
      BY <2>2
    <3>2. QED
      BY <3>1
  <2>3. QED
    BY <2>1, <2>2
<1>2. Total(S, h) = Total(S \ {y}, h) /\ Total(T, h) = Total(T \ {y}, h)
  BY <1>1
<1>3. QED
  BY <1>2

\* Elements of value zero add nothing.
LEMMA TotalRest ==
    ASSUME NEW S, NEW h, NEW T \in SUBSET S, IsFiniteSet(S), \A x \in S : h[x] \in Int,
           \A x \in S \ T : h[x] = 0
    PROVE  Total(S, h) = Total(T, h)
<1>1. IsFiniteSet(T) /\ IsFiniteSet(S \ T)
  BY FS_Subset
<1>2. Total(S, h) = Total(T, h) + Total(S \ T, h)
  BY TotalSplit
<1>3. Total(S \ T, h) = 0
  BY <1>1, TotalZero
<1>4. Total(T, h) \in Int
  BY <1>1, TotalType
<1>5. QED
  BY <1>2, <1>3, <1>4

\* A sum is at most as large as its elements would be if each were the largest.
LEMMA TotalAtMost ==
    ASSUME NEW S, NEW h, NEW k \in Nat, IsFiniteSet(S), \A x \in S : h[x] \in 0 .. k
    PROVE  Total(S, h) \in 0 .. k * Cardinality(S)
<1>1. PICK G : G = {T \in SUBSET S : Total(T, h) <= k * Cardinality(T)}
  OBVIOUS
<1>2. ASSUME NEW T \in SUBSET S, \A x \in T : T \ {x} \in G PROVE T \in G
  <2>1. IsFiniteSet(T) /\ Cardinality(T) \in Nat
    BY FS_Subset, FS_CardinalityType
  <2>2. CASE T = {}
    <3>1. Total(T, h) = 0 /\ Cardinality(T) = 0
      BY <2>1, <2>2, TotalStep, FS_EmptySet
    <3>2. QED
      BY <1>1, <3>1
  <2>3. ASSUME NEW y \in T PROVE T \in G
    <3>1. PICK V \in SUBSET S : V = T \ {y}
      OBVIOUS
    <3>2. IsFiniteSet(V) /\ Cardinality(V) = Cardinality(T) - 1
      BY <2>1, <3>1, FS_RemoveElement
    <3>3. \A x \in T : h[x] \in Int
      OBVIOUS
    <3>4. Total(T, h) = h[y] + Total(V, h)
      BY <2>1, <3>1, <3>3, TotalRemove
    <3>5. Total(V, h) \in Int
      BY <3>1, <3>2, <3>3, TotalType
    <3>6. Total(V, h) <= k * Cardinality(V)
      BY <1>1, <1>2, <3>1
    <3>7. PICK n \in Nat : n = Cardinality(V)
      BY <3>2, FS_CardinalityType
    <3>8. Cardinality(T) = n + 1
      BY <2>1, <3>2, <3>7
    <3>9. k * (n + 1) = k * n + k /\ k * n \in Int
      OBVIOUS
    <3>10. h[y] <= k /\ h[y] \in Int
      OBVIOUS
    <3>11. Total(T, h) <= k * n + k
      BY <3>4, <3>5, <3>6, <3>7, <3>9, <3>10
    <3>12. QED
      BY <1>1, <3>8, <3>9, <3>11
  <2>4. QED
    BY <2>2, <2>3
<1>3. S \in G
  <2>1. \A T \in SUBSET S : (\A x \in T : T \ {x} \in G) => T \in G
    BY <1>2
  <2>2. \A T \in SUBSET S : T \in G
    BY <2>1, SubsetInduction
  <2>3. QED
    BY <2>2
<1>4. \A x \in S : h[x] \in Nat
  OBVIOUS
<1>5. Total(S, h) \in Nat
  BY <1>4, TotalType
<1>6. QED
  BY <1>1, <1>3, <1>5, FS_CardinalityType

\* Rows in a strict order, and those before one.
Ordered(R, lt) ==
    \A a, b, c \in R : /\ <<a, a>> \notin lt
                       /\ a = b \/ <<a, b>> \in lt \/ <<b, a>> \in lt
                       /\ <<a, b>> \in lt /\ <<b, c>> \in lt => <<a, c>> \in lt
Preceding(R, lt, a) == {b \in R : <<b, a>> \in lt}

\* A finite nonempty set of them has a last one.
LEMMA LastInOrder ==
    ASSUME NEW R, NEW lt, IsFiniteSet(R), Ordered(R, lt), NEW T0 \in SUBSET R, T0 # {}
    PROVE  \E m \in T0 : \A x \in T0 \ {m} : <<x, m>> \in lt
<1>1. PICK G : G = {T \in SUBSET R : T # {} => \E m \in T : \A x \in T \ {m} : <<x, m>> \in lt}
  OBVIOUS
<1>2. ASSUME NEW T \in SUBSET R, \A x \in T : T \ {x} \in G PROVE T \in G
  <2>1. CASE T = {}
    BY <1>1, <2>1
  <2>2. ASSUME NEW a \in T PROVE T \in G
    <3>1. CASE T = {a}
      BY <1>1, <3>1
    <3>2. CASE T # {a}
      <4>1. PICK m \in T \ {a} : \A x \in (T \ {a}) \ {m} : <<x, m>> \in lt
        BY <1>1, <1>2, <3>2
      <4>2. CASE <<a, m>> \in lt
        BY <1>1, <4>1, <4>2
      <4>3. CASE <<m, a>> \in lt
        <5>1. \A x \in T \ {a} : <<x, a>> \in lt
          BY <4>1, <4>3 DEF Ordered
        <5>2. QED
          BY <1>1, <5>1
      <4>4. QED
        BY <4>1, <4>2, <4>3 DEF Ordered
    <3>3. QED
      BY <3>1, <3>2
  <2>3. QED
    BY <2>1, <2>2
<1>3. \A T \in SUBSET R : T \in G
  <2>1. \A T \in SUBSET R : (\A x \in T : T \ {x} \in G) => T \in G
    BY <1>2
  <2>2. QED
    BY <2>1, SubsetInduction
<1>4. QED
  BY <1>1, <1>3

\* what an amount of n takes from each row in that order, up to what the row holds
Greedy(R, lt, o, n, take) ==
    \A a \in R : take[a] = IF Total(Preceding(R, lt, a), o) >= n THEN 0
                           ELSE Min({o[a], n - Total(Preceding(R, lt, a), o)})

\* It takes the amount exactly, when the rows hold as much, and from none more than it holds.
LEMMA GreedyTakesAll ==
    ASSUME NEW R, NEW lt, NEW o, NEW n \in Nat, NEW take, IsFiniteSet(R), Ordered(R, lt),
           \A a \in R : o[a] \in Nat, Greedy(R, lt, o, n, take), n <= Total(R, o)
    PROVE  Total(R, take) = n /\ \A a \in R : take[a] \in Nat /\ take[a] <= o[a]
<1>1. ASSUME NEW T \in SUBSET R PROVE IsFiniteSet(T) /\ Total(T, o) \in Nat
  <2>1. IsFiniteSet(T) /\ \A a \in T : o[a] \in Nat
    BY FS_Subset
  <2>2. QED
    BY <2>1, TotalType
<1>2. ASSUME NEW a \in R
      PROVE  /\ take[a] \in Nat /\ take[a] <= o[a]
             /\ \A r \in Nat : r = Total(Preceding(R, lt, a), o) =>
                   take[a] = IF r >= n THEN 0 ELSE IF o[a] <= n - r THEN o[a] ELSE n - r
  <2>1. PICK r \in Nat : r = Total(Preceding(R, lt, a), o)
    BY <1>1 DEF Preceding
  <2>2. take[a] = IF r >= n THEN 0 ELSE Min({o[a], n - r})
    BY <2>1 DEF Greedy
  <2>3. CASE r >= n
    BY <2>1, <2>2, <2>3
  <2>4. CASE ~(r >= n)
    <3>1. PICK d \in Nat : d = n - r
      <4>1. n - r \in Nat
        BY <2>4
      <4>2. QED
        BY <4>1
    <3>2. PICK least : least = Min({o[a], d})
      OBVIOUS
    <3>3. {o[a], d} \in SUBSET Nat /\ {o[a], d} # {}
      OBVIOUS
    <3>4. least \in {o[a], d} /\ \A x \in {o[a], d} : least <= x
      BY <3>2, <3>3, MinIn
    <3>5. take[a] = least
      BY <2>2, <2>4, <3>1, <3>2
    <3>6. least = (IF o[a] <= d THEN o[a] ELSE d) /\ least \in Nat /\ least <= o[a]
      BY <3>4
    <3>7. QED
      BY <2>1, <2>4, <3>1, <3>5, <3>6
  <2>5. QED
    BY <2>3, <2>4
<1> DEFINE Closed(T) == \A x \in T, y \in R : <<y, x>> \in lt => y \in T
<1>3. PICK G : G = {T \in SUBSET R : Closed(T) => Total(T, take) = IF Total(T, o) <= n THEN Total(T, o) ELSE n}
  OBVIOUS
<1>4. ASSUME NEW T \in SUBSET R, \A x \in T : T \ {x} \in G PROVE T \in G
  <2>1. CASE T = {}
    <3>1. Total(T, take) = 0 /\ Total(T, o) = 0
      BY <1>1, <2>1, TotalStep
    <3>2. QED
      BY <1>3, <3>1
  <2>2. ASSUME T # {}, Closed(T) PROVE Total(T, take) = IF Total(T, o) <= n THEN Total(T, o) ELSE n
    <3>1. PICK m \in T : \A x \in T \ {m} : <<x, m>> \in lt
      BY <2>2, LastInOrder
    <3>2. PICK V \in SUBSET R : V = T \ {m}
      OBVIOUS
    <3>3. V = Preceding(R, lt, m)
      BY <2>2, <3>1, <3>2 DEF Preceding, Ordered
    <3>4. Closed(V)
      <4>1. ASSUME NEW x \in V, NEW y \in R, <<y, x>> \in lt PROVE y \in V
        <5>1. y \in T
          BY <2>2, <3>2, <4>1
        <5>2. <<x, m>> \in lt
          BY <3>1, <3>2
        <5>3. y # m
          BY <4>1, <5>2 DEF Ordered
        <5>4. QED
          BY <3>2, <5>1, <5>3
      <4>2. QED
        BY <4>1
    <3>5. PICK r \in Nat : r = Total(V, o)
      BY <1>1
    <3>6. Total(V, take) = IF r <= n THEN r ELSE n
      BY <1>3, <1>4, <3>2, <3>4, <3>5
    <3>7. take[m] = IF r >= n THEN 0 ELSE IF o[m] <= n - r THEN o[m] ELSE n - r
      BY <1>2, <3>3, <3>5
    <3>8. Total(T, o) = o[m] + r
      <4>1. \A a \in T : o[a] \in Int
        OBVIOUS
      <4>2. QED
        BY <1>1, <3>2, <3>5, <4>1, TotalRemove
    <3>9. Total(T, take) = take[m] + Total(V, take)
      <4>1. \A a \in T : take[a] \in Int
        BY <1>2
      <4>2. QED
        BY <1>1, <3>2, <4>1, TotalRemove
    <3>10. o[m] \in Nat
      OBVIOUS
    <3>11. QED
      BY <3>6, <3>7, <3>8, <3>9, <3>10
  <2>3. QED
    BY <1>3, <2>1, <2>2
<1>5. \A T \in SUBSET R : T \in G
  <2>1. \A T \in SUBSET R : (\A x \in T : T \ {x} \in G) => T \in G
    BY <1>4
  <2>2. QED
    BY <2>1, SubsetInduction
<1>6. Closed(R)
  OBVIOUS
<1>7. R \in SUBSET R
  OBVIOUS
<1>8. Total(R, take) = IF Total(R, o) <= n THEN Total(R, o) ELSE n
  BY <1>3, <1>5, <1>6, <1>7
<1>9. Total(R, o) \in Nat
  BY <1>1, <1>7
<1>10. Total(R, take) = n
  BY <1>8, <1>9
<1>11. QED
  BY <1>2, <1>10

\* Induction over the natural numbers, the hypothesis given as a set.
LEMMA CountingUp ==
    ASSUME NEW G, 0 \in G, \A n \in Nat : n \in G => n + 1 \in G
    PROVE  Nat \subseteq G
<1>1. PICK W : W = {n \in Nat : n \notin G}
  OBVIOUS
<1> SUFFICES ASSUME W # {} PROVE FALSE
  BY <1>1
<1>2. W \in SUBSET Nat
  BY <1>1
<1>3. PICK n \in W : \A m \in W : n <= m
  BY <1>2, LeastOf
<1>4. n \in Nat /\ n \notin G /\ n # 0
  BY <1>1
<1>5. n - 1 \in Nat /\ (n - 1) + 1 = n /\ ~(n <= n - 1)
  BY <1>4
<1>6. n - 1 \in G
  BY <1>1, <1>3, <1>5
<1>7. QED
  BY <1>4, <1>5, <1>6

\* Sums of multiples.
LEMMA TotalTimes ==
    ASSUME NEW S, NEW a, NEW b, NEW k \in Int, IsFiniteSet(S), \A x \in S : a[x] \in Int /\ b[x] = k * a[x]
    PROVE  Total(S, b) = k * Total(S, a)
<1>1. PICK G : G = {T \in SUBSET S : Total(T, b) = k * Total(T, a)}
  OBVIOUS
<1>2. ASSUME NEW T \in SUBSET S, \A x \in T : T \ {x} \in G PROVE T \in G
  <2>1. IsFiniteSet(T) /\ \A x \in T : a[x] \in Int /\ b[x] \in Int
    BY FS_Subset
  <2>2. CASE T = {}
    <3>1. Total(T, a) = 0
      BY <2>1, <2>2, TotalStep
    <3>2. Total(T, b) = 0
      BY <2>1, <2>2, TotalStep
    <3>3. k * 0 = 0
      OBVIOUS
    <3>4. QED
      BY <1>1, <3>1, <3>2, <3>3
  <2>3. ASSUME NEW x \in T PROVE T \in G
    <3>1. Total(T, a) = a[x] + Total(T \ {x}, a) /\ Total(T, b) = b[x] + Total(T \ {x}, b)
      BY <2>1, TotalRemove
    <3>2. Total(T \ {x}, b) = k * Total(T \ {x}, a)
      BY <1>1, <1>2
    <3>3. a[x] \in Int /\ b[x] = k * a[x] /\ Total(T \ {x}, a) \in Int
      <4>1. IsFiniteSet(T \ {x}) /\ \A y \in T \ {x} : a[y] \in Int
        BY <2>1, FS_Subset
      <4>2. QED
        BY <4>1, TotalType
    <3>4. \A y, z \in Int : k * y + k * z = k * (y + z)
      OBVIOUS
    <3>5. QED
      BY <1>1, <3>1, <3>2, <3>3, <3>4
  <2>4. QED
    BY <2>2, <2>3
<1>3. \A T \in SUBSET S : (\A x \in T : T \ {x} \in G) => T \in G
  BY <1>2
<1>4. \A T \in SUBSET S : T \in G
  BY <1>3, SubsetInduction
<1>5. QED
  BY <1>1, <1>4

\* Sums of one number.
LEMMA TotalConstant ==
    ASSUME NEW S, NEW h, NEW k \in Int, IsFiniteSet(S), \A x \in S : h[x] = k
    PROVE  Total(S, h) = k * Cardinality(S)
<1>1. PICK G : G = {T \in SUBSET S : Total(T, h) = k * Cardinality(T)}
  OBVIOUS
<1>2. ASSUME NEW T \in SUBSET S, \A x \in T : T \ {x} \in G PROVE T \in G
  <2>1. IsFiniteSet(T) /\ \A x \in T : h[x] \in Int
    BY FS_Subset
  <2>2. CASE T = {}
    BY <1>1, <2>1, <2>2, TotalStep, FS_EmptySet
  <2>3. ASSUME NEW x \in T PROVE T \in G
    <3>1. Total(T, h) = k + Total(T \ {x}, h)
      BY <2>1, TotalRemove
    <3>2. Total(T \ {x}, h) = k * Cardinality(T \ {x})
      BY <1>1, <1>2
    <3>3. Cardinality(T) \in Nat /\ Cardinality(T \ {x}) = Cardinality(T) - 1
      BY <2>1, FS_CardinalityType, FS_RemoveElement
    <3>4. \A n \in Int : k + k * (n - 1) = k * n
      OBVIOUS
    <3>5. QED
      BY <1>1, <3>1, <3>2, <3>3, <3>4
  <2>4. QED
    BY <2>2, <2>3
<1>3. \A T \in SUBSET S : (\A x \in T : T \ {x} \in G) => T \in G
  BY <1>2
<1>4. \A T \in SUBSET S : T \in G
  BY <1>3, SubsetInduction
<1>5. QED
  BY <1>1, <1>4

\* a table of numbers m, its columns, and what each row and column adds up to
Table(R, C, m, col, byRow, byCol) ==
    /\ \A r \in R : \A c \in C : m[r][c] \in Int /\ col[c][r] = m[r][c]
    /\ \A r \in R : byRow[r] = Total(C, m[r])
    /\ \A c \in C : byCol[c] = Total(R, col[c])

\* A table of numbers adds up to the same by rows and by columns.
LEMMA TotalExchange ==
    ASSUME NEW R, NEW C, NEW m, NEW col, NEW byRow, NEW byCol, IsFiniteSet(R), IsFiniteSet(C),
           Table(R, C, m, col, byRow, byCol)
    PROVE  Total(R, byRow) = Total(C, byCol)
<1>1. /\ \A r \in R : \A c \in C : m[r][c] \in Int /\ col[c][r] = m[r][c]
      /\ \A r \in R : byRow[r] = Total(C, m[r])
      /\ \A c \in C : byCol[c] = Total(R, col[c])
  BY DEF Table
<1>2. PICK G : G = {T \in SUBSET R : Total(T, byRow) = Total(C, [c \in C |-> Total(T, col[c])])}
  OBVIOUS
<1>3. \A T \in SUBSET R : IsFiniteSet(T) /\ \A c \in C : Total(T, col[c]) \in Int
  <2>1. ASSUME NEW T \in SUBSET R, NEW c \in C PROVE Total(T, col[c]) \in Int
    <3>1. IsFiniteSet(T) /\ \A x \in T : col[c][x] \in Int
      BY <1>1, FS_Subset
    <3>2. QED
      BY <3>1, TotalType
  <2>2. QED
    BY <2>1, FS_Subset
<1>4. \A r \in R : byRow[r] \in Int
  BY <1>1, TotalType
<1>5. ASSUME NEW T \in SUBSET R, \A x \in T : T \ {x} \in G PROVE T \in G
  <2>1. PICK sums : sums = [c \in C |-> Total(T, col[c])]
    OBVIOUS
  <2>2. CASE T = {}
    <3>1. \A c \in C : sums[c] = 0
      BY <1>3, <2>1, <2>2, TotalStep
    <3>2. Total(C, sums) = 0
      BY <3>1, TotalZero
    <3>3. Total(T, byRow) = 0
      BY <1>3, <2>2, TotalStep
    <3>4. QED
      BY <1>2, <2>1, <3>2, <3>3
  <2>3. ASSUME NEW x \in T PROVE T \in G
    <3>1. PICK rest : rest = [c \in C |-> Total(T \ {x}, col[c])]
      OBVIOUS
    <3>2. \A c \in C : m[x][c] \in Int /\ rest[c] \in Int /\ sums[c] = m[x][c] + rest[c]
      <4>1. ASSUME NEW c \in C PROVE sums[c] = m[x][c] + rest[c]
        <5>1. \A y \in T : col[c][y] \in Int
          BY <1>1
        <5>2. Total(T, col[c]) = col[c][x] + Total(T \ {x}, col[c])
          BY <1>3, <5>1, TotalRemove
        <5>3. col[c][x] = m[x][c]
          BY <1>1
        <5>4. QED
          BY <2>1, <3>1, <5>2, <5>3
      <4>2. QED
        BY <1>1, <1>3, <3>1, <4>1
    <3>3. Total(C, sums) = Total(C, m[x]) + Total(C, rest)
      BY <3>2, TotalAdd
    <3>4. Total(T \ {x}, byRow) = Total(C, rest)
      BY <1>2, <1>5, <3>1
    <3>5. Total(T, byRow) = byRow[x] + Total(T \ {x}, byRow)
      BY <1>3, <1>4, TotalRemove
    <3>6. QED
      BY <1>1, <1>2, <2>1, <3>3, <3>4, <3>5
  <2>4. QED
    BY <2>2, <2>3
<1>6. \A T \in SUBSET R : (\A x \in T : T \ {x} \in G) => T \in G
  BY <1>5
<1>7. \A T \in SUBSET R : T \in G
  BY <1>6, SubsetInduction
<1>8. PICK sums : sums = [c \in C |-> Total(R, col[c])]
  OBVIOUS
<1>9. Total(R, byRow) = Total(C, sums)
  BY <1>2, <1>7, <1>8
<1>10. Total(C, sums) = Total(C, byCol)
  BY <1>1, <1>8, TotalSame
<1>11. QED
  BY <1>9, <1>10

(* Division, and handing round what is left of it. *)

\* Quotient and remainder of natural numbers.
LEMMA Division ==
    ASSUME NEW a \in Nat, NEW p \in Nat \ {0}
    PROVE  a \div p \in Nat /\ a % p \in 0 .. p - 1 /\ a = p * (a \div p) + (a % p)
<1>1. a \div p \in Int
  OBVIOUS
<1>2. a % p \in 0 .. p - 1
  OBVIOUS
<1>3. a = p * (a \div p) + (a % p)
  OBVIOUS
<1>4. a \div p >= 0
  OBVIOUS
<1>5. QED
  BY <1>1, <1>2, <1>3, <1>4

\* They are the only ones.
LEMMA DivisionIs ==
    ASSUME NEW a \in Nat, NEW p \in Nat \ {0}, NEW q \in Int, NEW r \in 0 .. p - 1, a = p * q + r
    PROVE  a \div p = q /\ a % p = r
<1>1. PICK s \in Nat : s = a \div p
  BY Division
<1>2. PICK t \in 0 .. p - 1 : t = a % p
  BY Division
<1>3. a = p * s + t
  BY <1>1, <1>2, Division
<1>4. \A x \in Nat, y \in Int : p * (x - y) = p * x - p * y
  OBVIOUS
<1>5. p * (s - q) = r - t
  BY <1>3, <1>4
<1>6. \A d \in Int : d >= 1 => p * d >= p
  OBVIOUS
<1>7. \A d \in Int : d <= -1 => p * d <= -p
  OBVIOUS
<1>8. s - q = 0
  BY <1>5, <1>6, <1>7
<1>9. QED
  BY <1>1, <1>2, <1>3, <1>8

\* p * k >= p for a positive k, and the like.
LEMMA Multiples ==
    ASSUME NEW p \in Nat \ {0}
    PROVE  /\ \A d \in Int : d >= 1 => p * d >= p
           /\ \A d \in Int : d <= -1 => p * d <= -p
           /\ \A d \in Int : p * (d + 1) = p * d + p
           /\ \A d \in Int : p * (d - 1) = p * d - p
<1>1. \A d \in Int : d >= 1 => p * d >= p
  OBVIOUS
<1>2. \A d \in Int : d <= -1 => p * d <= -p
  OBVIOUS
<1>3. \A d \in Int : p * (d + 1) = p * d + p
  OBVIOUS
<1>4. \A d \in Int : p * (d - 1) = p * d - p
  OBVIOUS
<1>5. QED
  BY <1>1, <1>2, <1>3, <1>4

\* how many of n paise that are handed round p checks come to check c
Turns(n, p, c) == (n + p - c) \div p

\* Each check gets its share of the whole rounds, and the first ones one paisa more.
LEMMA TurnsOf ==
    ASSUME NEW n \in Nat, NEW p \in Nat \ {0}, NEW c \in 1 .. p
    PROVE  Turns(n, p, c) = (n \div p) + (IF c <= n % p THEN 1 ELSE 0)
<1>1. PICK q \in Nat, o \in 0 .. p - 1 : q = n \div p /\ o = n % p /\ n = p * q + o
  BY Division
<1>2. n + p - c \in Nat
  OBVIOUS
<1>3. CASE c <= o
  <2>1. o - c \in 0 .. p - 1 /\ n + p - c = p * (q + 1) + (o - c)
    BY <1>1, <1>3, Multiples
  <2>2. (n + p - c) \div p = q + 1
    BY <1>2, <2>1, DivisionIs
  <2>3. QED
    BY <1>1, <1>3, <2>2 DEF Turns
<1>4. CASE ~(c <= o)
  <2>1. o + p - c \in 0 .. p - 1 /\ n + p - c = p * q + (o + p - c)
    BY <1>1, <1>4
  <2>2. (n + p - c) \div p = q
    BY <1>2, <2>1, DivisionIs
  <2>3. QED
    BY <1>1, <1>4, <2>2 DEF Turns
<1>5. QED
  BY <1>3, <1>4

\* Of no paise, none.
LEMMA NoTurns ==
    ASSUME NEW p \in Nat \ {0}, NEW c \in 1 .. p
    PROVE  Turns(0, p, c) = 0
<1>1. 0 + p - c \in Nat /\ p - c \in 0 .. p - 1 /\ 0 + p - c = p * 0 + (p - c)
  OBVIOUS
<1>2. QED
  BY <1>1, DivisionIs DEF Turns

\* After n paise, the next r of them, fewer than there are checks, go on from check
\* n % p: to those whose turn counted from there is below r.
LEMMA TurnsGoOn ==
    ASSUME NEW n \in Nat, NEW p \in Nat \ {0}, NEW c \in 1 .. p, NEW r \in 0 .. p - 1
    PROVE  Turns(n + r, p, c) = Turns(n, p, c) + (IF (c - 1 + p - (n % p)) % p < r THEN 1 ELSE 0)
<1>1. PICK q \in Nat, o \in 0 .. p - 1 : q = n \div p /\ o = n % p /\ n = p * q + o
  BY Division
<1>2. Turns(n, p, c) = q + (IF c <= o THEN 1 ELSE 0)
  BY <1>1, TurnsOf
<1>3. n + r + p - c \in Nat /\ c - 1 + p - o \in Nat
  OBVIOUS
<1>4. CASE c <= o
  <2>1. c - 1 + p - o \in 0 .. p - 1 /\ c - 1 + p - o = p * 0 + (c - 1 + p - o)
    BY <1>4
  <2>2. (c - 1 + p - o) % p = c - 1 + p - o
    BY <1>3, <2>1, DivisionIs
  <2>3. CASE c - 1 + p - o < r
    <3>1. o + r - c - p \in 0 .. p - 1 /\ n + r + p - c = p * (q + 2) + (o + r - c - p)
      <4>1. p * (q + 2) = p * q + p + p
        BY Multiples
      <4>2. QED
        BY <1>1, <1>4, <2>3, <4>1
    <3>2. (n + r + p - c) \div p = q + 2
      BY <1>3, <3>1, DivisionIs
    <3>3. QED
      BY <1>1, <1>2, <1>4, <2>2, <2>3, <3>2 DEF Turns
  <2>4. CASE ~(c - 1 + p - o < r)
    <3>1. o + r - c \in 0 .. p - 1 /\ n + r + p - c = p * (q + 1) + (o + r - c)
      BY <1>1, <1>4, <2>4, Multiples
    <3>2. (n + r + p - c) \div p = q + 1
      BY <1>3, <3>1, DivisionIs
    <3>3. QED
      BY <1>1, <1>2, <1>4, <2>2, <2>4, <3>2 DEF Turns
  <2>5. QED
    BY <2>3, <2>4
<1>5. CASE ~(c <= o)
  <2>1. c - 1 - o \in 0 .. p - 1 /\ c - 1 + p - o = p * 1 + (c - 1 - o)
    BY <1>5
  <2>2. (c - 1 + p - o) % p = c - 1 - o
    BY <1>3, <2>1, DivisionIs
  <2>3. CASE c - 1 - o < r
    <3>1. o + r - c \in 0 .. p - 1 /\ n + r + p - c = p * (q + 1) + (o + r - c)
      BY <1>1, <1>5, <2>3, Multiples
    <3>2. (n + r + p - c) \div p = q + 1
      BY <1>3, <3>1, DivisionIs
    <3>3. QED
      BY <1>1, <1>2, <1>5, <2>2, <2>3, <3>2 DEF Turns
  <2>4. CASE ~(c - 1 - o < r)
    <3>1. o + r + p - c \in 0 .. p - 1 /\ n + r + p - c = p * q + (o + r + p - c)
      BY <1>1, <1>5, <2>4
    <3>2. (n + r + p - c) \div p = q
      BY <1>3, <3>1, DivisionIs
    <3>3. QED
      BY <1>1, <1>2, <1>5, <2>2, <2>4, <3>2 DEF Turns
  <2>5. QED
    BY <2>3, <2>4
<1>6. QED
  BY <1>4, <1>5

\* All checks together get all the paise.
LEMMA TurnsAddUp ==
    ASSUME NEW n \in Nat, NEW p \in Nat \ {0}, NEW h, \A c \in 1 .. p : h[c] = Turns(n, p, c)
    PROVE  Total(1 .. p, h) = n
<1>1. PICK q \in Nat, o \in 0 .. p - 1 : q = n \div p /\ o = n % p /\ n = p * q + o
  BY Division
<1>2. PICK whole : whole = [c \in 1 .. p |-> q]
  OBVIOUS
<1>3. PICK one : one = [c \in 1 .. p |-> IF c <= o THEN 1 ELSE 0]
  OBVIOUS
<1>4. /\ IsFiniteSet(1 .. p) /\ Cardinality(1 .. p) = p
      /\ 1 .. o \in SUBSET (1 .. p) /\ IsFiniteSet(1 .. o) /\ Cardinality(1 .. o) = o
  <2>1. p \in Nat /\ o \in Nat /\ 1 .. o \in SUBSET (1 .. p)
    OBVIOUS
  <2>2. QED
    BY <2>1, FS_Interval
<1>5. \A c \in 1 .. p : whole[c] \in Int /\ one[c] \in Int /\ h[c] = whole[c] + one[c]
  <2>1. ASSUME NEW c \in 1 .. p PROVE whole[c] = q /\ one[c] = (IF c <= o THEN 1 ELSE 0)
    BY <1>2, <1>3
  <2>2. ASSUME NEW c \in 1 .. p PROVE h[c] = q + (IF c <= o THEN 1 ELSE 0)
    BY <1>1, TurnsOf
  <2>3. QED
    BY <2>1, <2>2
<1>6. Total(1 .. p, h) = Total(1 .. p, whole) + Total(1 .. p, one)
  BY <1>4, <1>5, TotalAdd
<1>7. Total(1 .. p, whole) = q * p
  <2>1. \A c \in 1 .. p : whole[c] = q
    BY <1>2
  <2>2. Total(1 .. p, whole) = q * Cardinality(1 .. p)
    BY <1>4, <2>1, TotalConstant
  <2>3. QED
    BY <1>4, <2>2
<1>8. Total(1 .. p, one) = o
  <2>1. \A c \in (1 .. p) \ (1 .. o) : one[c] = 0
    BY <1>3
  <2>2. Total(1 .. p, one) = Total(1 .. o, one)
    BY <1>4, <1>5, <2>1, TotalRest
  <2>3. \A c \in 1 .. o : one[c] = 1
    BY <1>3, <1>4
  <2>4. Total(1 .. o, one) = 1 * Cardinality(1 .. o)
    BY <1>4, <2>3, TotalConstant
  <2>5. QED
    BY <1>4, <2>2, <2>4
<1>9. QED
  BY <1>1, <1>6, <1>7, <1>8

(* Sums along 1 .. n. *)

\* A sum along 1 .. n, and what one more adds to it.
LEMMA TotalUpTo ==
    ASSUME NEW n \in Nat, NEW h, \A l \in 1 .. n + 1 : h[l] \in Int
    PROVE  /\ IsFiniteSet(1 .. n) /\ Total(1 .. n, h) \in Int
           /\ Total(1 .. n + 1, h) = Total(1 .. n, h) + h[n + 1]
<1>1. IsFiniteSet(1 .. n)
  BY FS_Interval
<1>2. 1 .. n + 1 = (1 .. n) \cup {n + 1} /\ n + 1 \notin 1 .. n
  OBVIOUS
<1>3. Total((1 .. n) \cup {n + 1}, h) = h[n + 1] + Total(1 .. n, h)
  BY <1>1, <1>2, TotalInsert
<1>4. Total(1 .. n, h) \in Int
  BY <1>1, TotalType
<1>5. Total(1 .. n + 1, h) = h[n + 1] + Total(1 .. n, h)
  BY <1>2, <1>3
<1>6. h[n + 1] \in Int
  OBVIOUS
<1>7. QED
  BY <1>1, <1>4, <1>5, <1>6

\* An interval is finite.
LEMMA IntervalFinite == \A n \in Nat : IsFiniteSet(1 .. n) /\ Cardinality(1 .. n) = n /\ 1 .. n \in SUBSET Int
  BY FS_Interval

(* Sharing out a whole number by weights, the largest remainders first. *)

\* what f makes of the elements of S, and that it makes of each something else
MadeOf(f, S) == {f[x] : x \in S}
TellsApart(f, S) == \A x, y \in S : f[x] = f[y] => x = y

\* A one-to-one function keeps the number of elements.
LEMMA OneToOneCount ==
    ASSUME NEW S, IsFiniteSet(S), NEW f, TellsApart(f, S)
    PROVE  IsFiniteSet(MadeOf(f, S)) /\ Cardinality(MadeOf(f, S)) = Cardinality(S)
<1>1. PICK g : g = [x \in S |-> f[x]]
  OBVIOUS
<1>2. g \in Bijection(S, MadeOf(f, S))
  BY <1>1 DEF Bijection, Injection, Surjection, IsInjective, MadeOf, TellsApart
<1>3. ExistsBijection(S, MadeOf(f, S))
  BY <1>2 DEF ExistsBijection
<1>4. QED
  BY <1>3, FS_Bijection

\* the places before i: larger parts first, equal ones in order
Ahead(part, n, i) == {j \in 1 .. n : part[j] > part[i] \/ (part[j] = part[i] /\ j < i)}

\* how many are before i, and who is among the first k
PlaceOf(part, n, i) == Cardinality(Ahead(part, n, i))
FirstPlaces(part, n, k) == {i \in 1 .. n : PlaceOf(part, n, i) < k}

\* Exactly k of n have fewer than k before them.
LEMMA PlacesCount ==
    ASSUME NEW n \in Nat, NEW m \in Nat, NEW part \in [1 .. n -> 0 .. m], NEW k \in 0 .. n
    PROVE  Cardinality(FirstPlaces(part, n, k)) = k
<1>1. PICK key : key = [i \in 1 .. n |-> (n + 1) * (m - part[i]) + i]
  OBVIOUS
<1>2. \A i \in 1 .. n : key[i] = (n + 1) * (m - part[i]) + i /\ part[i] \in 0 .. m
  BY <1>1
<1>3. \A x \in Nat : (n + 1) * x \in Nat
  OBVIOUS
<1>4. \A i \in 1 .. n : key[i] \in Nat
  <2>1. ASSUME NEW i \in 1 .. n PROVE key[i] \in Nat
    <3>1. PICK a \in Nat : a = m - part[i]
      BY <1>2
    <3>2. key[i] = (n + 1) * a + i /\ (n + 1) * a \in Nat
      BY <1>2, <1>3, <3>1
    <3>3. QED
      BY <3>2
  <2>2. QED
    BY <2>1
<1>5. ASSUME NEW i \in 1 .. n, NEW j \in 1 .. n PROVE key[j] < key[i] <=> j \in Ahead(part, n, i)
  <2>1. PICK a \in Nat, b \in Nat : a = m - part[i] /\ b = m - part[j]
    BY <1>2
  <2>2. PICK p \in Nat \ {0} : p = n + 1
    OBVIOUS
  <2>3. key[i] = p * a + i /\ key[j] = p * b + j
    BY <1>2, <2>1, <2>2
  <2>4. p * (a - b) = p * a - p * b /\ p * a \in Int /\ p * b \in Int
    OBVIOUS
  <2>5. a - b >= 1 => p * (a - b) >= p
    BY Multiples
  <2>6. a - b <= -1 => p * (a - b) <= -p
    BY Multiples
  <2>7. a = b => p * (a - b) = 0
    OBVIOUS
  <2>8. key[j] < key[i] <=> a > b \/ (a = b /\ j < i)
    <3>1. CASE a > b
      BY <2>2, <2>3, <2>4, <2>5, <3>1
    <3>2. CASE a < b
      BY <2>2, <2>3, <2>4, <2>6, <3>2
    <3>3. CASE a = b
      BY <2>3, <3>3
    <3>4. QED
      BY <3>1, <3>2, <3>3
  <2>9. (a > b <=> part[j] > part[i]) /\ (a = b <=> part[j] = part[i])
    <3>1. part[i] \in 0 .. m /\ part[j] \in 0 .. m
      BY <1>2
    <3>2. QED
      BY <2>1, <3>1
  <2>10. QED
    BY <2>8, <2>9 DEF Ahead
<1>6. \A i, j \in 1 .. n : key[i] = key[j] => i = j
  <2>1. ASSUME NEW i \in 1 .. n, NEW j \in 1 .. n, key[i] = key[j] PROVE i = j
    <3>1. j \notin Ahead(part, n, i) /\ i \notin Ahead(part, n, j)
      BY <1>4, <1>5, <2>1
    <3>2. part[j] = part[i] /\ ~(j < i) /\ ~(i < j)
      BY <1>2, <3>1 DEF Ahead
    <3>3. QED
      BY <3>2
  <2>2. QED
    BY <2>1
<1>7. PICK F : F = MadeOf(key, 1 .. n)
  OBVIOUS
<1>8. IsFiniteSet(1 .. n) /\ Cardinality(1 .. n) = n
  BY IntervalFinite
<1>9. F \in SUBSET Nat /\ IsFiniteSet(F) /\ Cardinality(F) = n
  <2>1. IsFiniteSet(F) /\ Cardinality(F) = Cardinality(1 .. n)
    BY <1>6, <1>7, <1>8, OneToOneCount DEF TellsApart
  <2>2. QED
    BY <1>4, <1>7, <1>8, <2>1 DEF MadeOf
<1>10. ASSUME NEW i \in 1 .. n PROVE Rank(F, key[i]) = Cardinality(Ahead(part, n, i))
  <2>1. PICK B \in SUBSET (1 .. n) : B = Ahead(part, n, i)
    BY DEF Ahead
  <2>2. {x \in F : x < key[i]} = MadeOf(key, B)
    BY <1>5, <1>7, <2>1 DEF MadeOf
  <2>3. IsFiniteSet(B) /\ TellsApart(key, B)
    BY <1>6, <1>8, FS_Subset DEF TellsApart
  <2>4. Cardinality(MadeOf(key, B)) = Cardinality(B)
    BY <2>3, OneToOneCount
  <2>5. QED
    BY <2>1, <2>2, <2>4 DEF Rank
<1>11. PICK A \in SUBSET (1 .. n) : A = {i \in 1 .. n : Cardinality(Ahead(part, n, i)) < k}
  OBVIOUS
<1>12. Least(F, k) = MadeOf(key, A)
  BY <1>7, <1>10, <1>11 DEF Least, MadeOf
<1>13. Cardinality(MadeOf(key, A)) = Cardinality(A)
  <2>1. IsFiniteSet(A) /\ TellsApart(key, A)
    BY <1>6, <1>8, FS_Subset DEF TellsApart
  <2>2. QED
    BY <2>1, OneToOneCount
<1>14. Cardinality(Least(F, k)) = k
  <2>1. k \in Nat /\ k <= Cardinality(F)
    BY <1>9
  <2>2. QED
    BY <1>9, <2>1, LeastCount
<1>15. A = FirstPlaces(part, n, k)
  BY <1>11 DEF FirstPlaces, PlaceOf
<1>16. QED
  BY <1>12, <1>13, <1>14, <1>15

\* t paise shared out by weights w of sum s: everyone's floor and remainder, and what
\* the floors leave
Floors(n, w, t, s, floor, frac, rest) ==
    /\ \A i \in 1 .. n : floor[i] = (t * w[i]) \div s /\ frac[i] = (t * w[i]) % s
    /\ rest = t - Total(1 .. n, floor)

\* Each floor and remainder is the division's.
LEMMA FloorOf ==
    ASSUME NEW n \in Nat \ {0}, NEW w \in [1 .. n -> Nat], NEW t \in Nat, NEW s \in Nat \ {0},
           NEW floor, NEW frac, NEW rest, Floors(n, w, t, s, floor, frac, rest), NEW i \in 1 .. n
    PROVE  floor[i] \in Nat /\ frac[i] \in 0 .. s - 1 /\ t * w[i] = s * floor[i] + frac[i]
<1>1. PICK x \in Nat : x = t * w[i]
  <2>1. w[i] \in Nat
    OBVIOUS
  <2>2. \A y \in Nat : t * y \in Nat
    OBVIOUS
  <2>3. QED
    BY <2>1, <2>2
<1>2. x \div s \in Nat /\ x % s \in 0 .. s - 1 /\ x = s * (x \div s) + (x % s)
  BY Division
<1>3. floor[i] = x \div s /\ frac[i] = x % s
  BY <1>1 DEF Floors
<1>4. QED
  BY <1>1, <1>2, <1>3

\* The remainders make up what the floors leave, which is less than a paisa each.
LEMMA RestIs ==
    ASSUME NEW n \in Nat \ {0}, NEW w \in [1 .. n -> Nat], NEW t \in Nat, NEW s \in Nat \ {0},
           s = Total(1 .. n, w), NEW floor, NEW frac, NEW rest, Floors(n, w, t, s, floor, frac, rest)
    PROVE  /\ \A i \in 1 .. n : floor[i] \in Nat /\ frac[i] \in 0 .. s - 1
           /\ s * rest = Total(1 .. n, frac) /\ rest \in 0 .. n - 1
           /\ Total(1 .. n, floor) \in Nat /\ t = Total(1 .. n, floor) + rest
<1>1. \A i \in 1 .. n : floor[i] \in Nat /\ frac[i] \in 0 .. s - 1 /\ t * w[i] = s * floor[i] + frac[i]
  <2>1. ASSUME NEW i \in 1 .. n
        PROVE  floor[i] \in Nat /\ frac[i] \in 0 .. s - 1 /\ t * w[i] = s * floor[i] + frac[i]
    BY FloorOf
  <2>2. QED
    BY <2>1
<1>2. IsFiniteSet(1 .. n) /\ Cardinality(1 .. n) = n
  BY IntervalFinite
<1>3. PICK parts : parts = [i \in 1 .. n |-> t * w[i]]
  OBVIOUS
<1>4. PICK whole : whole = [i \in 1 .. n |-> s * floor[i]]
  OBVIOUS
<1>5. \A i \in 1 .. n : /\ whole[i] \in Int /\ frac[i] \in Int /\ parts[i] = whole[i] + frac[i]
                        /\ floor[i] \in Int /\ whole[i] = s * floor[i] /\ w[i] \in Int /\ parts[i] = t * w[i]
  <2>1. \A y \in Nat : s * y \in Int
    OBVIOUS
  <2>2. \A i \in 1 .. n : frac[i] \in Int /\ w[i] \in Int /\ floor[i] \in Int
    BY <1>1
  <2>3. QED
    BY <1>1, <1>3, <1>4, <2>1, <2>2
<1>6. PICK F \in Nat : F = Total(1 .. n, floor)
  <2>1. \A i \in 1 .. n : floor[i] \in Nat
    BY <1>1
  <2>2. QED
    BY <1>2, <2>1, TotalType
<1>7. PICK R \in Nat : R = Total(1 .. n, frac) /\ R <= (s - 1) * n
  <2>1. s - 1 \in Nat /\ \A i \in 1 .. n : frac[i] \in 0 .. s - 1
    BY <1>1
  <2>2. Total(1 .. n, frac) \in 0 .. (s - 1) * Cardinality(1 .. n)
    BY <1>2, <2>1, TotalAtMost
  <2>3. \A k \in Int : \A x \in 0 .. k : x \in Nat /\ x <= k
    OBVIOUS
  <2>4. (s - 1) * n \in Int
    OBVIOUS
  <2>5. QED
    BY <1>2, <2>2, <2>3, <2>4
<1>8. t * s = s * F + R
  <2>1. Total(1 .. n, parts) = t * s
    <3>1. \A i \in 1 .. n : w[i] \in Int /\ parts[i] = t * w[i]
      BY <1>5
    <3>2. t \in Int
      OBVIOUS
    <3>3. Total(1 .. n, parts) = t * Total(1 .. n, w)
      BY <1>2, <3>1, <3>2, TotalTimes, Zenon
    <3>4. QED
      BY <3>3
  <2>2. Total(1 .. n, whole) = s * F
    <3>1. \A i \in 1 .. n : floor[i] \in Int /\ whole[i] = s * floor[i]
      BY <1>5
    <3>2. Total(1 .. n, whole) = s * Total(1 .. n, floor)
      BY <1>2, <3>1, TotalTimes
    <3>3. QED
      BY <1>6, <3>2
  <2>3. Total(1 .. n, parts) = Total(1 .. n, whole) + Total(1 .. n, frac)
    <3>1. \A i \in 1 .. n : whole[i] \in Int /\ frac[i] \in Int /\ parts[i] = whole[i] + frac[i]
      BY <1>5
    <3>2. QED
      BY <1>2, <3>1, TotalAdd
  <2>4. QED
    BY <1>7, <2>1, <2>2, <2>3
<1>9. rest = t - F /\ rest \in Int
  BY <1>6 DEF Floors
<1>10. s * rest = R
  <2>1. s * (t - F) = s * t - s * F /\ s * t = t * s /\ s * F \in Int /\ s * t \in Int
    OBVIOUS
  <2>2. QED
    BY <1>8, <1>9, <2>1
<1>11. rest >= 0
  BY <1>7, <1>9, <1>10, Multiples
<1>12. rest < n
  <2>1. s * (rest - n) = s * rest - s * n /\ (s - 1) * n = s * n - n /\ s * n \in Int
    BY <1>9
  <2>2. s * (rest - n) < 0
    <3>1. PICK x \in Int : x = s * n
      BY <2>1
    <3>2. s * (rest - n) = R - x /\ R <= x - n
      BY <1>7, <1>10, <2>1, <3>1
    <3>3. QED
      BY <3>2
  <2>3. rest - n >= 1 => s * (rest - n) >= s
    BY <1>9, Multiples
  <2>4. rest - n = 0 => s * (rest - n) = 0
    OBVIOUS
  <2>5. QED
    BY <1>9, <2>2, <2>3, <2>4
<1>13. rest \in 0 .. n - 1 /\ t = F + rest
  BY <1>9, <1>11, <1>12
<1>14. QED
  BY <1>1, <1>6, <1>7, <1>10, <1>13

\* Who comes among the first rest places, by remainder, gets a paisa more.
LEMMA ExtraPaisa ==
    ASSUME NEW n \in Nat \ {0}, NEW rest \in 0 .. n - 1, NEW place \in 0 .. n - 1
    PROVE  (rest + n - 1 - place) \div n = IF place < rest THEN 1 ELSE 0
<1>1. rest + n - 1 - place \in Nat
  OBVIOUS
<1>2. CASE place < rest
  <2>1. rest - 1 - place \in 0 .. n - 1 /\ rest + n - 1 - place = n * 1 + (rest - 1 - place)
    BY <1>2
  <2>2. (rest + n - 1 - place) \div n = 1
    BY <1>1, <2>1, DivisionIs
  <2>3. QED
    BY <1>2, <2>2
<1>3. CASE ~(place < rest)
  <2>1. rest + n - 1 - place \in 0 .. n - 1 /\ rest + n - 1 - place = n * 0 + (rest + n - 1 - place)
    BY <1>3
  <2>2. (rest + n - 1 - place) \div n = 0
    BY <1>1, <2>1, DivisionIs
  <2>3. QED
    BY <1>3, <2>2
<1>4. QED
  BY <1>2, <1>3

\* A place is one of n.
LEMMA PlaceType ==
    ASSUME NEW n \in Nat \ {0}, NEW frac, NEW i \in 1 .. n
    PROVE  IsFiniteSet(Ahead(frac, n, i)) /\ PlaceOf(frac, n, i) \in Nat
<1>1. Ahead(frac, n, i) \in SUBSET (1 .. n) /\ IsFiniteSet(1 .. n)
  BY IntervalFinite DEF Ahead
<1>2. IsFiniteSet(Ahead(frac, n, i))
  BY <1>1, FS_Subset
<1>3. QED
  BY <1>2, FS_CardinalityType DEF PlaceOf

\* And there are n - 1 others.
LEMMA PlaceBelow ==
    ASSUME NEW n \in Nat \ {0}, NEW m \in Nat, NEW frac \in [1 .. n -> 0 .. m], NEW i \in 1 .. n
    PROVE  PlaceOf(frac, n, i) \in 0 .. n - 1
<1>1. PICK B \in SUBSET ((1 .. n) \ {i}) : B = Ahead(frac, n, i)
  <2>1. frac[i] \in Int /\ ~(frac[i] > frac[i]) /\ ~(i < i)
    OBVIOUS
  <2>2. i \notin Ahead(frac, n, i) /\ Ahead(frac, n, i) \in SUBSET (1 .. n)
    BY <2>1 DEF Ahead
  <2>3. QED
    BY <2>2
<1>2. IsFiniteSet(1 .. n) /\ Cardinality(1 .. n) = n
  BY IntervalFinite
<1>3. IsFiniteSet((1 .. n) \ {i}) /\ Cardinality((1 .. n) \ {i}) = n - 1
  BY <1>2, FS_RemoveElement
<1>4. Cardinality(B) <= n - 1
  <2>1. Cardinality(B) <= Cardinality((1 .. n) \ {i})
    BY <1>3, FS_Subset
  <2>2. QED
    BY <1>3, <2>1
<1>5. PlaceOf(frac, n, i) \in Nat
  BY PlaceType
<1>6. QED
  BY <1>1, <1>4, <1>5 DEF PlaceOf

\* Who is among the first places has a remainder: the remainders make up whole paise,
\* and each is less than one.
LEMMA EarlyHasRemainder ==
    ASSUME NEW n \in Nat \ {0}, NEW s \in Nat \ {0}, NEW frac, \A j \in 1 .. n : frac[j] \in 0 .. s - 1,
           NEW r \in Nat, s * r = Total(1 .. n, frac), NEW i \in 1 .. n, PlaceOf(frac, n, i) < r
    PROVE  frac[i] > 0
<1> SUFFICES ASSUME frac[i] = 0 PROVE FALSE
  <2>1. frac[i] \in 0 .. s - 1
    OBVIOUS
  <2>2. QED
    BY <2>1
<1>1. IsFiniteSet(1 .. n)
  BY IntervalFinite
<1>2. PICK P \in SUBSET (1 .. n) : P = {j \in 1 .. n : frac[j] > 0}
  OBVIOUS
<1>3. P \subseteq Ahead(frac, n, i)
  BY <1>2 DEF Ahead
<1>4. IsFiniteSet(Ahead(frac, n, i)) /\ PlaceOf(frac, n, i) \in Nat
  BY PlaceType
<1>5. IsFiniteSet(P) /\ Cardinality(P) \in Nat
  BY <1>1, FS_Subset, FS_CardinalityType
<1>6. Cardinality(P) <= PlaceOf(frac, n, i)
  BY <1>3, <1>4, FS_Subset DEF PlaceOf
<1>7. \A j \in 1 .. n : frac[j] \in Int /\ (frac[j] > 0 \/ frac[j] = 0)
  OBVIOUS
<1>8. Total(1 .. n, frac) = Total(P, frac)
  <2>1. \A j \in 1 .. n : frac[j] \in Int
    BY <1>7
  <2>2. \A j \in (1 .. n) \ P : frac[j] = 0
    BY <1>2, <1>7
  <2>3. QED
    BY <1>1, <2>1, <2>2, TotalRest
<1>9. Total(P, frac) \in 0 .. (s - 1) * Cardinality(P)
  <2>1. s - 1 \in Nat /\ \A j \in P : frac[j] \in 0 .. s - 1
    OBVIOUS
  <2>2. QED
    BY <1>5, <2>1, TotalAtMost
<1>10. PICK c \in Nat, y \in Int : c = Cardinality(P) /\ y = s * c
  BY <1>5
<1>11. r - c >= 1
  BY <1>4, <1>5, <1>6, <1>10
<1>12. s * r <= y - c
  <2>1. (s - 1) * c = s * c - c /\ (s - 1) * c \in Int
    OBVIOUS
  <2>2. \A k \in Int : \A x \in 0 .. k : x <= k
    OBVIOUS
  <2>3. Total(P, frac) <= (s - 1) * c
    BY <1>9, <1>10, <2>1, <2>2
  <2>4. QED
    BY <1>8, <1>10, <2>1, <2>3
<1>13. s * (r - c) >= s /\ s * (r - c) = s * r - y
  <2>1. s * (r - c) = s * r - s * c
    OBVIOUS
  <2>2. PICK more \in Int : more = r - c
    OBVIOUS
  <2>3. s * more >= s
    BY <1>11, <2>2, Multiples
  <2>4. QED
    BY <1>10, <2>1, <2>2, <2>3
<1>14. PICK z \in Int : z = s * r
  OBVIOUS
<1>15. z <= y - c /\ z - y >= s
  BY <1>12, <1>13, <1>14
<1>16. QED
  BY <1>15

\* With a paisa more or not, a floor is within a paisa of the share.
LEMMA RoundedShare ==
    ASSUME NEW n \in Nat \ {0}, NEW w \in [1 .. n -> Nat], NEW t \in Nat, NEW s \in Nat \ {0},
           NEW floor, NEW frac, NEW rest, Floors(n, w, t, s, floor, frac, rest), NEW i \in 1 .. n, NEW e \in {0, 1}
    PROVE  s * (floor[i] + e) <= t * w[i] + s /\ t * w[i] <= s * (floor[i] + e) + s
<1>1. floor[i] \in Nat /\ frac[i] \in 0 .. s - 1 /\ t * w[i] = s * floor[i] + frac[i]
  BY FloorOf
<1>2. PICK f \in Nat, d \in 0 .. s - 1 : f = floor[i] /\ d = frac[i]
  BY <1>1
<1>3. PICK x \in Int, y \in Int : x = t * w[i] /\ y = s * f /\ x = y + d
  <2>1. s * f \in Int /\ t * w[i] = s * f + d
    BY <1>1, <1>2
  <2>2. QED
    BY <2>1
<1>4. s * (f + e) = y + s * e /\ s * e \in 0 .. s
  <2>1. CASE e = 0
    BY <1>3, <2>1
  <2>2. CASE e = 1
    BY <1>3, <2>2, Multiples
  <2>3. QED
    BY <2>1, <2>2
<1>5. s * (f + e) <= x + s /\ x <= s * (f + e) + s
  BY <1>3, <1>4
<1>6. QED
  BY <1>2, <1>3, <1>5, Zenon

\* Nobody gets a paisa more than the weight, when there is no more to share than the
\* weights come to: only who has a remainder is among the first places.
LEMMA NoneBeyondWeight ==
    ASSUME NEW n \in Nat \ {0}, NEW w \in [1 .. n -> Nat], NEW t \in Nat, NEW s \in Nat \ {0},
           s = Total(1 .. n, w), NEW floor, NEW frac, NEW rest, Floors(n, w, t, s, floor, frac, rest),
           NEW i \in 1 .. n, t <= s, NEW e, e = IF PlaceOf(frac, n, i) < rest THEN 1 ELSE 0
    PROVE  floor[i] + e <= w[i]
<1>1. PICK f \in Nat, v \in Nat, d \in 0 .. s - 1 : f = floor[i] /\ v = w[i] /\ d = frac[i] /\ t * v = s * f + d
  <2>1. floor[i] \in Nat /\ frac[i] \in 0 .. s - 1 /\ t * w[i] = s * floor[i] + frac[i]
    BY FloorOf
  <2>2. w[i] \in Nat
    OBVIOUS
  <2>3. QED
    BY <2>1, <2>2
<1>2. t * v <= s * v
  <2>1. \A x \in Nat : x * v \in Nat
    OBVIOUS
  <2>2. s - t \in Nat /\ s * v \in Int /\ t * v \in Int
    OBVIOUS
  <2>3. \A x, y, z \in Int : (x - y) * z = x * z - y * z
    OBVIOUS
  <2>4. (s - t) * v = s * v - t * v
    BY <2>3
  <2>5. (s - t) * v >= 0
    BY <2>1, <2>2
  <2>6. QED
    BY <2>2, <2>4, <2>5
<1>3. s * (v - f) >= d
  <2>1. s * (v - f) = s * v - s * f /\ s * v \in Int /\ s * f \in Int /\ t * v \in Int
    <3>1. \A x, y, z \in Int : x * (y - z) = x * y - x * z /\ x * y \in Int
      OBVIOUS
    <3>2. s \in Int /\ v \in Int /\ f \in Int /\ t \in Int
      OBVIOUS
    <3>3. s * v \in Int /\ s * f \in Int /\ t * v \in Int
      BY <3>1, <3>2
    <3>4. s * (v - f) = s * v - s * f
      BY <3>1, <3>2, Zenon
    <3>5. QED
      BY <3>3, <3>4
  <2>2. PICK x \in Int, y \in Int, z \in Int : x = s * v /\ y = s * f /\ z = t * v
    BY <2>1
  <2>3. s * (v - f) = x - y /\ z = y + d /\ z <= x
    BY <1>1, <1>2, <2>1, <2>2
  <2>4. QED
    BY <2>3
<1>4. f <= v /\ (d > 0 => f < v)
  <2>1. PICK over \in Int : over = v - f
    OBVIOUS
  <2>2. over <= -1 => s * over <= -s
    BY Multiples
  <2>3. over = 0 => s * over = 0
    OBVIOUS
  <2>4. over >= 0 /\ (d > 0 => over # 0)
    BY <1>3, <2>1, <2>2, <2>3
  <2>5. QED
    BY <2>1, <2>4
<1>5. CASE ~(PlaceOf(frac, n, i) < rest)
  BY <1>1, <1>4, <1>5
<1>6. CASE PlaceOf(frac, n, i) < rest
  <2>1. \A j \in 1 .. n : frac[j] \in 0 .. s - 1
    BY RestIs
  <2>2. PICK r \in Nat : r = rest
    <3>1. rest \in 0 .. n - 1
      BY RestIs
    <3>2. QED
      BY <3>1
  <2>3. s * rest = Total(1 .. n, frac)
    BY RestIs
  <2>4. s * r = Total(1 .. n, frac)
    BY <2>2, <2>3
  <2>5. d > 0
    BY <1>1, <1>6, <2>1, <2>2, <2>4, EarlyHasRemainder
  <2>6. QED
    BY <1>1, <1>4, <1>6, <2>5
<1>7. QED
  BY <1>5, <1>6

\* and each part is the floor and, for the first places, a paisa
PartsGiven(n, floor, frac, rest, cuts) ==
    \A i \in 1 .. n : cuts[i] = floor[i] + (rest + n - 1 - PlaceOf(frac, n, i)) \div n

\* a part differs from the share t * w[i] / s of it by a paisa at most
NearShares(n, w, t, s, cuts) ==
    \A i \in 1 .. n : s * cuts[i] <= t * w[i] + s /\ t * w[i] <= s * cuts[i] + s

\* what everyone may be given of it
Shared(n, w, t, s, cuts) ==
    /\ (\A i \in 1 .. n : cuts[i] \in Nat /\ (t <= s => cuts[i] <= w[i])) /\ Total(1 .. n, cuts) = t
    /\ NearShares(n, w, t, s, cuts)

\* The parts add up to what is shared out; and no part is more than its weight when
\* there is no more to share than the weights come to.
LEMMA SharedOut ==
    ASSUME NEW n \in Nat \ {0}, NEW w \in [1 .. n -> Nat], NEW t \in Nat, NEW s \in Nat \ {0},
           s = Total(1 .. n, w), NEW floor, NEW frac, NEW rest, Floors(n, w, t, s, floor, frac, rest),
           NEW cuts, PartsGiven(n, floor, frac, rest, cuts)
    PROVE  Shared(n, w, t, s, cuts)
<1>1. /\ \A i \in 1 .. n : floor[i] \in Nat /\ frac[i] \in 0 .. s - 1
      /\ s * rest = Total(1 .. n, frac) /\ rest \in 0 .. n - 1
      /\ Total(1 .. n, floor) \in Nat /\ t = Total(1 .. n, floor) + rest
  <2>1. \A i \in 1 .. n : floor[i] \in Nat /\ frac[i] \in 0 .. s - 1
    BY RestIs
  <2>2. s * rest = Total(1 .. n, frac) /\ rest \in 0 .. n - 1
    BY RestIs
  <2>3. Total(1 .. n, floor) \in Nat
    BY RestIs
  <2>4. t = Total(1 .. n, floor) + rest
    BY RestIs
  <2>5. QED
    BY <2>1, <2>2, <2>3, <2>4, Zenon
<1>2. \A i \in 1 .. n : floor[i] \in Nat /\ floor[i] \in Int
  <2>1. \A i \in 1 .. n : floor[i] \in Nat
    BY <1>1, Zenon
  <2>2. QED
    BY <2>1
<1>3. PICK part \in [1 .. n -> 0 .. s - 1] : part = [i \in 1 .. n |-> frac[i]]
  BY <1>1
<1>4. IsFiniteSet(1 .. n) /\ Cardinality(1 .. n) = n /\ s - 1 \in Nat
  BY IntervalFinite
<1>5. \A i \in 1 .. n : PlaceOf(frac, n, i) = PlaceOf(part, n, i)
  <2>1. ASSUME NEW i \in 1 .. n PROVE Ahead(frac, n, i) = Ahead(part, n, i)
    BY <1>3 DEF Ahead
  <2>2. QED
    BY <2>1 DEF PlaceOf
<1>6. PICK extra : extra = [i \in 1 .. n |-> IF PlaceOf(part, n, i) < rest THEN 1 ELSE 0]
  OBVIOUS
<1>7. ASSUME NEW i \in 1 .. n PROVE extra[i] \in {0, 1} /\ cuts[i] = floor[i] + extra[i]
  <2>1. PICK place \in 0 .. n - 1 : place = PlaceOf(part, n, i)
    BY <1>4, PlaceBelow
  <2>2. (rest + n - 1 - place) \div n = IF place < rest THEN 1 ELSE 0
    BY <1>1, ExtraPaisa
  <2>3. extra[i] = IF place < rest THEN 1 ELSE 0
    BY <1>6, <2>1
  <2>4. cuts[i] = floor[i] + (rest + n - 1 - place) \div n
    BY <1>5, <2>1 DEF PartsGiven
  <2>5. QED
    BY <2>2, <2>3, <2>4
<1>8. \A i \in 1 .. n : cuts[i] \in Nat
  <2>1. \A x \in Nat, e \in {0, 1} : x + e \in Nat
    OBVIOUS
  <2>2. QED
    BY <1>7, <1>2, <2>1
<1>9. Total(1 .. n, extra) = rest
  <2>1. PICK A \in SUBSET (1 .. n) : A = {i \in 1 .. n : PlaceOf(part, n, i) < rest} /\ A = FirstPlaces(part, n, rest)
    BY DEF FirstPlaces
  <2>2. Cardinality(A) = rest
    <3>1. rest \in 0 .. n /\ n \in Nat
      BY <1>1
    <3>2. PICK m \in Nat : m = s - 1 /\ part \in [1 .. n -> 0 .. m]
      BY <1>4
    <3>3. QED
      BY <2>1, <3>1, <3>2, PlacesCount
  <2>3. IsFiniteSet(A)
    BY <1>4, FS_Subset
  <2>4. Total(1 .. n, extra) = Total(A, extra)
    <3>1. \A i \in 1 .. n : extra[i] \in Int
      BY <1>7
    <3>2. \A i \in (1 .. n) \ A : extra[i] = 0
      BY <1>6, <2>1
    <3>3. QED
      BY <1>4, <3>1, <3>2, TotalRest
  <2>5. \A i \in A : extra[i] = 1
    BY <1>6, <2>1
  <2>6. Total(A, extra) = 1 * Cardinality(A)
    <3>1. 1 \in Int
      OBVIOUS
    <3>2. QED
      BY <2>3, <2>5, <3>1, TotalConstant, Zenon
  <2>7. QED
    BY <1>1, <2>2, <2>4, <2>6
<1>10. Total(1 .. n, cuts) = t
  <2>1. \A i \in 1 .. n : floor[i] \in Int /\ extra[i] \in Int /\ cuts[i] = floor[i] + extra[i]
    <3>1. \A e \in {0, 1} : e \in Int
      OBVIOUS
    <3>2. QED
      BY <1>7, <1>2, <3>1
  <2>2. Total(1 .. n, cuts) = Total(1 .. n, floor) + Total(1 .. n, extra)
    <3>1. PICK S : S = 1 .. n
      OBVIOUS
    <3>2. IsFiniteSet(S) /\ \A i \in S : floor[i] \in Int /\ extra[i] \in Int /\ cuts[i] = floor[i] + extra[i]
      BY <1>4, <2>1, <3>1
    <3>3. Total(S, cuts) = Total(S, floor) + Total(S, extra)
      BY <3>2, TotalAdd
    <3>4. QED
      BY <3>1, <3>3
  <2>3. QED
    BY <1>1, <1>9, <2>2
<1>11. ASSUME NEW i \in 1 .. n, t <= s PROVE cuts[i] <= w[i]
  <2>1. PICK e : e = IF PlaceOf(frac, n, i) < rest THEN 1 ELSE 0
    OBVIOUS
  <2>2. floor[i] + e <= w[i]
    BY <1>11, <2>1, NoneBeyondWeight
  <2>3. extra[i] = e
    BY <1>5, <1>6, <2>1
  <2>4. QED
    BY <1>7, <2>2, <2>3
<1>12. NearShares(n, w, t, s, cuts)
  <2>1. ASSUME NEW i \in 1 .. n PROVE s * cuts[i] <= t * w[i] + s /\ t * w[i] <= s * cuts[i] + s
    <3>1. PICK e \in {0, 1} : e = extra[i] /\ cuts[i] = floor[i] + e
      BY <1>7
    <3>2. s * (floor[i] + e) <= t * w[i] + s /\ t * w[i] <= s * (floor[i] + e) + s
      BY RoundedShare
    <3>3. QED
      BY <3>1, <3>2, Zenon
  <2>2. QED
    BY <2>1, Zenon DEF NearShares
<1>13. QED
  BY <1>8, <1>10, <1>11, <1>12 DEF Shared

(* Amounts that differ by no more than roundings. *)

\* a and b are no more than k apart
Near(a, b, k) == a <= b + k /\ b <= a + k

\* Multiplying by a natural number keeps the order,
LEMMA TimesKeeps ==
    ASSUME NEW m \in Nat, NEW a \in Int, NEW b \in Int, a <= b
    PROVE  m * a <= m * b
<1>1. \A x \in Nat, y \in Nat : x * y \in Nat
  OBVIOUS
<1>2. PICK d \in Nat : b = a + d
  <2>1. b - a \in Nat /\ b = a + (b - a)
    OBVIOUS
  <2>2. QED
    BY <2>1
<1>3. m * (a + d) = m * a + m * d
  OBVIOUS
<1>4. m * a \in Int
  OBVIOUS
<1>5. m * d \in Nat
  BY <1>1
<1>6. QED
  BY <1>2, <1>3, <1>4, <1>5

\* and multiplying by a positive one tells it.
LEMMA TimesTells ==
    ASSUME NEW m \in Nat \ {0}, NEW a \in Int, NEW b \in Int, m * a <= m * b
    PROVE  a <= b
<1>1. SUFFICES ASSUME ~(a <= b) PROVE FALSE
  OBVIOUS
<1>2. b + 1 <= a
  BY <1>1
<1>3. m * (b + 1) <= m * a
  BY <1>2, TimesKeeps
<1>4. m * (b + 1) = m * b + m
  OBVIOUS
<1>5. m * b \in Int /\ m * a \in Int
  OBVIOUS
<1>6. QED
  BY <1>3, <1>4, <1>5

\* Multiples of what is near are as many times as far apart,
LEMMA NearTimes ==
    ASSUME NEW m \in Nat, NEW a \in Int, NEW b \in Int, NEW k \in Int, Near(a, b, k)
    PROVE  Near(m * a, m * b, m * k)
<1>1. m * a <= m * (b + k)
  BY TimesKeeps DEF Near
<1>2. m * b <= m * (a + k)
  BY TimesKeeps DEF Near
<1>3. \A x, y \in Int : m * (x + y) = m * x + m * y
  OBVIOUS
<1>4. QED
  BY <1>1, <1>2, <1>3 DEF Near

\* and the other way about.
LEMMA NearTold ==
    ASSUME NEW m \in Nat \ {0}, NEW a \in Int, NEW b \in Int, NEW k \in Int, Near(m * a, m * b, m * k)
    PROVE  Near(a, b, k)
<1>1. \A x, y \in Int : m * (x + y) = m * x + m * y
  OBVIOUS
<1>2. m * a <= m * (b + k) /\ m * b <= m * (a + k)
  BY <1>1 DEF Near
<1>3. a <= b + k
  BY <1>2, TimesTells
<1>4. b <= a + k
  BY <1>2, TimesTells
<1>5. QED
  BY <1>3, <1>4 DEF Near

\* Rounding a quotient to the nearest moves it by half of the divisor at most.
LEMMA HalfUp ==
    ASSUME NEW a \in Nat, NEW h \in Nat \ {0}, NEW b, b = 2 * h
    PROVE  (2 * a + b) \div (2 * b) \in Nat /\ Near(b * ((2 * a + b) \div (2 * b)), a, h)
<1>1. b \in Nat /\ 2 * a + b \in Nat /\ 2 * b \in Nat \ {0}
  OBVIOUS
<1>2. PICK q \in Nat, r \in 0 .. 2 * b - 1 : q = (2 * a + b) \div (2 * b) /\ r = (2 * a + b) % (2 * b)
  BY <1>1, Division
<1>3. 2 * a + b = (2 * b) * q + r
  BY <1>1, <1>2, Division
<1>4. PICK y \in Int : y = b * q
  BY <1>1
<1>5. (2 * b) * q = 2 * y
  BY <1>1, <1>4
<1>6. Near(y, a, h)
  BY <1>1, <1>3, <1>5 DEF Near
<1>7. QED
  BY <1>2, <1>4, <1>6

\* a hundred percent and half of it, in hundredths of a percent
Full == 10000
Half == 5000

\* what a bill or a check of it is charged and taxed for, at half a paisa off at most:
\* s is its food, t what of it is taxable after the discount, raw the tax on all the food,
\* p the service charge in percent, which is taxed when tau is 1
Charged(t, p, charge) == Near(Full * charge, t * p, Half)
Taxed(s, t, raw, tau, charge, tax) == Near((Full * s) * tax, raw * (t + tau * charge), Half * s)
Priced(s, t, raw, r, p, tau, charge, tax) ==
    /\ s \in Nat /\ t \in Nat /\ raw \in Nat /\ charge \in Nat /\ tax \in Nat
    /\ t <= s /\ raw <= r * s /\ Charged(t, p, charge)
    /\ IF s > 0 THEN Taxed(s, t, raw, tau, charge, tax) ELSE tax = 0

\* the highest rate r, the service charge, and in g the percentage of the taxable amount that is
\* taxed; a bill of food S and taxable amount T of which a check has the part: all of it (e is 0),
\* or one rounded to a paisa (e is 1)
Rules(r, p, tau, g) == r \in Nat /\ p \in Nat /\ tau \in {0, 1} /\ g = Full + tau * p
Part(S, T, s, t, e) == S \in Nat /\ T \in Nat /\ e \in {0, 1} /\ Near(S * t, T * s, e * S)

\* percent of percent; and how far, in these, the tax of a part may be off
Fine == Full * Full
HalfFine == Half * Full
Slack(r, g, e) == r * (g * e + Half) + HalfFine
TaxIsNear(S, T, raw, r, g, tax, e) == Near((Fine * S) * tax, (g * T) * raw, S * Slack(r, g, e))

\* The tax on a part is near to the part of the raw tax that falls on the taxable amount.
LEMMA TaxNear ==
    ASSUME NEW S, NEW T, NEW s, NEW t, NEW raw, NEW r, NEW p, NEW tau, NEW g, NEW charge, NEW tax, NEW e,
           Rules(r, p, tau, g), Part(S, T, s, t, e), Priced(s, t, raw, r, p, tau, charge, tax)
    PROVE  TaxIsNear(S, T, raw, r, g, tax, e)
<1>1. S \in Nat /\ T \in Nat /\ s \in Nat /\ t \in Nat /\ raw \in Nat /\ r \in Nat /\ p \in Nat /\ g \in Nat
  BY DEF Rules, Part, Priced, Full
<1>2. tau \in {0, 1} /\ charge \in Nat /\ tax \in Nat /\ e \in {0, 1} /\ g = Full + tau * p
  BY DEF Rules, Part, Priced
<1>3. raw <= r * s /\ Near(S * t, T * s, e * S) /\ Charged(t, p, charge)
  BY DEF Part, Priced
<1> USE <1>1, <1>2
<1>4. CASE s = 0
  <2>1. raw = 0 /\ tax = 0
    <3>1. r * 0 = 0
      OBVIOUS
    <3>2. QED
      BY <1>3, <1>4, <3>1 DEF Priced
  <2>2. (Fine * S) * tax = 0 /\ (g * T) * raw = 0
    BY <2>1 DEF Fine, Full
  <2>3. S * Slack(r, g, e) \in Nat
    <3>1. \A x, y \in Nat : x * y \in Nat
      OBVIOUS
    <3>2. r * (g * e + Half) \in Nat
      BY <3>1 DEF Half
    <3>3. QED
      BY <3>1, <3>2 DEF Slack, Half, HalfFine, Full
  <2>4. \A x, y \in Int : \A k \in Nat : x = 0 /\ y = 0 => Near(x, y, k)
    BY DEF Near
  <2>5. QED
    BY <2>2, <2>3, <2>4 DEF TaxIsNear
<1>5. CASE s # 0
  <2>1. PICK base \in Nat : base = t + tau * charge /\ Taxed(s, t, raw, tau, charge, tax)
    BY <1>5 DEF Priced
  <2>2. s \in Nat \ {0}
    BY <1>5
  <2>3. Near(Full * base, g * t, Half)
    <3>1. CASE tau = 0
      BY <2>1, <3>1 DEF Near, Full, Half
    <3>2. CASE tau = 1
      <4>1. PICK y \in Int : y = t * p
        OBVIOUS
      <4>2. g * t = Full * t + y
        BY <3>2, <4>1 DEF Full
      <4>3. QED
        BY <1>3, <2>1, <3>2, <4>1, <4>2 DEF Near, Charged, Full, Half
    <3>3. QED
      BY <3>1, <3>2
  <2>4. \A x, y \in Nat : x * y \in Nat
    OBVIOUS
  <2>5. PICK m \in Nat : m = S * raw
    BY <2>4
  <2>6. PICK o \in Nat : o = raw * g
    BY <2>2, <2>4
  <2>7. PICK b \in Int, y \in Int : b = Full * base /\ y = g * t /\ Near(b, y, Half)
    BY <2>2, <2>3, <2>4 DEF Full, Half
  <2>8. Near(m * b, m * y, m * Half)
    <3>1. Half \in Int /\ Near(b, y, Half)
      BY <2>7 DEF Full, Half
    <3>2. QED
      BY <3>1, NearTimes, Zenon
  <2>9. PICK u \in Int, v \in Int, w \in Int : u = S * t /\ v = T * s /\ w = e * S /\ Near(u, v, w)
    BY <1>3, <2>4
  <2>10. Near(o * u, o * v, o * w)
    <3>1. Near(u, v, w)
      BY <2>9
    <3>2. QED
      BY <3>1, NearTimes, Zenon
  <2>11. PICK h \in Nat, c \in Int, d \in Int :
            h = Half * s /\ c = (Full * s) * tax /\ d = raw * base /\ Near(c, d, h)
    BY <2>1, <2>4 DEF Taxed, Full, Half
  <2>12. PICK f \in Nat : f = Full * S
    BY DEF Full, Half
  <2>13. Near(f * c, f * d, f * h)
    <3>1. h \in Int /\ Near(c, d, h)
      BY <2>11
    <3>2. QED
      BY <3>1, NearTimes, Zenon
  <2>14. f * d = m * b
    <3>1. (Full * S) * (raw * base) = (S * raw) * (Full * base)
      BY DEF Full
    <3>2. QED
      BY <2>5, <2>7, <2>11, <2>12, <3>1
  <2>15. m * y = o * u
    <3>1. (S * raw) * (g * t) = (raw * g) * (S * t)
      BY <2>2
    <3>2. QED
      BY <2>5, <2>6, <2>7, <2>9, <3>1
  <2>16. f * c = s * ((Fine * S) * tax)
    <3>1. (Full * S) * ((Full * s) * tax) = s * ((Fine * S) * tax)
      BY DEF Full, Fine
    <3>2. QED
      BY <2>11, <2>12, <3>1
  <2>17. o * v = s * ((g * T) * raw)
    <3>1. (raw * g) * (T * s) = s * ((g * T) * raw)
      BY <2>2
    <3>2. QED
      BY <2>6, <2>9, <3>1
  <2>18. f * h + m * Half + o * w <= s * (S * (r * (g * e + Half) + HalfFine))
    <3>1. PICK k \in Nat : k = S * (Half + g * e)
      BY <2>2, <2>4 DEF Half, HalfFine, Full
    <3>2. f * h + m * Half + o * w = f * h + k * raw
      <4>1. (S * raw) * Half + (raw * g) * (e * S) = (S * (Half + g * e)) * raw
        BY <2>2 DEF Half, HalfFine, Full
      <4>2. f * h \in Int /\ m * Half \in Int /\ o * w \in Int /\ k * raw \in Int
        BY <2>4 DEF Half, HalfFine, Full
      <4>3. QED
        BY <2>5, <2>6, <2>9, <3>1, <4>1, <4>2
    <3>3. k * raw <= k * (r * s)
      <4>1. r * s \in Int
        BY <2>4
      <4>2. QED
        BY <1>3, <3>1, <4>1, TimesKeeps
    <3>4. f * h + k * (r * s) = s * (S * (r * (g * e + Half) + HalfFine))
      <4>1. (Full * S) * (Half * s) + (S * (Half + g * e)) * (r * s) = s * (S * (r * (g * e + Half) + HalfFine))
        BY <2>2 DEF Full, Half, HalfFine
      <4>2. QED
        BY <2>11, <2>12, <3>1, <4>1
    <3>5. f * h \in Int /\ k * raw \in Int /\ k * (r * s) \in Int
      BY <2>4, <2>11, <2>12, <3>1
    <3>6. QED
      BY <3>2, <3>3, <3>4, <3>5
  <2>19. PICK x \in Int, z \in Int, a \in Int :
            x = (Fine * S) * tax /\ z = (g * T) * raw /\ a = S * (r * (g * e + Half) + HalfFine)
    BY <2>4 DEF Half, Fine, HalfFine, Full
  <2>20. Near(s * x, s * z, s * a)
    <3>1. PICK c1 \in Int, c2 \in Int, c3 \in Int, c4 \in Int : c1 = f * c /\ c2 = m * b /\ c3 = o * u /\ c4 = o * v
      BY <2>4, <2>14, <2>15, <2>16, <2>17, <2>19
    <3>2. PICK k1 \in Int, k2 \in Int, k3 \in Int : k1 = f * h /\ k2 = m * Half /\ k3 = o * w
      BY <2>4, <2>9 DEF Half
    <3>3. Near(c1, c2, k1) /\ Near(c2, c3, k2) /\ Near(c3, c4, k3)
      BY <2>8, <2>10, <2>13, <2>14, <2>15, <3>1, <3>2
    <3>4. Near(c1, c4, k1 + k2 + k3)
      BY <3>3 DEF Near
    <3>5. c1 = s * x /\ c4 = s * z
      BY <2>16, <2>17, <2>19, <3>1
    <3>6. k1 + k2 + k3 <= s * a
      BY <2>18, <2>19, <3>2
    <3>7. s * a \in Int
      BY <2>19
    <3>8. QED
      BY <3>4, <3>5, <3>6, <3>7 DEF Near
  <2>21. Near(x, z, a)
    BY <2>2, <2>20, NearTold, Zenon
  <2>22. QED
    BY <2>19, <2>21 DEF TaxIsNear, Slack, Fine, Full
<1>6. QED
  BY <1>4, <1>5

\* Sums of what is near, each by k, are as many times k apart as they have parts.
LEMMA NearTotal ==
    ASSUME NEW S, NEW a, NEW b, NEW k \in Nat, IsFiniteSet(S),
           \A x \in S : a[x] \in Int /\ b[x] \in Int /\ Near(a[x], b[x], k)
    PROVE  Near(Total(S, a), Total(S, b), k * Cardinality(S))
<1>1. PICK above : above = [x \in S |-> a[x] + k]
  OBVIOUS
<1>2. PICK over : over = [x \in S |-> a[x] + k - b[x]]
  OBVIOUS
<1>3. PICK same : same = [x \in S |-> k]
  OBVIOUS
<1>4. \A x \in S : /\ above[x] = a[x] + same[x] /\ above[x] = b[x] + over[x] /\ over[x] \in 0 .. 2 * k
                   /\ same[x] = k /\ over[x] \in Int /\ same[x] \in Int
  BY <1>1, <1>2, <1>3 DEF Near
<1>5. Total(S, above) = Total(S, a) + Total(S, same)
  BY <1>4, TotalAdd
<1>6. Total(S, above) = Total(S, b) + Total(S, over)
  BY <1>4, TotalAdd
<1>7. Total(S, same) = k * Cardinality(S)
  BY <1>4, TotalConstant
<1>8. PICK n \in Nat : n = Cardinality(S)
  BY FS_CardinalityType
<1>9. Total(S, over) \in 0 .. (2 * k) * n
  <2>1. 2 * k \in Nat
    OBVIOUS
  <2>2. QED
    BY <1>4, <1>8, <2>1, TotalAtMost
<1>10. Total(S, a) \in Int /\ Total(S, b) \in Int
  BY TotalType
<1>11. (2 * k) * n = 2 * (k * n) /\ k * n \in Int
  OBVIOUS
<1>12. QED
  BY <1>5, <1>6, <1>7, <1>8, <1>9, <1>10, <1>11 DEF Near

\* n checks, c of them with food s[c] and so on, that a bill with food S and so on is split into
SplitBill(n, s, t, raw, charge, tax, S, T, R, K, X, r, p, tau, g) ==
    /\ n \in Nat /\ Rules(r, p, tau, g) /\ Priced(S, T, R, r, p, tau, K, X)
    /\ \A c \in 1 .. n : Part(S, T, s[c], t[c], 1) /\ Priced(s[c], t[c], raw[c], r, p, tau, charge[c], tax[c])
    /\ Total(1 .. n, s) = S /\ Total(1 .. n, t) = T /\ Total(1 .. n, raw) = R

\* The taxes of the checks come near to that of the bill: each is near to its part of it.
LEMMA TaxesNear ==
    ASSUME NEW n, NEW s, NEW t, NEW raw, NEW charge, NEW tax, NEW S, NEW T, NEW R, NEW K, NEW X,
           NEW r, NEW p, NEW tau, NEW g, S # 0,
           SplitBill(n, s, t, raw, charge, tax, S, T, R, K, X, r, p, tau, g)
    PROVE  Near(Fine * Total(1 .. n, tax), Fine * X, Slack(r, g, 1) * n + Slack(r, g, 0))
<1>1. n \in Nat /\ S \in Nat \ {0} /\ T \in Nat /\ R \in Nat /\ K \in Nat /\ X \in Nat
  BY DEF SplitBill, Priced
<1>2. r \in Nat /\ p \in Nat /\ g \in Nat
  BY DEF SplitBill, Rules, Full
<1>3. \A x, y \in Nat : x * y \in Nat
  OBVIOUS
<1>4. PICK a \in Nat : a = Slack(r, g, 1)
  BY <1>2, <1>3 DEF Slack, Half, HalfFine, Full
<1>5. PICK b \in Nat : b = Slack(r, g, 0)
  BY <1>2, <1>3 DEF Slack, Half, HalfFine, Full
<1>6. PICK k \in Nat : k = Fine * S
  BY <1>1 DEF Fine, Full
<1>7. PICK m \in Nat : m = g * T
  BY <1>1, <1>2, <1>3
<1>8. \A c \in 1 .. n : raw[c] \in Nat /\ tax[c] \in Nat
  BY DEF SplitBill, Priced
<1>9. \A c \in 1 .. n : Near(k * tax[c], m * raw[c], S * a)
  <2>1. ASSUME NEW c \in 1 .. n PROVE TaxIsNear(S, T, raw[c], r, g, tax[c], 1)
    <3>1. Rules(r, p, tau, g) /\ Part(S, T, s[c], t[c], 1)
          /\ Priced(s[c], t[c], raw[c], r, p, tau, charge[c], tax[c])
      BY DEF SplitBill
    <3>2. QED
      BY <3>1, TaxNear, Zenon
  <2>2. QED
    BY <1>4, <1>6, <1>7, <2>1, Zenon DEF TaxIsNear
<1>10. Near(k * X, m * R, S * b)
  <2>1. Near(S * T, T * S, 0 * S)
    <3>1. S * T = T * S /\ 0 * S = 0 /\ S * T \in Int
      BY <1>1
    <3>2. QED
      BY <3>1 DEF Near
  <2>2. Rules(r, p, tau, g) /\ Part(S, T, S, T, 0) /\ Priced(S, T, R, r, p, tau, K, X)
    BY <1>1, <2>1 DEF SplitBill, Part
  <2>3. TaxIsNear(S, T, R, r, g, X, 0)
    BY <2>2, TaxNear, Zenon
  <2>4. QED
    BY <1>5, <1>6, <1>7, <2>3, Zenon DEF TaxIsNear
<1>11. PICK taxes : taxes = [c \in 1 .. n |-> k * tax[c]]
  OBVIOUS
<1>12. PICK raws : raws = [c \in 1 .. n |-> m * raw[c]]
  OBVIOUS
<1>13. PICK I : I = 1 .. n /\ IsFiniteSet(I) /\ Cardinality(I) = n
  BY <1>1, IntervalFinite
<1>14. \A c \in I : tax[c] \in Int /\ taxes[c] \in Int /\ taxes[c] = k * tax[c]
  <2>1. ASSUME NEW c \in 1 .. n PROVE k * tax[c] \in Int
    BY <1>8
  <2>2. QED
    BY <1>8, <1>11, <1>13, <2>1
<1>15. \A c \in I : raw[c] \in Int /\ raws[c] \in Int /\ raws[c] = m * raw[c]
  <2>1. ASSUME NEW c \in 1 .. n PROVE m * raw[c] \in Int
    BY <1>8
  <2>2. QED
    BY <1>8, <1>12, <1>13, <2>1
<1>16. Total(I, taxes) = k * Total(I, tax)
  <2>1. k \in Int /\ IsFiniteSet(I) /\ \A c \in I : tax[c] \in Int /\ taxes[c] = k * tax[c]
    BY <1>13, <1>14
  <2>2. QED
    BY <2>1, TotalTimes, Zenon
<1>17. Total(I, raws) = m * Total(I, raw)
  <2>1. m \in Int /\ IsFiniteSet(I) /\ \A c \in I : raw[c] \in Int /\ raws[c] = m * raw[c]
    BY <1>13, <1>15
  <2>2. QED
    BY <2>1, TotalTimes, Zenon
<1>18. Near(Total(I, taxes), Total(I, raws), (S * a) * n)
  <2>1. PICK d \in Nat : d = S * a
    BY <1>1, <1>3
  <2>2. \A c \in I : taxes[c] \in Int /\ raws[c] \in Int /\ Near(taxes[c], raws[c], d)
    BY <1>9, <1>13, <1>14, <1>15, <2>1, Zenon
  <2>3. Near(Total(I, taxes), Total(I, raws), d * Cardinality(I))
    BY <1>13, <2>2, NearTotal
  <2>4. QED
    BY <1>13, <2>1, <2>3, Zenon
<1>19. PICK x \in Int : x = Total(I, tax)
  BY <1>13, <1>14, TotalType
<1>20. Total(I, raw) = R
  BY <1>13 DEF SplitBill
<1>21. Near(k * x, k * X, (S * a) * n + S * b)
  <2>1. PICK u \in Int, v \in Int, w \in Int : u = k * x /\ v = m * R /\ w = k * X
    BY <1>1
  <2>2. PICK d \in Int, e \in Int : d = (S * a) * n /\ e = S * b
    BY <1>1
  <2>3. Near(u, v, d)
    BY <1>16, <1>17, <1>18, <1>19, <1>20, <2>1, <2>2, Zenon
  <2>4. Near(w, v, e)
    BY <1>10, <2>1, <2>2, Zenon
  <2>5. Near(u, w, d + e)
    BY <2>3, <2>4 DEF Near
  <2>6. QED
    BY <2>1, <2>2, <2>5, Zenon
<1>22. Near(S * (Fine * x), S * (Fine * X), S * (a * n + b))
  <2>1. k * x = S * (Fine * x) /\ k * X = S * (Fine * X)
    BY <1>1, <1>6 DEF Fine, Full
  <2>2. (S * a) * n + S * b = S * (a * n + b)
    BY <1>1
  <2>3. QED
    BY <1>21, <2>1, <2>2, Zenon
<1>23. Near(Fine * x, Fine * X, a * n + b)
  <2>1. Fine * x \in Int /\ Fine * X \in Int /\ a * n + b \in Int /\ S \in Nat \ {0}
    BY <1>1 DEF Fine, Full
  <2>2. QED
    BY <1>22, <2>1, NearTold, Zenon
<1>24. QED
  BY <1>4, <1>5, <1>13, <1>19, <1>23, Zenon

\* So do their service charges.
LEMMA ChargesNear ==
    ASSUME NEW n, NEW s, NEW t, NEW raw, NEW charge, NEW tax, NEW S, NEW T, NEW R, NEW K, NEW X,
           NEW r, NEW p, NEW tau, NEW g,
           SplitBill(n, s, t, raw, charge, tax, S, T, R, K, X, r, p, tau, g)
    PROVE  Near(Full * Total(1 .. n, charge), Full * K, Half * n + Half)
<1>1. n \in Nat /\ p \in Nat /\ T \in Nat /\ K \in Nat /\ Total(1 .. n, t) = T
  BY DEF SplitBill, Priced, Rules
<1>2. \A c \in 1 .. n : t[c] \in Nat /\ charge[c] \in Nat /\ Near(Full * charge[c], t[c] * p, Half)
  BY DEF SplitBill, Priced, Charged
<1>3. PICK hundreds : hundreds = [c \in 1 .. n |-> Full * charge[c]]
  OBVIOUS
<1>4. PICK shares : shares = [c \in 1 .. n |-> p * t[c]]
  OBVIOUS
<1>5. PICK I : I = 1 .. n /\ IsFiniteSet(I) /\ Cardinality(I) = n
  BY <1>1, IntervalFinite
<1>6. \A c \in I : charge[c] \in Int /\ hundreds[c] = Full * charge[c] /\ hundreds[c] \in Int
  BY <1>2, <1>3, <1>5 DEF Full
<1>7. \A c \in I : t[c] \in Int /\ shares[c] = p * t[c] /\ shares[c] = t[c] * p /\ shares[c] \in Int
  <2>1. ASSUME NEW c \in I PROVE p * t[c] = t[c] * p /\ p * t[c] \in Int
    BY <1>1, <1>2, <1>5
  <2>2. QED
    BY <1>2, <1>4, <1>5, <2>1
<1>8. Total(I, hundreds) = Full * Total(I, charge)
  <2>1. Full \in Int
    BY DEF Full
  <2>2. QED
    BY <1>5, <1>6, <2>1, TotalTimes
<1>9. Total(I, shares) = p * T
  <2>1. Total(I, shares) = p * Total(I, t)
    BY <1>1, <1>5, <1>7, TotalTimes
  <2>2. QED
    BY <1>1, <1>5, <2>1
<1>10. Near(Total(I, hundreds), Total(I, shares), Half * n)
  <2>1. \A c \in I : hundreds[c] \in Int /\ shares[c] \in Int /\ Near(hundreds[c], shares[c], Half)
    BY <1>2, <1>5, <1>6, <1>7, Zenon
  <2>2. Half \in Nat
    BY DEF Half
  <2>3. QED
    BY <1>5, <2>1, <2>2, NearTotal, Zenon
<1>11. PICK x \in Int : x = Total(I, charge)
  BY <1>5, <1>6, TotalType
<1>12. PICK y \in Int : y = p * T /\ y = T * p
  BY <1>1
<1>13. Near(Full * x, y, Half * n)
  BY <1>8, <1>9, <1>10, <1>11, <1>12, Zenon
<1>14. Near(Full * K, y, Half)
  BY <1>12 DEF SplitBill, Priced, Charged
<1>15. Near(Full * x, Full * K, Half * n + Half)
  BY <1>1, <1>13, <1>14 DEF Near, Full, Half
<1>16. QED
  BY <1>5, <1>11, <1>15, Zenon

\* Without food there is nothing to pay.
LEMMA NothingBilled ==
    ASSUME NEW t, NEW raw, NEW r, NEW p, NEW tau, NEW g, NEW charge, NEW tax,
           Rules(r, p, tau, g), Priced(0, t, raw, r, p, tau, charge, tax)
    PROVE  t = 0 /\ charge = 0 /\ tax = 0
<1>1. t \in Nat /\ t <= 0 /\ charge \in Nat /\ tax = 0
  BY DEF Priced
<1>2. Near(Full * charge, 0 * p, Half)
  BY <1>1 DEF Priced, Charged
<1>3. 0 * p = 0
  BY DEF Rules
<1>4. QED
  BY <1>1, <1>2, <1>3 DEF Near, Full, Half

\* what the roundings of n checks and of the bill can add up to: half a paisa for each charge
\* and each tax, the tax on the paisa and a half that a check is taxed for or not by them, and
\* on half of one for the bill
RoundingRoom(n, r, p) == n + 1 + (r * (n * (Full + Half + p) + Half)) \div Fine

\* what each check is to pay
Dues(n, t, charge, tax, due) == \A c \in 1 .. n : due[c] = t[c] + charge[c] + tax[c]

\* What the checks are to pay together comes near to the bill.
LEMMA DuesNear ==
    ASSUME NEW n, NEW s, NEW t, NEW raw, NEW charge, NEW tax, NEW S, NEW T, NEW R, NEW K, NEW X,
           NEW r, NEW p, NEW tau, NEW g, NEW due,
           SplitBill(n, s, t, raw, charge, tax, S, T, R, K, X, r, p, tau, g),
           Dues(n, t, charge, tax, due)
    PROVE  Near(Total(1 .. n, due), T + K + X, RoundingRoom(n, r, p))
<1>1. n \in Nat /\ S \in Nat /\ T \in Nat /\ K \in Nat /\ X \in Nat /\ Total(1 .. n, t) = T
  BY DEF SplitBill, Priced
<1>2. r \in Nat /\ p \in Nat /\ g \in Nat /\ g <= Full + p
  <2>1. r \in Nat /\ p \in Nat /\ tau \in {0, 1} /\ g = Full + tau * p
    BY DEF SplitBill, Rules
  <2>2. QED
    BY <2>1 DEF Full
<1>3. PICK I : I = 1 .. n /\ IsFiniteSet(I)
  BY <1>1, IntervalFinite
<1>4. \A c \in I : s[c] \in Nat /\ t[c] \in Nat /\ charge[c] \in Nat /\ tax[c] \in Nat
  BY <1>3 DEF SplitBill, Priced
<1>5. \A x, y \in Nat : x * y \in Nat
  OBVIOUS
<1>6. PICK z \in Nat : z = r * (n * (Full + Half + p) + Half)
  BY <1>1, <1>2, <1>5 DEF Full, Half
<1>7. PICK q \in Nat : q = z \div Fine /\ Fine * q <= z /\ z < Fine * q + Fine
  <2>1. Fine \in Nat \ {0} /\ \A o \in 0 .. Fine - 1 : o \in Nat /\ o < Fine
    <3>1. Fine \in Nat \ {0}
      BY DEF Fine, Full
    <3>2. QED
      BY <3>1
  <2>2. z \div Fine \in Nat /\ z % Fine \in 0 .. Fine - 1 /\ z = Fine * (z \div Fine) + (z % Fine)
    BY <2>1, Division
  <2>3. QED
    BY <2>1, <2>2
<1>8. RoundingRoom(n, r, p) = n + 1 + q
  BY <1>6, <1>7 DEF RoundingRoom
<1>9. CASE S = 0
  <2>1. T + K + X = 0
    BY <1>9, NothingBilled DEF SplitBill
  <2>2. ASSUME NEW c \in I PROVE s[c] = 0
    <3>1. Total(I, s) = s[c] + Total(I \ {c}, s) /\ Total(I, s) = 0
      <4>1. IsFiniteSet(I) /\ \A d \in I : s[d] \in Int
        BY <1>3, <1>4
      <4>2. Total(I, s) = s[c] + Total(I \ {c}, s)
        BY <4>1, TotalRemove, Zenon
      <4>3. Total(I, s) = 0
        BY <1>3, <1>9 DEF SplitBill
      <4>4. QED
        BY <4>2, <4>3
    <3>2. Total(I \ {c}, s) \in Nat
      <4>1. IsFiniteSet(I \ {c}) /\ \A d \in I \ {c} : s[d] \in Nat
        BY <1>3, <1>4, FS_Subset
      <4>2. QED
        BY <4>1, TotalType
    <3>3. QED
      BY <1>4, <3>1, <3>2
  <2>3. ASSUME NEW c \in I PROVE due[c] = 0
    <3>1. Rules(r, p, tau, g) /\ Priced(0, t[c], raw[c], r, p, tau, charge[c], tax[c])
      BY <1>3, <2>2 DEF SplitBill
    <3>2. t[c] = 0 /\ charge[c] = 0 /\ tax[c] = 0
      BY <3>1, NothingBilled
    <3>3. QED
      BY <1>3, <3>2 DEF Dues
  <2>4. Total(I, due) = 0
    BY <1>3, <2>3, TotalZero
  <2>5. QED
    BY <1>1, <1>3, <1>7, <1>8, <2>1, <2>4 DEF Near
<1>10. CASE S # 0
  <2>1. PICK Y : Y = [c \in I |-> charge[c] + tax[c]]
    OBVIOUS
  <2>2. \A c \in I : /\ t[c] \in Int /\ charge[c] \in Int /\ tax[c] \in Int /\ Y[c] \in Int
                     /\ Y[c] = charge[c] + tax[c] /\ due[c] = t[c] + Y[c]
    <3>1. \A c \in I : due[c] = t[c] + charge[c] + tax[c]
      BY <1>3 DEF Dues
    <3>2. \A u, v, w \in Nat : u + v + w = u + (v + w) /\ v + w \in Int
      OBVIOUS
    <3>3. QED
      BY <1>4, <2>1, <3>1, <3>2
  <2>3. Total(I, Y) = Total(I, charge) + Total(I, tax)
    BY <1>3, <2>2, TotalAdd
  <2>4. Total(I, due) = Total(I, t) + Total(I, Y)
    BY <1>3, <2>2, TotalAdd
  <2>5. PICK k \in Int, x \in Int : k = Total(I, charge) /\ x = Total(I, tax)
    BY <1>3, <2>2, TotalType
  <2>6. Total(I, due) = T + k + x
    BY <1>1, <1>3, <2>3, <2>4, <2>5
  <2>7. Near(Full * k, Full * K, Half * n + Half)
    BY <1>3, <2>5, ChargesNear
  <2>8. PICK a \in Int : a = Slack(r, g, 1) * n + Slack(r, g, 0) /\ a <= z + HalfFine * n + HalfFine
    <3>1. r * n \in Nat
      BY <1>1, <1>2, <1>5
    <3>2. (r * n) * g <= (r * n) * (Full + p)
      BY <1>2, <3>1, TimesKeeps DEF Full
    <3>3. (r * (g * 1 + Half) + HalfFine) * n + (r * (g * 0 + Half) + HalfFine) = (r * n) * g + Half * (r * n) + Half * r + HalfFine * n + HalfFine
      BY <1>1, <1>2 DEF Full, Half, HalfFine
    <3>4. r * (n * (Full + Half + p) + Half) = (r * n) * (Full + p) + Half * (r * n) + Half * r
      BY <1>1, <1>2 DEF Full, Half, HalfFine
    <3>5. (r * n) * g \in Int /\ (r * n) * (Full + p) \in Int
      BY <1>2, <3>1 DEF Full, Half, HalfFine
    <3>6. QED
      BY <1>1, <1>2, <1>6, <3>1, <3>2, <3>3, <3>4, <3>5 DEF Slack, Full, Half, HalfFine
  <2>9. Near(Fine * x, Fine * X, a)
    BY <1>3, <1>10, <2>5, <2>8, TaxesNear DEF Fine, Full
  <2>10. Near(k + x, K + X, n + 1 + q)
    BY <1>1, <1>7, <2>7, <2>8, <2>9 DEF Near, Fine, HalfFine, Half, Full
  <2>11. QED
    BY <1>1, <1>3, <1>8, <2>6, <2>10 DEF Near
<1>11. QED
  BY <1>9, <1>10
=============================================================================
