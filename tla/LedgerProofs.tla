---------------------------- MODULE LedgerProofs ----------------------------
(* The state is what the chain says: the money and the counter's events    *)
(* follow from the extrinsics of the blocks, for any endowment, fees and   *)
(* number of accounts and blocks.                                          *)
EXTENDS RuntimeProofs, FiniteSetTheorems, WellFoundedInduction

LEMMA Least ==
  ASSUME NEW S, S \subseteq Nat, S # {}
  PROVE  \E m \in S : \A k \in S : m <= k
<1>1. PICK m \in S : \A k \in S : ~ (<<k, m>> \in OpToRel(<, Nat))
  BY NatLessThanWellFounded, WFMin, Zenon
<1>2. \A k \in S : k < m => <<k, m>> \in OpToRel(<, Nat)
  BY Zenon DEF OpToRel
<1>3. \A k \in S : ~ (k < m)
  BY <1>1, <1>2
<1> QED BY <1>3

(* Induction over the naturals and over the subsets of a finite set, for   *)
(* a set of those that are good.                                           *)
LEMMA Upwards ==
  ASSUME NEW G, 0 \in G, \A n \in Nat : n \in G => n + 1 \in G
  PROVE  Nat \subseteq G
<1> SUFFICES ASSUME Nat \ G # {} PROVE FALSE
  OBVIOUS
<1>1. PICK m \in Nat \ G : \A k \in Nat \ G : m <= k
  BY Least
<1>2. m - 1 \in Nat /\ m - 1 \in G
  BY <1>1
<1>3. (m - 1) + 1 = m
  BY <1>1
<1> QED BY <1>1, <1>2, <1>3

LEMMA Subsets ==
  ASSUME NEW U, IsFiniteSet(U), NEW G,
         \A S \in SUBSET U : (\A V \in SUBSET S : V # S => V \in G) => S \in G
  PROVE  SUBSET U \subseteq G
<1> DEFINE bad == (SUBSET U) \ G
           sizes == {Cardinality(S) : S \in bad}
<1> SUFFICES ASSUME bad # {} PROVE FALSE
  OBVIOUS
<1>1. \A S \in SUBSET U : IsFiniteSet(S) /\ Cardinality(S) \in Nat
  BY FS_Subset, FS_CardinalityType
<1>2. sizes \subseteq Nat /\ sizes # {}
  BY <1>1
<1>3. PICK m \in sizes : \A k \in sizes : m <= k
  <2> HIDE DEF sizes
  <2> QED BY <1>2, Least
<1>4. PICK S \in bad : Cardinality(S) = m
  BY <1>3
<1>5. PICK V \in SUBSET S : V # S /\ V \notin G
  <2>1. S \in SUBSET U /\ S \notin G
    BY <1>4
  <2> QED BY <2>1
<1>6. Cardinality(V) <= Cardinality(S) /\ Cardinality(V) # Cardinality(S)
  BY <1>1, <1>4, <1>5, FS_Subset
<1>7. Cardinality(V) \in sizes
  BY <1>5
<1> HIDE DEF sizes
<1> QED BY <1>1, <1>2, <1>3, <1>4, <1>5, <1>6, <1>7

-----------------------------------------------------------------------------
(* The sum of a function's values.                                         *)
Total(b, S) == SumFunctionOnSet(b, S)

Chosen(s) == CHOOSE x \in s : TRUE

Sums(b, S, f) ==
  f = [s \in SUBSET S |-> IF s = {} THEN 0 ELSE b[Chosen(s)] + f[s \ {Chosen(s)}]]

LEMMA SumsExist ==
  ASSUME NEW b, NEW S, IsFiniteSet(S) PROVE \E f : Sums(b, S, f)
<1> DEFINE Value(f, s) == IF s = {} THEN 0 ELSE b[Chosen(s)] + f[s \ {Chosen(s)}]
           Good(n, f) == f = [s \in SUBSET S |-> f[s]] /\ \A s \in SUBSET S : Cardinality(s) <= n => f[s] = Value(f, s)
           G == {n \in Nat : \E f : Good(n, f)}
<1>1. \A s \in SUBSET S : /\ IsFiniteSet(s) /\ Cardinality(s) \in Nat
                          /\ s # {} => /\ Chosen(s) \in s /\ s \ {Chosen(s)} \in SUBSET S
                                       /\ Cardinality(s \ {Chosen(s)}) = Cardinality(s) - 1
  <2> TAKE s \in SUBSET S
  <2>1. IsFiniteSet(s) /\ Cardinality(s) \in Nat
    BY FS_Subset, FS_CardinalityType
  <2>2. s # {} => Chosen(s) \in s
    BY DEF Chosen
  <2> QED BY <2>1, <2>2, FS_RemoveElement
<1>2. 0 \in G
  <2> DEFINE f == [s \in SUBSET S |-> 0]
  <2>1. ASSUME NEW s \in SUBSET S, Cardinality(s) <= 0 PROVE s = {}
    <3>1. IsFiniteSet(s) /\ Cardinality(s) \in Nat
      BY <1>1
    <3>2. Cardinality(s) = 0
      BY <2>1, <3>1
    <3> QED BY <3>1, <3>2, FS_EmptySet
  <2>2. Good(0, f)
    BY <2>1
  <2> QED BY <2>2
<1>3. ASSUME NEW n \in Nat, n \in G PROVE n + 1 \in G
  <2>1. PICK f : Good(n, f)
    BY <1>3
  <2> DEFINE g == [s \in SUBSET S |-> IF Cardinality(s) <= n THEN f[s] ELSE Value(f, s)]
  <2>2. \A s \in SUBSET S : Cardinality(s) <= n => g[s] = f[s]
    OBVIOUS
  <2>3. \A s \in SUBSET S : Cardinality(s) <= n + 1 => g[s] = Value(f, s)
    BY <2>1
  <2>4. ASSUME NEW s \in SUBSET S, Cardinality(s) <= n + 1 PROVE Value(g, s) = Value(f, s)
    <3>1. CASE s = {}
      BY <3>1
    <3>2. CASE s # {}
      <4>1. s \ {Chosen(s)} \in SUBSET S /\ Cardinality(s \ {Chosen(s)}) <= n
        BY <1>1, <2>4, <3>2
      <4>2. g[s \ {Chosen(s)}] = f[s \ {Chosen(s)}]
        BY <4>1, <2>2
      <4> QED BY <4>2
    <3> QED BY <3>1, <3>2
  <2>5. g = [s \in SUBSET S |-> g[s]]
    OBVIOUS
  <2> HIDE DEF g, Value
  <2>6. Good(n + 1, g)
    BY <2>3, <2>4, <2>5
  <2> HIDE DEF Good
  <2>7. n + 1 \in Nat
    OBVIOUS
  <2> QED BY <2>6, <2>7
<1>4. Cardinality(S) \in G
  <2> HIDE DEF G
  <2> QED BY <1>1, <1>2, <1>3, Upwards
<1>5. PICK f : Good(Cardinality(S), f)
  BY <1>4
<1>6. \A s \in SUBSET S : f[s] = Value(f, s)
  BY <1>5, FS_Subset
<1>7. f = [s \in SUBSET S |-> Value(f, s)]
  BY <1>5, <1>6
<1> QED BY <1>7 DEF Sums

LEMMA TotalIsSum ==
  ASSUME NEW b, NEW S, IsFiniteSet(S) PROVE \E f : Sums(b, S, f) /\ Total(b, S) = f[S]
<1> DEFINE f == CHOOSE g : Sums(b, S, g)
<1>1. Sums(b, S, f)
  BY SumsExist
<1>2. Total(b, S) = f[S]
  BY Zenon DEF Total, SumFunctionOnSet, FoldFunctionOnSet, MapThenFoldSet, Sums, Chosen
<1> QED BY <1>1, <1>2

LEMMA SumsAgree ==
  ASSUME NEW b, NEW S, IsFiniteSet(S), NEW V \in SUBSET S,
         NEW f, Sums(b, S, f), NEW g, Sums(b, V, g)
  PROVE  g[V] = f[V]
<1> DEFINE G == {s \in SUBSET V : g[s] = f[s]}
<1>1. IsFiniteSet(V)
  BY FS_Subset
<1>2. ASSUME NEW s \in SUBSET V, \A t \in SUBSET s : t # s => t \in G PROVE s \in G
  <2>1. /\ g[s] = IF s = {} THEN 0 ELSE b[Chosen(s)] + g[s \ {Chosen(s)}]
        /\ f[s] = IF s = {} THEN 0 ELSE b[Chosen(s)] + f[s \ {Chosen(s)}]
    BY DEF Sums
  <2>2. CASE s = {}
    BY <2>1, <2>2
  <2>3. CASE s # {}
    <3>1. Chosen(s) \in s
      BY <2>3 DEF Chosen
    <3>2. s \ {Chosen(s)} \in G
      BY <1>2, <3>1
    <3> QED BY <2>1, <2>3, <3>2
  <2> QED BY <2>2, <2>3
<1> HIDE DEF G
<1>3. SUBSET V \subseteq G
  BY <1>1, <1>2, Subsets
<1> QED BY <1>3 DEF G

LEMMA TotalStep ==
  ASSUME NEW b, NEW S, IsFiniteSet(S)
  PROVE  Total(b, S) = IF S = {} THEN 0 ELSE b[Chosen(S)] + Total(b, S \ {Chosen(S)})
<1>1. PICK f : Sums(b, S, f) /\ Total(b, S) = f[S]
  BY TotalIsSum
<1>2. f[S] = IF S = {} THEN 0 ELSE b[Chosen(S)] + f[S \ {Chosen(S)}]
  BY <1>1 DEF Sums
<1> DEFINE V == S \ {Chosen(S)}
<1>3. V \in SUBSET S /\ IsFiniteSet(V)
  BY FS_Subset
<1>4. PICK g : Sums(b, V, g) /\ Total(b, V) = g[V]
  BY <1>3, TotalIsSum
<1>5. g[V] = f[V]
  BY <1>1, <1>3, <1>4, SumsAgree
<1> QED BY <1>1, <1>2, <1>4, <1>5

LEMMA TotalOfNone == \A b : Total(b, {}) = 0
BY TotalStep, FS_EmptySet

LEMMA TotalInt ==
  ASSUME NEW b, NEW S, IsFiniteSet(S), \A x \in S : b[x] \in Int
  PROVE  Total(b, S) \in Int
<1> DEFINE G == {s \in SUBSET S : Total(b, s) \in Int}
<1>1. ASSUME NEW s \in SUBSET S, \A t \in SUBSET s : t # s => t \in G PROVE s \in G
  <2>1. IsFiniteSet(s)
    BY FS_Subset
  <2>2. CASE s = {}
    BY <2>2, TotalOfNone
  <2>3. CASE s # {}
    <3>1. Chosen(s) \in s
      BY <2>3 DEF Chosen
    <3>2. Total(b, s \ {Chosen(s)}) \in Int /\ b[Chosen(s)] \in Int
      BY <1>1, <3>1
    <3>3. Total(b, s) = b[Chosen(s)] + Total(b, s \ {Chosen(s)})
      BY <2>1, <2>3, TotalStep
    <3> QED BY <3>2, <3>3
  <2> QED BY <2>2, <2>3
<1> HIDE DEF G
<1>2. SUBSET S \subseteq G
  BY <1>1, Subsets
<1> QED BY <1>2 DEF G

(* Any element of the set may be taken out first.                          *)
LEMMA TotalTake ==
  ASSUME NEW b, NEW S, IsFiniteSet(S), \A x \in S : b[x] \in Int, NEW x \in S
  PROVE  Total(b, S) = b[x] + Total(b, S \ {x})
<1> DEFINE G == {s \in SUBSET S : \A z \in s : Total(b, s) = b[z] + Total(b, s \ {z})}
<1>1. ASSUME NEW s \in SUBSET S, \A t \in SUBSET s : t # s => t \in G PROVE s \in G
  <2> SUFFICES ASSUME NEW z \in s PROVE Total(b, s) = b[z] + Total(b, s \ {z})
    OBVIOUS
  <2> DEFINE y == Chosen(s)
             t == s \ {y}
             u == s \ {z}
  <2>1. IsFiniteSet(s) /\ IsFiniteSet(u \ {y}) /\ u \ {y} = t \ {z}
    BY FS_Subset
  <2>2. y \in s
    BY DEF Chosen
  <2>3. Total(b, s) = b[y] + Total(b, t)
    BY <2>1, TotalStep
  <2>4. CASE z = y
    BY <2>3, <2>4
  <2>5. CASE z # y
    <3>1. t \in G /\ u \in G /\ z \in t /\ y \in u
      BY <1>1, <2>2, <2>5
    <3>2. Total(b, t) = b[z] + Total(b, t \ {z}) /\ Total(b, u) = b[y] + Total(b, u \ {y})
      BY <3>1
    <3>3. Total(b, u \ {y}) \in Int
      BY <2>1, TotalInt
    <3>4. b[y] \in Int /\ b[z] \in Int
      BY <2>2
    <3> HIDE DEF y, t, u, G
    <3>5. b[y] + (b[z] + Total(b, u \ {y})) = b[z] + (b[y] + Total(b, u \ {y}))
      BY <3>3, <3>4
    <3>6. Total(b, s) = b[z] + Total(b, u)
      BY <2>1, <2>3, <3>2, <3>5
    <3> QED BY <3>6 DEF u
  <2> QED BY <2>4, <2>5
<1> HIDE DEF G
<1>2. SUBSET S \subseteq G
  BY <1>1, Subsets
<1> QED BY <1>2 DEF G

LEMMA TotalSame ==
  ASSUME NEW b, NEW c, NEW S, IsFiniteSet(S), \A x \in S : b[x] = c[x]
  PROVE  Total(b, S) = Total(c, S)
<1> DEFINE G == {s \in SUBSET S : Total(b, s) = Total(c, s)}
<1>1. ASSUME NEW s \in SUBSET S, \A t \in SUBSET s : t # s => t \in G PROVE s \in G
  <2>1. IsFiniteSet(s)
    BY FS_Subset
  <2>2. CASE s = {}
    BY <2>2, TotalOfNone
  <2>3. CASE s # {}
    <3>1. Chosen(s) \in s
      BY <2>3 DEF Chosen
    <3>2. Total(b, s \ {Chosen(s)}) = Total(c, s \ {Chosen(s)}) /\ b[Chosen(s)] = c[Chosen(s)]
      BY <1>1, <3>1
    <3> QED BY <2>1, <2>3, <3>2, TotalStep
  <2> QED BY <2>2, <2>3
<1> HIDE DEF G
<1>2. SUBSET S \subseteq G
  BY <1>1, Subsets
<1> QED BY <1>2 DEF G

(* A change of one value changes the sum by as much.                       *)
LEMMA TotalChange ==
  ASSUME NEW b, NEW c, NEW S, IsFiniteSet(S), NEW x \in S,
         \A y \in S : b[y] \in Int /\ c[y] \in Int, \A y \in S \ {x} : b[y] = c[y]
  PROVE  Total(c, S) = Total(b, S) - b[x] + c[x]
<1>1. IsFiniteSet(S \ {x})
  BY FS_Subset
<1>2. Total(b, S) = b[x] + Total(b, S \ {x}) /\ Total(c, S) = c[x] + Total(c, S \ {x})
  BY TotalTake
<1>3. Total(b, S \ {x}) = Total(c, S \ {x})
  BY <1>1, TotalSame
<1>4. Total(b, S \ {x}) \in Int
  BY <1>1, TotalInt
<1> QED BY <1>2, <1>3, <1>4

(* The sum of a constant over the members of a set.                        *)
LEMMA TotalConstant ==
  ASSUME NEW b, NEW S, IsFiniteSet(S), NEW E, NEW k \in Int, \A x \in S : b[x] = IF x \in E THEN k ELSE 0
  PROVE  Total(b, S) = k * Cardinality(E \cap S)
<1> DEFINE G == {s \in SUBSET S : Total(b, s) = k * Cardinality(E \cap s)}
<1>1. ASSUME NEW s \in SUBSET S, \A t \in SUBSET s : t # s => t \in G PROVE s \in G
  <2> DEFINE y == Chosen(s)
             t == s \ {y}
  <2>1. IsFiniteSet(s) /\ IsFiniteSet(E \cap s) /\ IsFiniteSet(E \cap t)
    BY FS_Subset
  <2>2. CASE s = {}
    <3>1. Cardinality(E \cap s) = 0
      BY <2>2, FS_EmptySet
    <3> QED BY <2>2, <3>1, TotalOfNone
  <2>3. CASE s # {}
    <3>1. y \in s
      BY <2>3 DEF Chosen
    <3>2. Total(b, t) = k * Cardinality(E \cap t)
      BY <1>1, <3>1
    <3>3. Total(b, s) = b[y] + Total(b, t)
      BY <2>1, <2>3, TotalStep
    <3>4. CASE y \notin E
      <4>1. E \cap s = E \cap t /\ b[y] = 0
        BY <3>1, <3>4
      <4>2. Cardinality(E \cap t) \in Int
        BY <2>1, FS_CardinalityType
      <4>3. k * Cardinality(E \cap t) \in Int
        BY <4>2
      <4> HIDE DEF t, y, G
      <4>5. Cardinality(E \cap s) = Cardinality(E \cap t)
        BY <4>1, Zenon
      <4>4. Total(b, s) = k * Cardinality(E \cap s)
        BY <3>2, <3>3, <4>1, <4>3, <4>5
      <4> QED BY <4>4 DEF G
    <3>5. CASE y \in E
      <4>1. E \cap s = (E \cap t) \cup {y} /\ y \notin E \cap t /\ b[y] = k
        BY <3>1, <3>5
      <4>2. Cardinality(E \cap t) \in Int
        BY <2>1, FS_CardinalityType
      <4>3. Cardinality(E \cap s) = Cardinality(E \cap t) + 1
        <5> HIDE DEF t, y
        <5> QED BY <2>1, <4>1, FS_AddElement
      <4> HIDE DEF t, y, G
      <4>4. k + k * Cardinality(E \cap t) = k * (Cardinality(E \cap t) + 1)
        BY <4>2
      <4>5. Total(b, s) = k * Cardinality(E \cap s)
        BY <3>2, <3>3, <4>1, <4>3, <4>4
      <4> QED BY <4>5 DEF G
    <3> QED BY <3>4, <3>5
  <2> QED BY <2>2, <2>3
<1> HIDE DEF G
<1>2. SUBSET S \subseteq G
  BY <1>1, Subsets
<1> QED BY <1>2 DEF G

-----------------------------------------------------------------------------
(* Sequences put one after the other.                                      *)
Joined(q, f) == f = [i \in 1 .. Len(q) |-> IF i = 1 THEN q[i] ELSE f[i - 1] \o q[i]]

LEMMA JoinedExist ==
  ASSUME NEW q, Len(q) \in Nat PROVE \E f : Joined(q, f)
<1> DEFINE Value(f, i) == IF i = 1 THEN q[i] ELSE f[i - 1] \o q[i]
           Good(n, f) == f = [i \in 1 .. Len(q) |-> f[i]] /\ \A i \in 1 .. Len(q) : i <= n => f[i] = Value(f, i)
           G == {n \in Nat : \E f : Good(n, f)}
<1>1. 0 \in G
  <2> DEFINE f == [i \in 1 .. Len(q) |-> 0]
  <2>1. f = [i \in 1 .. Len(q) |-> f[i]] /\ \A i \in 1 .. Len(q) : ~(i <= 0)
    OBVIOUS
  <2>2. Good(0, f)
    <3> HIDE DEF f, Value
    <3> QED BY <2>1
  <2> QED BY <2>2
<1>2. ASSUME NEW n \in Nat, n \in G PROVE n + 1 \in G
  <2>1. PICK f : Good(n, f)
    BY <1>2
  <2> DEFINE g == [i \in 1 .. Len(q) |-> IF i <= n THEN f[i] ELSE Value(f, i)]
  <2>2. \A i \in 1 .. Len(q) : i <= n => g[i] = f[i]
    OBVIOUS
  <2>3. \A i \in 1 .. Len(q) : i <= n + 1 => g[i] = Value(f, i)
    BY <2>1
  <2>4. ASSUME NEW i \in 1 .. Len(q), i <= n + 1 PROVE Value(g, i) = Value(f, i)
    <3>1. CASE i = 1
      BY <3>1
    <3>2. CASE i # 1
      <4>1. i - 1 \in 1 .. Len(q) /\ i - 1 <= n
        BY <2>4, <3>2
      <4>2. g[i - 1] = f[i - 1]
        BY <4>1, <2>2
      <4> QED BY <4>2
    <3> QED BY <3>1, <3>2
  <2>5. g = [i \in 1 .. Len(q) |-> g[i]]
    OBVIOUS
  <2> HIDE DEF g, Value
  <2>6. Good(n + 1, g)
    BY <2>3, <2>4, <2>5
  <2> HIDE DEF Good
  <2>7. n + 1 \in Nat
    OBVIOUS
  <2> QED BY <2>6, <2>7
<1>3. Len(q) \in G
  <2> HIDE DEF G
  <2> QED BY <1>1, <1>2, Upwards
<1>4. PICK f : Good(Len(q), f)
  BY <1>3
<1>5. f = [i \in 1 .. Len(q) |-> Value(f, i)]
  <2> HIDE DEF Value
  <2>1. f = [i \in 1 .. Len(q) |-> f[i]]
    BY <1>4, Zenon
  <2>2. \A i \in 1 .. Len(q) : i <= Len(q)
    OBVIOUS
  <2>3. \A i \in 1 .. Len(q) : f[i] = Value(f, i)
    BY <1>4, <2>2, Zenon
  <2> QED BY <2>1, <2>3
<1> QED BY <1>5 DEF Joined

LEMMA FlattenIsJoined ==
  ASSUME NEW q, Len(q) \in Nat \ {0} PROVE \E f : Joined(q, f) /\ FlattenSeq(q) = f[Len(q)]
<1> DEFINE f == CHOOSE g : Joined(q, g)
<1>1. Joined(q, f)
  BY JoinedExist
<1>2. ~(Len(q) = 0)
  OBVIOUS
<1>3. FlattenSeq(q) = f[Len(q)]
  BY <1>2, Zenon DEF FlattenSeq, Joined
<1> QED BY <1>1, <1>3

LEMMA JoinedSeqs ==
  ASSUME NEW S, NEW q \in Seq(Seq(S)), NEW f, Joined(q, f), NEW i \in 1 .. Len(q)
  PROVE  f[i] \in Seq(S)
<1> DEFINE G == {n \in Nat : n \in 1 .. Len(q) => f[n] \in Seq(S)}
<1>1. 0 \in G
  OBVIOUS
<1>2. ASSUME NEW n \in Nat, n \in G PROVE n + 1 \in G
  <2> SUFFICES ASSUME n + 1 \in 1 .. Len(q) PROVE f[n + 1] \in Seq(S)
    OBVIOUS
  <2>1. q[n + 1] \in Seq(S)
    OBVIOUS
  <2>2. f[n + 1] = IF n + 1 = 1 THEN q[n + 1] ELSE f[(n + 1) - 1] \o q[n + 1]
    BY DEF Joined
  <2>3. CASE n = 0
    BY <2>1, <2>2, <2>3
  <2>4. CASE n # 0
    <3>1. f[n] \in Seq(S) /\ (n + 1) - 1 = n /\ n + 1 # 1
      BY <1>2, <2>4
    <3>2. f[n + 1] = f[n] \o q[n + 1]
      BY <2>2, <3>1
    <3> QED BY <2>1, <3>1, <3>2, ConcatProperties
  <2> QED BY <2>3, <2>4
<1> HIDE DEF G
<1>3. Nat \subseteq G
  BY <1>1, <1>2, Upwards
<1>4. i \in G /\ Len(q) \in Nat
  BY <1>3
<1> QED BY <1>4 DEF G

Begins(q, p) ==
  Len(q) \in Nat /\ Len(p) \in Nat /\ Len(q) <= Len(p) /\ \A j \in 1 .. Len(q) : q[j] = p[j]

LEMMA JoinedAgree ==
  ASSUME NEW q, NEW p, Begins(q, p), NEW f, Joined(q, f), NEW g, Joined(p, g)
  PROVE  \A i \in 1 .. Len(q) : f[i] = g[i]
<1> SUFFICES ASSUME NEW i \in 1 .. Len(q) PROVE f[i] = g[i]
  OBVIOUS
<1> USE DEF Begins
<1> DEFINE G == {n \in Nat : n \in 1 .. Len(q) => f[n] = g[n]}
<1>1. 0 \in G
  OBVIOUS
<1>2. ASSUME NEW n \in Nat, n \in G PROVE n + 1 \in G
  <2> SUFFICES ASSUME n + 1 \in 1 .. Len(q) PROVE f[n + 1] = g[n + 1]
    OBVIOUS
  <2>1. n + 1 \in 1 .. Len(p) /\ q[n + 1] = p[n + 1]
    OBVIOUS
  <2>2. /\ f[n + 1] = IF n + 1 = 1 THEN q[n + 1] ELSE f[(n + 1) - 1] \o q[n + 1]
        /\ g[n + 1] = IF n + 1 = 1 THEN p[n + 1] ELSE g[(n + 1) - 1] \o p[n + 1]
    BY <2>1 DEF Joined
  <2>3. CASE n = 0
    BY <2>1, <2>2, <2>3
  <2>4. CASE n # 0
    <3>1. f[n] = g[n] /\ (n + 1) - 1 = n /\ n + 1 # 1
      BY <1>2, <2>4
    <3> QED BY <2>1, <2>2, <3>1
  <2> QED BY <2>3, <2>4
<1> HIDE DEF G
<1>3. Nat \subseteq G
  BY <1>1, <1>2, Upwards
<1>4. i \in G /\ Len(q) \in Nat
  BY <1>3
<1> QED BY <1>4 DEF G

LEMMA FlattenNone == FlattenSeq(<<>>) = <<>>
BY DEF FlattenSeq

LEMMA FlattenAppend ==
  ASSUME NEW S, NEW q \in Seq(Seq(S)), NEW s \in Seq(S)
  PROVE  /\ FlattenSeq(q) \in Seq(S)
         /\ FlattenSeq(Append(q, s)) = FlattenSeq(q) \o s
<1> DEFINE p == Append(q, s)
<1>1. /\ p \in Seq(Seq(S)) /\ Len(p) = Len(q) + 1 /\ Len(q) \in Nat
      /\ p[Len(q) + 1] = s /\ \A j \in 1 .. Len(q) : q[j] = p[j]
  OBVIOUS
<1> HIDE DEF p
<1> DEFINE m == Len(p)
<1>0. m \in Nat \ {0} /\ m \in 1 .. m
  BY <1>1
<1>2. PICK g : Joined(p, g) /\ FlattenSeq(p) = g[m]
  BY <1>0, FlattenIsJoined
<1>3. g[m] = IF m = 1 THEN p[m] ELSE g[m - 1] \o p[m]
  BY <1>0, <1>2 DEF Joined
<1>4. CASE q = <<>>
  <2>1. Len(p) = 1 /\ p[1] = s
    BY <1>1, <1>4
  <2>2. FlattenSeq(p) = s
    BY <1>2, <1>3, <2>1
  <2>3. <<>> \o s = s
    OBVIOUS
  <2>4. FlattenSeq(q) = <<>>
    BY <1>4, FlattenNone
  <2> QED BY <2>2, <2>3, <2>4 DEF p
<1>5. CASE q # <<>>
  <2>1. Len(q) \in Nat \ {0}
    BY <1>5
  <2>2. PICK f : Joined(q, f) /\ FlattenSeq(q) = f[Len(q)]
    BY <2>1, FlattenIsJoined
  <2>3. Len(q) \in 1 .. Len(q) /\ Len(q) <= Len(p)
    BY <1>1, <2>1
  <2>4. f[Len(q)] = g[Len(q)]
    <3>1. Begins(q, p)
      BY <1>1, <2>3 DEF Begins
    <3>2. \A i \in 1 .. Len(q) : f[i] = g[i]
      <4>1. Joined(p, g) /\ Joined(q, f)
        BY <1>2, <2>2
      <4> HIDE DEF m
      <4> QED BY <4>1, <3>1, JoinedAgree
    <3> QED BY <2>3, <3>2
  <2>5. f[Len(q)] \in Seq(S)
    BY <2>2, <2>3, JoinedSeqs
  <2>6. FlattenSeq(p) = g[Len(q)] \o s
    <3>1. Len(p) # 1 /\ Len(p) - 1 = Len(q) /\ p[Len(p)] = s
      BY <1>1, <2>1
    <3> QED BY <1>2, <1>3, <3>1
  <2> QED BY <2>2, <2>4, <2>5, <2>6 DEF p
<1> QED BY <1>4, <1>5

-----------------------------------------------------------------------------
(* The extrinsics of a chain.                                              *)
Parts(c) == [n \in DOMAIN c |-> c[n].xts]
Inc(c) == FlattenSeq(Parts(c))

LEMMA PartsAppend ==
  ASSUME NEW c \in Seq(Blocks), NEW block \in Blocks
  PROVE  /\ Parts(c) \in Seq(Seq(ReceiptType))
         /\ Parts(Append(c, block)) = Append(Parts(c), block.xts)
<1>1. \A d \in Seq(Blocks) : /\ Parts(d) \in Seq(Seq(ReceiptType)) /\ Len(Parts(d)) = Len(d)
                             /\ \A n \in 1 .. Len(d) : Parts(d)[n] = d[n].xts
  <2> SUFFICES ASSUME NEW d \in Seq(Blocks)
               PROVE  /\ Parts(d) \in Seq(Seq(ReceiptType)) /\ Len(Parts(d)) = Len(d)
                      /\ \A n \in 1 .. Len(d) : Parts(d)[n] = d[n].xts
    OBVIOUS
  <2>1. Parts(d) = [n \in 1 .. Len(d) |-> d[n].xts] /\ Len(d) \in Nat
    BY DEF Parts
  <2>2. \A b \in Blocks : b.xts \in Seq(ReceiptType)
    BY DEF Blocks
  <2>3. \A n \in 1 .. Len(d) : d[n] \in Blocks
    OBVIOUS
  <2>4. \A n \in 1 .. Len(d) : d[n].xts \in Seq(ReceiptType)
    BY <2>2, <2>3
  <2> QED BY <2>1, <2>4
<1> DEFINE d == Append(c, block)
           p == Append(Parts(c), block.xts)
<1>2. /\ d \in Seq(Blocks) /\ Len(d) = Len(c) + 1 /\ Len(c) \in Nat
      /\ d[Len(c) + 1] = block /\ \A n \in 1 .. Len(c) : d[n] = c[n]
  OBVIOUS
<1>3. block.xts \in Seq(ReceiptType)
  BY DEF Blocks
<1>4. /\ p \in Seq(Seq(ReceiptType)) /\ Len(p) = Len(c) + 1
      /\ p[Len(c) + 1] = block.xts /\ \A n \in 1 .. Len(c) : p[n] = c[n].xts
  BY <1>1, <1>3
<1> HIDE DEF d, p
<1>5. \A n \in 1 .. Len(c) + 1 : Parts(d)[n] = p[n]
  <2> SUFFICES ASSUME NEW n \in 1 .. Len(c) + 1 PROVE Parts(d)[n] = p[n]
    OBVIOUS
  <2>1. Parts(d)[n] = d[n].xts
    BY <1>1, <1>2
  <2>2. CASE n = Len(c) + 1
    BY <1>2, <1>4, <2>1, <2>2
  <2>3. CASE n # Len(c) + 1
    <3>1. n \in 1 .. Len(c)
      BY <1>2, <2>3
    <3>2. d[n] = c[n] /\ p[n] = c[n].xts
      BY <1>2, <1>4, <3>1
    <3> QED BY <2>1, <3>2
  <2> QED BY <2>2, <2>3
<1>6. Parts(d) = p
  BY <1>1, <1>2, <1>4, <1>5, SeqEqual
<1> QED BY <1>1, <1>6 DEF d, p

LEMMA IncAppend ==
  ASSUME NEW c \in Seq(Blocks), NEW block \in Blocks
  PROVE  /\ Inc(c) \in Seq(ReceiptType)
         /\ Inc(Append(c, block)) = Inc(c) \o block.xts
<1>1. block.xts \in Seq(ReceiptType)
  BY DEF Blocks
<1> QED BY <1>1, PartsAppend, FlattenAppend DEF Inc

LEMMA IncNone == Inc(<<>>) = <<>>
<1>1. Parts(<<>>) = <<>>
  BY DEF Parts
<1> QED BY <1>1, FlattenNone DEF Inc

(* A receipt in the last block is the last of the chain.                   *)
LEMMA IncReceipt ==
  ASSUME NEW c \in Seq(Blocks), c # <<>>, NEW e \in ReceiptType
  PROVE  /\ [c EXCEPT ![Len(c)].xts = Append(@, e)] \in Seq(Blocks)
         /\ Inc([c EXCEPT ![Len(c)].xts = Append(@, e)]) = Append(Inc(c), e)
<1> DEFINE n == Len(c)
           q == c[n].xts
           block == [c[n] EXCEPT !.xts = Append(@, e)]
           d == [c EXCEPT ![n] = block]
           f == Front(c)
<1>1. n \in Nat \ {0} /\ c[n] \in Blocks
  OBVIOUS
<1>2. q \in Seq(ReceiptType) /\ block \in Blocks /\ block.xts = Append(q, e)
  <2>1. \A b \in Blocks : /\ b.xts \in Seq(ReceiptType) /\ [b EXCEPT !.xts = Append(@, e)] \in Blocks
                          /\ [b EXCEPT !.xts = Append(@, e)].xts = Append(b.xts, e)
    <3> TAKE b \in Blocks
    <3> DEFINE u == Append(b.xts, e)
    <3>1. b.xts \in Seq(ReceiptType) /\ [b EXCEPT !.xts = Append(@, e)] = [b EXCEPT !.xts = u]
      BY DEF Blocks
    <3>2. u \in Seq(ReceiptType)
      BY <3>1
    <3> HIDE DEF u
    <3>3. [b EXCEPT !.xts = u] \in Blocks /\ [b EXCEPT !.xts = u].xts = u
      BY <3>2 DEF Blocks
    <3> QED BY <3>1, <3>3 DEF u
  <2> QED BY <1>1, <2>1
<1>3. f \in Seq(Blocks) /\ Len(f) = n - 1 /\ \A k \in 1 .. n - 1 : f[k] = c[k]
  BY FrontElements
<1>4. d \in Seq(Blocks) /\ Len(d) = n /\ d[n] = block /\ \A k \in 1 .. n - 1 : d[k] = c[k]
  <2> HIDE DEF block
  <2> QED BY <1>1, <1>2
<1>5. [c EXCEPT ![Len(c)].xts = Append(@, e)] = d
  OBVIOUS
<1> HIDE DEF d, block, q, f
<1>6. c = Append(f, c[n])
  <2> DEFINE g == Append(f, c[n])
  <2>1. g \in Seq(Blocks) /\ Len(g) = n /\ g[n] = c[n] /\ \A k \in 1 .. n - 1 : g[k] = c[k]
    <3> HIDE DEF n
    <3> QED BY <1>1, <1>3
  <2> HIDE DEF g
  <2>2. \A k \in 1 .. n : g[k] = c[k]
    BY <2>1
  <2>3. g = c
    BY <2>1, <2>2, SeqEqual
  <2> QED BY <2>3 DEF g
<1>7. d = Append(f, block)
  <2> DEFINE g == Append(f, block)
  <2>1. g \in Seq(Blocks) /\ Len(g) = n /\ g[n] = block /\ \A k \in 1 .. n - 1 : g[k] = c[k]
    <3> HIDE DEF n
    <3> QED BY <1>1, <1>2, <1>3
  <2> HIDE DEF g
  <2>2. \A k \in 1 .. n : g[k] = d[k]
    BY <1>4, <2>1
  <2>3. g = d
    BY <1>4, <2>1, <2>2, SeqEqual
  <2> QED BY <2>3 DEF g
<1>8. Inc(f) \in Seq(ReceiptType) /\ Inc(d) = Inc(f) \o Append(q, e)
  BY <1>2, <1>3, <1>7, IncAppend
<1>9. Inc(c) = Inc(f) \o q
  <2>1. Inc(Append(f, c[n])) = Inc(f) \o c[n].xts
    BY <1>1, <1>3, IncAppend
  <2> QED BY <1>6, <2>1 DEF q
<1>10. \A u, v \in Seq(ReceiptType) : u \o Append(v, e) = Append(u \o v, e)
  OBVIOUS
<1> QED BY <1>2, <1>4, <1>5, <1>8, <1>9, <1>10

-----------------------------------------------------------------------------
(* What the ledger l and the log g say, of extrinsics xs and receipts inc. *)
CallOf(xs, inc, k) == xs[inc[k].tx].call
Told(xs, inc) ==
  {k \in DOMAIN inc : inc[k].ok /\ CallOf(xs, inc, k).name \in {"increment", "reset"}}

Sent(call, e, a) == IF a = call.signer THEN 0 - Fee(call) - e.moved - e.dust ELSE 0
Got(call, e, a) == IF e.moved # 0 /\ a = call.dest THEN e.moved ELSE 0
ChangeOf(call, e, a) == Sent(call, e, a) + Got(call, e, a)
Changes(xs, inc, a) == [k \in DOMAIN inc |-> ChangeOf(CallOf(xs, inc, k), inc[k], a)]

Sound(l) ==
  /\ l.issuance = Total(l.balance, Accounts)
  /\ \A a \in Accounts : l.balance[a] = 0 \/ l.balance[a] >= ExistentialDeposit

MoneyOK(xs, inc, l) ==
  /\ Sound(l)
  /\ \A a \in Accounts : l.balance[a] = Endowed(a) + Total(Changes(xs, inc, a), DOMAIN inc)

EventOf(event, call) ==
  event.who = call.signer /\ (event.kind = "CounterReset" <=> call.name = "reset")

LogOK(xs, inc, g) ==
  /\ Len(g) = Cardinality(Told(xs, inc))
  /\ \A k \in Told(xs, inc) :
       EventOf(g[Cardinality(Told(xs, inc) \cap 1 .. k)], CallOf(xs, inc, k))

FollowsOK(xs, inc, l, g) ==
  /\ \A k \in DOMAIN inc : inc[k].tx \in DOMAIN xs /\ CallOf(xs, inc, k) \in Calls
  /\ MoneyOK(xs, inc, l)
  /\ LogOK(xs, inc, g)

LInv ==
  /\ FollowsOK(txs, Inc(chain), ledger, log)
  /\ FollowsOK(txs, Inc(before.chain), before.ledger, before.log)

(* More extrinsics change nothing about those included.                    *)
LEMMA FollowsMoreTxs ==
  ASSUME NEW xs, NEW ys, NEW inc, NEW l, NEW g, FollowsOK(xs, inc, l, g),
         DOMAIN xs \subseteq DOMAIN ys, \A i \in DOMAIN xs : ys[i] = xs[i]
  PROVE  FollowsOK(ys, inc, l, g)
<1>1. \A k \in DOMAIN inc : inc[k].tx \in DOMAIN ys /\ CallOf(ys, inc, k) = CallOf(xs, inc, k)
  BY DEF FollowsOK, CallOf
<1>2. MoneyOK(ys, inc, l)
  <2>1. \A a \in Accounts : Changes(ys, inc, a) = Changes(xs, inc, a)
    BY <1>1 DEF Changes
  <2> QED BY <2>1 DEF FollowsOK, MoneyOK
<1>3. Told(ys, inc) = Told(xs, inc)
  BY <1>1 DEF Told
<1>4. \A k \in Told(xs, inc) : k \in DOMAIN inc
  BY DEF Told
<1>5. LogOK(ys, inc, g)
  BY <1>1, <1>3, <1>4 DEF LogOK, FollowsOK
<1>6. \A k \in DOMAIN inc : inc[k].tx \in DOMAIN ys /\ CallOf(ys, inc, k) \in Calls
  BY <1>1 DEF FollowsOK
<1> QED BY <1>2, <1>5, <1>6 DEF FollowsOK

LEMMA ChangeInt ==
  ASSUME NEW call \in Calls, NEW e \in ReceiptType, NEW a PROVE ChangeOf(call, e, a) \in Int
<1>1. Fee(call) \in Nat /\ e.moved \in Int /\ e.dust \in Int
  BY WeightBounds DEF ReceiptType
<1>2. Sent(call, e, a) \in Int
  BY <1>1 DEF Sent
<1>3. Got(call, e, a) \in Int
  BY <1>1 DEF Got
<1> QED BY <1>2, <1>3 DEF ChangeOf

(* The receipts with one more: what became of an account's balance.        *)
LEMMA ChangeMore ==
  ASSUME NEW xs, NEW inc \in Seq(ReceiptType), NEW e \in ReceiptType, NEW a,
         \A k \in DOMAIN inc : CallOf(xs, inc, k) \in Calls, xs[e.tx].call \in Calls
  PROVE  /\ Total(Changes(xs, inc, a), DOMAIN inc) \in Int
         /\ Total(Changes(xs, Append(inc, e), a), DOMAIN Append(inc, e))
              = Total(Changes(xs, inc, a), DOMAIN inc) + ChangeOf(xs[e.tx].call, e, a)
<1> DEFINE n == Len(inc)
           more == Append(inc, e)
           p == Changes(xs, inc, a)
           q == Changes(xs, more, a)
<1>1. /\ n \in Nat /\ DOMAIN inc = 1 .. n /\ DOMAIN more = 1 .. n + 1
      /\ more[n + 1] = e /\ \A k \in 1 .. n : more[k] = inc[k] /\ inc[k] \in ReceiptType
  OBVIOUS
<1> HIDE DEF more
<1>2. \A k \in 1 .. n : q[k] = p[k] /\ p[k] \in Int
  <2> SUFFICES ASSUME NEW k \in 1 .. n PROVE q[k] = p[k] /\ p[k] \in Int
    OBVIOUS
  <2>1. k \in DOMAIN inc /\ k \in DOMAIN more /\ CallOf(xs, more, k) = CallOf(xs, inc, k)
    BY <1>1 DEF CallOf
  <2>2. p[k] = ChangeOf(CallOf(xs, inc, k), inc[k], a) /\ q[k] = ChangeOf(CallOf(xs, more, k), more[k], a)
    BY <2>1 DEF Changes
  <2>3. ChangeOf(CallOf(xs, inc, k), inc[k], a) \in Int
    BY <1>1, <2>1, ChangeInt
  <2>4. more[k] = inc[k]
    BY <1>1
  <2> HIDE DEF p, q, n
  <2> QED BY <2>1, <2>2, <2>3, <2>4
<1>3. q[n + 1] = ChangeOf(xs[e.tx].call, e, a) /\ q[n + 1] \in Int
  <2>1. n + 1 \in DOMAIN more
    BY <1>1
  <2>2. q[n + 1] = ChangeOf(CallOf(xs, more, n + 1), more[n + 1], a)
    BY <2>1 DEF Changes
  <2>3. CallOf(xs, more, n + 1) = xs[e.tx].call
    BY <1>1 DEF CallOf
  <2>4. ChangeOf(xs[e.tx].call, e, a) \in Int
    BY ChangeInt
  <2>5. more[n + 1] = e
    BY <1>1
  <2> HIDE DEF q, n
  <2> QED BY <2>2, <2>3, <2>4, <2>5
<1> HIDE DEF n, p, q
<1>4. IsFiniteSet(1 .. n) /\ IsFiniteSet(1 .. n + 1)
  BY <1>1, FS_Interval
<1>5. n + 1 \in 1 .. n + 1 /\ (1 .. n + 1) \ {n + 1} = 1 .. n
  BY <1>1
<1>6. \A k \in 1 .. n + 1 : q[k] \in Int
  <2> SUFFICES ASSUME NEW k \in 1 .. n + 1 PROVE q[k] \in Int
    OBVIOUS
  <2>1. k = n + 1 \/ k \in 1 .. n
    BY <1>1
  <2> QED BY <1>2, <1>3, <2>1
<1>7. Total(q, 1 .. n + 1) = q[n + 1] + Total(q, (1 .. n + 1) \ {n + 1})
  BY <1>4, <1>5, <1>6, TotalTake
<1>8. Total(q, 1 .. n) = Total(p, 1 .. n)
  BY <1>2, <1>4, TotalSame
<1>9. Total(p, 1 .. n) \in Int
  BY <1>2, <1>4, TotalInt
<1>10. Total(q, 1 .. n + 1) = Total(p, 1 .. n) + ChangeOf(xs[e.tx].call, e, a)
  <2>1. Total(q, (1 .. n + 1) \ {n + 1}) = Total(q, 1 .. n)
    BY <1>5, Zenon
  <2> QED BY <1>3, <1>7, <1>8, <1>9, <2>1
<1> QED BY <1>1, <1>9, <1>10 DEF p, q, more

(* The event of a call, if it has one.                                     *)
Tells(e, call) == e.ok /\ call.name \in {"increment", "reset"}

LEMMA LogOfReceipt ==
  ASSUME NEW xs, NEW inc \in Seq(ReceiptType), NEW e \in ReceiptType, NEW g \in Seq(Event), NEW h \in Seq(Event),
         LogOK(xs, inc, g), NEW call, call = xs[e.tx].call,
         ~Tells(e, call) => h = g,
         Tells(e, call) => \E event \in Event : h = Append(g, event) /\ EventOf(event, call)
  PROVE  LogOK(xs, Append(inc, e), h)
<1> DEFINE n == Len(inc)
           more == Append(inc, e)
           t == Told(xs, inc)
           u == Told(xs, more)
<1>1. /\ n \in Nat /\ DOMAIN inc = 1 .. n /\ DOMAIN more = 1 .. n + 1
      /\ more[n + 1] = e /\ \A k \in 1 .. n : more[k] = inc[k]
  OBVIOUS
<1> HIDE DEF more
<1>2. /\ \A k \in 1 .. n : CallOf(xs, more, k) = CallOf(xs, inc, k)
      /\ CallOf(xs, more, n + 1) = call
  BY <1>1 DEF CallOf
<1>3. t \subseteq 1 .. n /\ n + 1 \notin t
  BY <1>1 DEF Told
<1>4. u = IF Tells(e, call) THEN t \cup {n + 1} ELSE t
  <2>1. \A k \in 1 .. n : k \in u <=> k \in t
    BY <1>1, <1>2 DEF Told
  <2>2. n + 1 \in u <=> Tells(e, call)
    BY <1>1, <1>2 DEF Told, Tells
  <2>3. \A k \in u : k \in 1 .. n \/ k = n + 1
    BY <1>1 DEF Told
  <2> HIDE DEF t, u, n
  <2>4. ASSUME Tells(e, call) PROVE u = t \cup {n + 1}
    BY <1>3, <2>1, <2>2, <2>3, <2>4
  <2>5. ASSUME ~Tells(e, call) PROVE u = t
    BY <1>3, <2>1, <2>2, <2>3, <2>5
  <2> QED BY <2>4, <2>5, Zenon
<1> HIDE DEF t, u
<1>5. IsFiniteSet(t) /\ Cardinality(t) \in Nat /\ Len(g) = Cardinality(t)
  <2>1. IsFiniteSet(1 .. n)
    BY <1>1, FS_Interval
  <2>2. IsFiniteSet(t)
    BY <1>3, <2>1, FS_Subset
  <2>3. Len(g) = Cardinality(t)
    BY DEF LogOK, t
  <2> QED BY <2>2, <2>3, FS_CardinalityType
<1>6. \A k \in t : /\ k \in u /\ u \cap 1 .. k = t \cap 1 .. k /\ Cardinality(t \cap 1 .. k) \in 1 .. Len(g)
                   /\ CallOf(xs, more, k) = CallOf(xs, inc, k)
  <2> TAKE k \in t
  <2>1. k \in 1 .. n /\ k \in t \cap 1 .. k
    BY <1>1, <1>3
  <2>2. n + 1 \notin 1 .. k
    BY <1>1, <2>1
  <2>3. u \cap 1 .. k = t \cap 1 .. k /\ k \in u
    BY <1>4, <2>1, <2>2
  <2>4. IsFiniteSet(t \cap 1 .. k) /\ Cardinality(t \cap 1 .. k) <= Cardinality(t)
    BY <1>5, FS_Subset
  <2>5. Cardinality(t \cap 1 .. k) \in Nat /\ Cardinality(t \cap 1 .. k) # 0
    BY <2>1, <2>4, FS_CardinalityType, FS_EmptySet
  <2>6. Cardinality(t \cap 1 .. k) \in 1 .. Len(g)
    BY <1>5, <2>4, <2>5
  <2> QED BY <1>2, <2>1, <2>3, <2>6
<1>7. \A k \in t : EventOf(g[Cardinality(u \cap 1 .. k)], CallOf(xs, more, k))
  BY <1>6 DEF LogOK, t
<1>8. CASE ~Tells(e, call)
  <2>1. u = t /\ h = g
    BY <1>4, <1>8
  <2>2. Len(h) = Cardinality(u)
    BY <1>5, <2>1
  <2> QED BY <1>7, <2>1, <2>2 DEF LogOK, u, more
<1>9. CASE Tells(e, call)
  <2>1. PICK event \in Event : h = Append(g, event) /\ EventOf(event, call)
    BY <1>9
  <2>2. u = t \cup {n + 1}
    BY <1>4, <1>9
  <2>3. /\ Len(h) = Len(g) + 1 /\ h[Len(g) + 1] = event
        /\ \A j \in 1 .. Len(g) : h[j] = g[j]
    BY <2>1
  <2>4. Cardinality(u) = Cardinality(t) + 1
    BY <1>3, <1>5, <2>2, FS_AddElement
  <2>5. u \cap 1 .. n + 1 = u
    <3>1. n + 1 \in 1 .. n + 1 /\ \A k \in 1 .. n : k \in 1 .. n + 1
      BY <1>1
    <3>2. \A k \in u : k \in 1 .. n + 1
      BY <1>3, <2>2, <3>1
    <3> QED BY <3>2, Zenon
  <2>6. Len(h) = Cardinality(u)
    BY <1>5, <2>3, <2>4
  <2>7. ASSUME NEW k \in u
        PROVE  EventOf(h[Cardinality(u \cap 1 .. k)], CallOf(xs, more, k))
    <3>1. CASE k \in t
      <4>1. h[Cardinality(u \cap 1 .. k)] = g[Cardinality(u \cap 1 .. k)]
        BY <1>6, <2>3, <3>1
      <4> QED BY <1>7, <3>1, <4>1
    <3>2. CASE k = n + 1
      <4>1. h[Cardinality(u \cap 1 .. k)] = event
        BY <1>5, <2>3, <2>4, <2>5, <3>2
      <4> QED BY <1>2, <2>1, <3>2, <4>1
    <3> QED BY <2>2, <3>1, <3>2
  <2> QED BY <2>6, <2>7 DEF LogOK, u, more
<1> QED BY <1>8, <1>9

-----------------------------------------------------------------------------
(* The money, at the start, after a charge and after a transfer.           *)
LEMMA MoneyInit == ASSUME RuntimeInit PROVE MoneyOK(txs, <<>>, ledger)
<1> DEFINE endowed == LoadSpec(Chain).endowed
           b == ledger.balance
<1>1. /\ b = [a \in Accounts |-> IF a \in endowed \cap Accounts THEN Endowment ELSE 0]
      /\ ledger.issuance = Endowment * Cardinality(endowed \cap Accounts)
  BY DEF RuntimeInit
<1>2. \A a \in Accounts : Endowed(a) = IF a \in endowed THEN Endowment ELSE 0
  BY DEF Endowed
<1> HIDE DEF endowed
<1>3. IsFiniteSet(Accounts) /\ Endowment \in Int /\ ExistentialDeposit <= Endowment
  BY RuntimeAssumption
<1>4. \A a \in Accounts : b[a] = IF a \in endowed THEN Endowment ELSE 0
  BY <1>1
<1> HIDE DEF b
<1>5. Total(b, Accounts) = Endowment * Cardinality(endowed \cap Accounts)
  BY <1>3, <1>4, TotalConstant
<1>6. \A a \in Accounts : b[a] = 0 \/ b[a] >= ExistentialDeposit
  BY <1>3, <1>4, RuntimeAssumption
<1>7. \A a \in Accounts : b[a] = Endowed(a) + Total(Changes(txs, <<>>, a), DOMAIN <<>>)
  <2> SUFFICES ASSUME NEW a \in Accounts
               PROVE  b[a] = Endowed(a) + Total(Changes(txs, <<>>, a), DOMAIN <<>>)
    OBVIOUS
  <2>1. DOMAIN <<>> = {}
    OBVIOUS
  <2>2. Total(Changes(txs, <<>>, a), DOMAIN <<>>) = 0
    BY <2>1, TotalOfNone
  <2>3. Endowed(a) \in Int /\ b[a] = Endowed(a)
    BY <1>2, <1>3, <1>4
  <2> QED BY <2>2, <2>3
<1> QED BY <1>1, <1>5, <1>6, <1>7 DEF MoneyOK, Sound, b

LEMMA ChargeMoney ==
  ASSUME NEW l, LedgerOK(l), NEW call \in Calls, Sound(l),
         l.balance[call.signer] >= Fee(call) + ExistentialDeposit
  PROVE  /\ Sound(Charged(l, call))
         /\ \A x \in Accounts :
              Charged(l, call).balance[x] = l.balance[x] + (IF x = call.signer THEN 0 - Fee(call) ELSE 0)
<1> DEFINE a == call.signer
           fee == Fee(call)
           m == Charged(l, call)
           b == l.balance
           c == m.balance
<1>1. a \in Accounts /\ fee \in Nat /\ ExistentialDeposit \in Nat /\ IsFiniteSet(Accounts)
  BY WeightBounds, RuntimeAssumption
<1>2. m.balance = [l.balance EXCEPT ![a] = @ - fee] /\ m.issuance = l.issuance - fee
  BY DEF Charged, LedgerOK
<1>3. b \in [Accounts -> Nat]
  BY DEF LedgerOK
<1> HIDE DEF m, a, fee
<1>4. c[a] = b[a] - fee /\ \A x \in Accounts \ {a} : c[x] = b[x]
  BY <1>1, <1>2, <1>3
<1>5. b[a] >= fee + ExistentialDeposit
  BY DEF a, fee
<1> HIDE DEF b, c
<1>6. \A x \in Accounts : b[x] \in Int /\ c[x] \in Int
  <2> SUFFICES ASSUME NEW x \in Accounts PROVE b[x] \in Int /\ c[x] \in Int
    OBVIOUS
  <2>1. b[x] \in Nat
    BY <1>3
  <2>2. x = a \/ c[x] = b[x]
    BY <1>4
  <2> QED BY <1>1, <1>4, <2>1, <2>2
<1>7. Total(c, Accounts) = Total(b, Accounts) - b[a] + c[a]
  BY <1>1, <1>4, <1>6, TotalChange
<1>8. Total(b, Accounts) \in Int
  BY <1>1, <1>6, TotalInt
<1>9. Total(c, Accounts) = Total(b, Accounts) - fee
  BY <1>1, <1>4, <1>6, <1>7, <1>8
<1>10. l.issuance = Total(b, Accounts)
  BY DEF Sound, b
<1>11. m.issuance = Total(c, Accounts)
  BY <1>2, <1>9, <1>10
<1>12. \A x \in Accounts : c[x] = 0 \/ c[x] >= ExistentialDeposit
  <2> SUFFICES ASSUME NEW x \in Accounts PROVE c[x] = 0 \/ c[x] >= ExistentialDeposit
    OBVIOUS
  <2>1. CASE x = a
    BY <1>1, <1>4, <1>5, <1>6, <2>1
  <2>2. CASE x # a
    <3>1. c[x] = b[x]
      BY <1>4, <2>2
    <3>2. b[x] = 0 \/ b[x] >= ExistentialDeposit
      BY DEF Sound, b
    <3> QED BY <3>1, <3>2
  <2> QED BY <2>1, <2>2
<1>13. ASSUME NEW x \in Accounts PROVE c[x] = b[x] + (IF x = a THEN 0 - fee ELSE 0)
  BY <1>1, <1>4, <1>6
<1> QED BY <1>11, <1>12, <1>13 DEF Sound, a, b, c, m, fee

LEMMA TransferMoney ==
  ASSUME NEW l, LedgerOK(l), NEW call \in Calls, call.name \in Transfers, Sound(l),
         TransferAllowed(l, call), l.balance[call.signer] >= ExistentialDeposit,
         NEW m, Moves(l, call, m)
  PROVE  /\ Sound(Transferred(l, call))
         /\ \A x \in Accounts :
              Transferred(l, call).balance[x]
                = l.balance[x] + (IF x = call.signer THEN 0 - m.moved - m.dust ELSE 0)
                  + (IF m.moved # 0 /\ x = call.dest THEN m.moved ELSE 0)
<1>1. PICK s, d, b, c, ed : /\ s = call.signer /\ d = call.dest /\ b = l.balance /\ ed = ExistentialDeposit
                            /\ c = Credited(Debited(l.balance, call.signer, m), call.dest, m)
  OBVIOUS
<1>2. s \in Accounts /\ d \in Accounts /\ ed \in Nat \ {0} /\ b \in [Accounts -> Nat] /\ IsFiniteSet(Accounts)
  BY <1>1, CallTypes, RuntimeAssumption DEF LedgerOK
<1>3. Transferred(l, call).balance = c /\ Transferred(l, call).issuance = l.issuance - m.dust
  BY <1>1, TransferredFields DEF LedgerOK, Moves
<1>4. /\ c \in [Accounts -> Nat]
      /\ s = d => c = b
      /\ s # d => c[s] = b[s] - m.moved - m.dust /\ c[d] = b[d] + m.moved
      /\ \A x \in Accounts : x # s /\ x # d => c[x] = b[x]
  BY <1>1, TransferredBalance
<1>5. /\ m.moved \in Nat /\ m.dust \in Nat /\ m.reaped \in BOOLEAN
      /\ s = d => m.moved = 0 /\ m.dust = 0
      /\ m.reaped => b[s] = m.moved + m.dust
      /\ ~m.reaped => b[s] >= m.moved + ed /\ m.dust = 0
      /\ m.moved = 0 \/ b[d] + m.moved >= ed
  BY <1>1, MovementFacts DEF LedgerOK
<1>6. \A x \in Accounts : b[x] \in Nat /\ c[x] \in Nat
  BY <1>2, <1>4
<1>7. l.issuance = Total(b, Accounts) /\ \A x \in Accounts : b[x] = 0 \/ b[x] >= ed
  BY <1>1 DEF Sound
<1>8. Total(c, Accounts) = Total(b, Accounts) - m.dust
  <2>0. Total(b, Accounts) \in Int
    BY <1>2, <1>6, TotalInt
  <2>1. CASE s = d
    BY <1>4, <1>5, <2>0, <2>1
  <2>2. CASE s # d
    <3>1. PICK p : p = [b EXCEPT ![s] = c[s]]
      OBVIOUS
    <3>2. p \in [Accounts -> Nat] /\ p[s] = c[s] /\ \A x \in Accounts \ {s} : p[x] = b[x]
      BY <1>2, <1>6, <3>1
    <3>3. \A x \in Accounts : b[x] \in Int /\ p[x] \in Int /\ c[x] \in Int
      <4> SUFFICES ASSUME NEW x \in Accounts PROVE b[x] \in Int /\ p[x] \in Int /\ c[x] \in Int
        OBVIOUS
      <4>1. b[x] \in Nat /\ c[x] \in Nat
        BY <1>6
      <4>2. p[x] = b[x] \/ p[x] = c[x]
        BY <3>2
      <4> QED BY <4>1, <4>2
    <3>4. Total(p, Accounts) = Total(b, Accounts) - b[s] + p[s]
      BY <1>2, <3>2, <3>3, TotalChange
    <3>5. \A x \in Accounts \ {d} : p[x] = c[x]
      BY <1>4, <3>2
    <3>6. Total(c, Accounts) = Total(p, Accounts) - p[d] + c[d]
      BY <1>2, <3>3, <3>5, TotalChange
    <3>7. p[d] = b[d]
      BY <1>2, <2>2, <3>2
    <3>8. Total(p, Accounts) = Total(b, Accounts) - m.moved - m.dust
      BY <1>2, <1>4, <1>5, <1>6, <2>0, <2>2, <3>2, <3>4
    <3> QED BY <1>2, <1>4, <1>5, <1>6, <2>0, <2>2, <3>6, <3>7, <3>8
  <2> QED BY <2>1, <2>2
<1>9. ASSUME NEW x \in Accounts PROVE c[x] = 0 \/ c[x] >= ed
  <2>1. CASE x # s /\ x # d
    BY <1>4, <1>7, <2>1
  <2>2. CASE s = d
    BY <1>4, <1>7, <2>2
  <2>3. CASE s # d /\ x = s
    <3>1. c[x] = b[s] - m.moved - m.dust
      BY <1>4, <2>3
    <3>2. CASE m.reaped
      BY <1>2, <1>5, <1>6, <3>1, <3>2
    <3>3. CASE ~m.reaped
      BY <1>2, <1>5, <1>6, <3>1, <3>3
    <3> QED BY <3>2, <3>3
  <2>4. CASE s # d /\ x = d
    <3>1. c[x] = b[d] + m.moved
      BY <1>4, <2>4
    <3>2. CASE m.moved = 0
      BY <1>2, <1>6, <1>7, <3>1, <3>2
    <3>3. CASE m.moved # 0
      BY <1>5, <3>1, <3>3
    <3> QED BY <3>2, <3>3
  <2> QED BY <2>1, <2>2, <2>3, <2>4
<1>10. ASSUME NEW x \in Accounts
       PROVE  c[x] = b[x] + (IF x = s THEN 0 - m.moved - m.dust ELSE 0)
                     + (IF m.moved # 0 /\ x = d THEN m.moved ELSE 0)
  <2>1. b[x] \in Nat /\ c[x] \in Nat
    BY <1>6
  <2>2. CASE x # s /\ x # d
    BY <1>4, <2>1, <2>2
  <2>3. CASE s = d /\ x = s
    BY <1>4, <1>5, <2>1, <2>3
  <2>4. CASE s # d /\ x = s
    BY <1>4, <1>5, <2>1, <2>4
  <2>5. CASE s # d /\ x = d
    BY <1>4, <1>5, <2>1, <2>5
  <2> QED BY <2>2, <2>3, <2>4, <2>5
<1>11. l.issuance - m.dust = Total(c, Accounts)
  BY <1>7, <1>8
<1> QED BY <1>1, <1>3, <1>9, <1>10, <1>11 DEF Sound

-----------------------------------------------------------------------------
LEMMA FollowsInit == RuntimeInit => LInv
<1> SUFFICES ASSUME RuntimeInit PROVE LInv
  OBVIOUS
<1>1. chain = <<>> /\ log = <<>> /\ before.chain = chain /\ before.ledger = ledger /\ before.log = log
  BY DEF RuntimeInit, Init, State
<1>2. Inc(chain) = <<>>
  BY <1>1, IncNone
<1>3. Told(txs, <<>>) = {}
  BY DEF Told
<1>4. LogOK(txs, <<>>, <<>>)
  BY <1>3, FS_EmptySet DEF LogOK
<1>5. FollowsOK(txs, <<>>, ledger, <<>>)
  BY <1>4, MoneyInit DEF FollowsOK
<1> QED BY <1>1, <1>2, <1>5 DEF LInv

(* Steps after which each of the two chains is one of those before.        *)
LEMMA FollowsStay ==
  ASSUME LInv, UNCHANGED before,
         \/ UNCHANGED <<chain, ledger, log>>
         \/ chain' = before.chain /\ ledger' = before.ledger /\ log' = before.log,
         DOMAIN txs \subseteq DOMAIN txs', \A i \in DOMAIN txs : txs'[i] = txs[i]
  PROVE  LInv'
<1>1. /\ FollowsOK(txs', Inc(chain), ledger, log)
      /\ FollowsOK(txs', Inc(before.chain), before.ledger, before.log)
  BY FollowsMoreTxs DEF LInv
<1>2. FollowsOK(txs', Inc(chain'), ledger', log')
  BY <1>1
<1> QED BY <1>1, <1>2 DEF LInv

(* An applied extrinsic: what it does to the money, and what it tells.     *)
LEMMA ApplyMoney ==
  ASSUME RInv, NEW i \in DOMAIN txs, ApplyExtrinsic(i), Sound(ledger),
         NEW call, call = txs[i].call, NEW e \in ReceiptType,
         e = Receipt(i, Charged(ledger, call), Succeeds(Charged(ledger, call), call))
  PROVE  Sound(ledger') /\ \A x \in Accounts : ledger'.balance[x] = ledger.balance[x] + ChangeOf(call, e, x)
<1>1. PICK l, ok, fee : l = Charged(ledger, call) /\ ok = Succeeds(l, call) /\ fee = Fee(call)
  OBVIOUS
<1>2. call \in Calls /\ LedgerOK(ledger) /\ fee \in Nat
  BY <1>1, WeightBounds DEF RInv, TypesOf
<1>3. /\ ledger.balance[call.signer] >= fee + ExistentialDeposit
      /\ ledger.weight + Weight(call) <= MaxNormal
  BY <1>1 DEF ApplyExtrinsic, TxExtension, CanPay, State
<1>4. LedgerOK(l) /\ l.balance[call.signer] >= ExistentialDeposit
  BY <1>1, <1>2, <1>3, ChargeTypes
<1>5. Sound(l) /\ \A x \in Accounts :
                    l.balance[x] = ledger.balance[x] + (IF x = call.signer THEN 0 - fee ELSE 0)
  BY <1>1, <1>2, <1>3, ChargeMoney
<1>6. ledger' = IF ok /\ call.name \in Transfers THEN Transferred(l, call) ELSE l
  BY <1>1, Settles
<1>7. \A x \in Accounts : ledger.balance[x] \in Nat /\ l.balance[x] \in Nat
  BY <1>2, <1>4 DEF LedgerOK
<1>8. PICK m : m = IF ok /\ call.name \in Transfers THEN Movement(l, call) ELSE Nothing
  OBVIOUS
<1>9. e.moved = m.moved /\ e.dust = m.dust
  BY <1>1, <1>8 DEF Receipt
<1>10. CASE ok /\ call.name \in Transfers
  <2>1. TransferAllowed(l, call) /\ Moves(l, call, m)
    BY <1>1, <1>8, <1>10 DEF Succeeds, Transfers, Moves
  <2>2. /\ Sound(ledger')
        /\ \A x \in Accounts :
             ledger'.balance[x] = l.balance[x] + (IF x = call.signer THEN 0 - m.moved - m.dust ELSE 0)
                                  + (IF m.moved # 0 /\ x = call.dest THEN m.moved ELSE 0)
    BY <1>2, <1>4, <1>5, <1>6, <1>10, <2>1, TransferMoney
  <2>3. m.moved \in Nat /\ m.dust \in Nat
    BY <1>2, <1>4, <1>10, <2>1, MovementFacts DEF LedgerOK
  <2>4. ASSUME NEW x \in Accounts PROVE ledger'.balance[x] = ledger.balance[x] + ChangeOf(call, e, x)
    <3>1. PICK b0, b1, b2, r : /\ b0 = ledger.balance[x] /\ b1 = l.balance[x] /\ b2 = ledger'.balance[x]
                               /\ r = IF m.moved # 0 /\ x = call.dest THEN m.moved ELSE 0
      OBVIOUS
    <3>2. b0 \in Nat /\ b1 \in Nat /\ r \in Nat
      BY <1>7, <2>3, <3>1
    <3>3. b1 = b0 + (IF x = call.signer THEN 0 - fee ELSE 0)
      BY <1>5, <3>1
    <3>4. b2 = b1 + (IF x = call.signer THEN 0 - m.moved - m.dust ELSE 0) + r
      BY <2>2, <3>1
    <3>5. Sent(call, e, x) = IF x = call.signer THEN 0 - fee - m.moved - m.dust ELSE 0
      BY <1>1, <1>9 DEF Sent
    <3>6. Got(call, e, x) = r
      BY <1>9, <3>1 DEF Got
    <3>7. b2 = b0 + (Sent(call, e, x) + r)
      BY <1>2, <2>3, <3>2, <3>3, <3>4, <3>5
    <3> QED BY <3>1, <3>6, <3>7 DEF ChangeOf
  <2> QED BY <2>2, <2>4
<1>11. CASE ~(ok /\ call.name \in Transfers)
  <2>1. ledger' = l
    BY <1>6, <1>11
  <2>2. m.moved = 0 /\ m.dust = 0
    BY <1>8, <1>11 DEF Nothing
  <2>3. ASSUME NEW x \in Accounts PROVE ledger'.balance[x] = ledger.balance[x] + ChangeOf(call, e, x)
    <3>1. ledger'.balance[x] = ledger.balance[x] + (IF x = call.signer THEN 0 - fee ELSE 0)
      BY <1>5, <2>1
    <3>2. Sent(call, e, x) = (IF x = call.signer THEN 0 - fee ELSE 0) /\ Got(call, e, x) = 0
      BY <1>1, <1>2, <1>9, <2>2 DEF Sent, Got
    <3>3. ChangeOf(call, e, x) = (IF x = call.signer THEN 0 - fee ELSE 0)
      BY <1>2, <3>2 DEF ChangeOf
    <3> QED BY <3>1, <3>3
  <2> QED BY <1>5, <2>1, <2>3
<1> QED BY <1>10, <1>11

LEMMA ApplyTells ==
  ASSUME RInv, NEW i \in DOMAIN txs, ApplyExtrinsic(i), NEW call, call = txs[i].call,
         NEW e, e.ok = Succeeds(Charged(ledger, call), call)
  PROVE  /\ ~Tells(e, call) => log' = log
         /\ Tells(e, call) => \E event \in Event : log' = Append(log, event) /\ EventOf(event, call)
<1> DEFINE l == Charged(ledger, call)
<1>1. /\ Succeeds(l, call) => Dispatch(l, call)
      /\ ~Succeeds(l, call) => UNCHANGED pallets
  BY DEF ApplyExtrinsic
<1>2. e.ok = Succeeds(l, call)
  OBVIOUS
<1> HIDE DEF l
<1>3. ASSUME ~Tells(e, call) PROVE log' = log
  BY <1>1, <1>2, <1>3 DEF Tells, Dispatch, Transfers, pallets, vars
<1>4. ASSUME Tells(e, call), call.name = "increment"
      PROVE  \E event \in Event : log' = Append(log, event) /\ EventOf(event, call)
  <2>1. Increment(call.signer)
    BY <1>1, <1>2, <1>4 DEF Tells, Dispatch, Transfers
  <2>2. counter \in Nat /\ counter < MaxU64 /\ CheckedAddOne(counter) = counter + 1
    <3>1. counter \in Nat /\ CheckedAddOne(counter) # None
      BY <2>1, WidthAssumption DEF Increment, RInv, TypesOf, CounterOK
    <3> QED BY <3>1 DEF CheckedAddOne
  <2> DEFINE event == [kind |-> "CounterIncremented", new |-> counter + 1, who |-> call.signer]
  <2>3. log' = Append(log, event)
    BY <2>1, <2>2 DEF Increment
  <2>4. event \in Event
    <3>1. call.signer \in Accounts /\ counter + 1 \in 0 .. MaxU64
      BY <2>2, RuntimeAssumption, WidthAssumption DEF RInv
    <3> QED BY <3>1, <2>2, WidthAssumption DEF Event
  <2>5. EventOf(event, call)
    BY <1>4 DEF EventOf
  <2> QED BY <2>3, <2>4, <2>5
<1>5. ASSUME Tells(e, call), call.name = "reset"
      PROVE  \E event \in Event : log' = Append(log, event) /\ EventOf(event, call)
  <2>1. Reset(call.signer)
    BY <1>1, <1>2, <1>5 DEF Tells, Dispatch, Transfers
  <2> DEFINE event == [kind |-> "CounterReset", who |-> call.signer]
  <2>2. log' = Append(log, event)
    BY <2>1 DEF Reset
  <2>3. event \in Event
    BY RuntimeAssumption DEF RInv, Event
  <2>4. EventOf(event, call)
    BY <1>5 DEF EventOf
  <2> QED BY <2>2, <2>3, <2>4
<1> QED BY <1>3, <1>4, <1>5 DEF Tells

LEMMA FollowsApply == ASSUME IInv, RInv, RInv', LInv, NEW i \in DOMAIN txs, ApplyExtrinsic(i) PROVE LInv'
<1> DEFINE call == txs[i].call
           e == Receipt(i, Charged(ledger, call), Succeeds(Charged(ledger, call), call))
           inc == Inc(chain)
<1>1. UNCHANGED <<txs, before>> /\ building
  BY DEF ApplyExtrinsic
<1>2. chain \in Seq(Blocks) /\ chain # <<>> /\ TxsOK /\ ClockOK(ledger)
  BY <1>1 DEF IInv, ChainOK
<1>3. /\ call \in Calls /\ e \in ReceiptType /\ e.tx = i /\ e.ok = Succeeds(Charged(ledger, call), call)
      /\ chain' = [chain EXCEPT ![Len(chain)].xts = Append(@, e)]
  BY <1>2, ReceiptAdded
<1>4. (~Tells(e, call) => log' = log) /\
      (Tells(e, call) => \E event \in Event : log' = Append(log, event) /\ EventOf(event, call))
  BY <1>3, ApplyTells
<1>5. inc \in Seq(ReceiptType) /\ Inc(chain') = Append(inc, e)
  <2>1. inc \in Seq(ReceiptType)
    <3>1. Front(chain) \in Seq(Blocks) /\ Len(chain) \in DOMAIN chain /\ chain[Len(chain)] \in Blocks
      BY <1>2, FrontElements
    <3> QED BY <1>2, <3>1, IncAppend
  <2> HIDE DEF e
  <2> QED BY <1>2, <1>3, <2>1, IncReceipt
<1>6. /\ \A k \in DOMAIN inc : inc[k].tx \in DOMAIN txs /\ CallOf(txs, inc, k) \in Calls
      /\ MoneyOK(txs, inc, ledger) /\ LogOK(txs, inc, log)
  BY DEF LInv, FollowsOK
<1>7. txs[e.tx].call = call
  BY <1>3
<1>8. MoneyOK(txs, Append(inc, e), ledger')
  <2>1. Sound(ledger') /\ \A x \in Accounts : ledger'.balance[x] = ledger.balance[x] + ChangeOf(call, e, x)
    BY <1>3, <1>6, ApplyMoney DEF MoneyOK
  <2> HIDE DEF e, inc, call
  <2>2. ASSUME NEW x \in Accounts
        PROVE  ledger'.balance[x]
                 = Endowed(x) + Total(Changes(txs, Append(inc, e), x), DOMAIN Append(inc, e))
    <3>1. /\ Total(Changes(txs, inc, x), DOMAIN inc) \in Int
          /\ Total(Changes(txs, Append(inc, e), x), DOMAIN Append(inc, e))
               = Total(Changes(txs, inc, x), DOMAIN inc) + ChangeOf(call, e, x)
      BY <1>3, <1>5, <1>6, <1>7, ChangeMore
    <3>2. ledger.balance[x] = Endowed(x) + Total(Changes(txs, inc, x), DOMAIN inc)
      BY <1>6 DEF MoneyOK
    <3>3. ChangeOf(call, e, x) \in Int
      BY <1>3, ChangeInt
    <3>4. Endowed(x) \in Int
      BY RuntimeAssumption DEF Endowed
    <3> QED BY <2>1, <3>1, <3>2, <3>3, <3>4
  <2> QED BY <2>1, <2>2 DEF MoneyOK
<1> HIDE DEF inc, call, e
<1>9. LogOK(txs, Append(inc, e), log')
  <2>1. log \in Seq(Event) /\ log' \in Seq(Event)
    BY DEF RInv, TypesOf, CounterOK
  <2> QED BY <1>3, <1>4, <1>5, <1>6, <1>7, <2>1, LogOfReceipt
<1>10. \A k \in DOMAIN Append(inc, e) :
         Append(inc, e)[k].tx \in DOMAIN txs /\ CallOf(txs, Append(inc, e), k) \in Calls
  <2> SUFFICES ASSUME NEW k \in DOMAIN Append(inc, e)
               PROVE  Append(inc, e)[k].tx \in DOMAIN txs /\ CallOf(txs, Append(inc, e), k) \in Calls
    OBVIOUS
  <2>1. CASE k \in DOMAIN inc
    <3>1. Append(inc, e)[k] = inc[k]
      BY <1>3, <1>5, <2>1
    <3> QED BY <1>6, <2>1, <3>1 DEF CallOf
  <2>2. CASE k \notin DOMAIN inc
    <3>1. Append(inc, e)[k] = e
      BY <1>3, <1>5, <2>2
    <3> QED BY <1>2, <1>3, <1>7, <3>1 DEF CallOf
  <2> QED BY <2>1, <2>2
<1>11. FollowsOK(txs, Append(inc, e), ledger', log')
  BY <1>8, <1>9, <1>10 DEF FollowsOK
<1>12. FollowsOK(txs', Inc(chain'), ledger', log')
  BY <1>1, <1>5, <1>11
<1> QED BY <1>1, <1>12 DEF LInv

LEMMA FollowsStep == IInv /\ RInv /\ RInv' /\ LInv /\ [RuntimeNext]_runtimeVars => LInv'
<1> SUFFICES ASSUME IInv, RInv, RInv', LInv, [RuntimeNext]_runtimeVars PROVE LInv'
  OBVIOUS
<1>1. ASSUME NEW call \in Calls, Sign(call) PROVE LInv'
  <2> DEFINE x == Extrinsic(call)
  <2>1. txs' = Append(txs, x) /\ UNCHANGED <<chain, ledger, log, before>>
    BY <1>1 DEF Sign, pallets
  <2>2. IsSeq(txs)
    BY DEF IInv, TxsOK
  <2> HIDE DEF x
  <2>3. DOMAIN txs \subseteq DOMAIN txs' /\ \A i \in DOMAIN txs : txs'[i] = txs[i]
    BY <2>1, <2>2, AppendSeq
  <2> QED BY <2>1, <2>3, FollowsStay
<1>2. ASSUME NEW i \in DOMAIN txs, Resubmit(i) \/ Drop(i) PROVE LInv'
  BY <1>2, FollowsStay DEF Resubmit, Drop, pallets
<1>3. ASSUME NEW i \in DOMAIN txs, ApplyExtrinsic(i) PROVE LInv'
  BY <1>3, FollowsApply
<1>4. ASSUME NEW t \in Clocks, InitializeBlock(t) PROVE LInv'
  <2> DEFINE block == [hash |-> made + 1, xts |-> <<>>]
  <2>1. /\ UNCHANGED <<txs, log>> /\ chain' = Append(chain, block)
        /\ before'.chain = chain /\ before'.ledger = ledger /\ before'.log = log
    BY <1>4 DEF InitializeBlock, State
  <2>2. ledger'.balance = ledger.balance /\ ledger'.issuance = ledger.issuance
    BY <1>4 DEF InitializeBlock, RInv, TypesOf, LedgerOK
  <2>3. chain \in Seq(Blocks) /\ block \in Blocks /\ block.xts = <<>>
    BY DEF IInv, ChainOK, Blocks
  <2> HIDE DEF block
  <2>4. Inc(chain') = Inc(chain)
    <3>1. Inc(chain) \in Seq(ReceiptType) /\ Inc(chain') = Inc(chain) \o <<>>
      BY <2>1, <2>3, IncAppend
    <3> QED BY <3>1
  <2>5. FollowsOK(txs, Inc(chain), ledger, log)
    BY DEF LInv
  <2>6. FollowsOK(txs, Inc(chain), ledger', log)
    BY <2>2, <2>5 DEF FollowsOK, MoneyOK, Sound
  <2> QED BY <2>1, <2>4, <2>5, <2>6 DEF LInv
<1>5. CASE FinalizeBlock
  BY <1>5, FollowsStay DEF FinalizeBlock, pallets
<1>6. CASE Retract \/ Restart
  <2>1. UNCHANGED <<txs, before>>
    BY <1>6 DEF Retract, Restart
  <2>2. \/ UNCHANGED <<chain, ledger, log>>
        \/ chain' = before.chain /\ ledger' = before.ledger /\ log' = before.log
    BY <1>6 DEF Retract, Restart, Restore, pallets
  <2> QED BY <2>1, <2>2, FollowsStay
<1>7. CASE UNCHANGED runtimeVars
  BY <1>7, FollowsStay DEF runtimeVars, pallets
<1> QED BY <1>1, <1>2, <1>3, <1>4, <1>5, <1>6, <1>7 DEF RuntimeNext

LEMMA FollowsSays == LInv => StateFollowsChain
<1> SUFFICES ASSUME LInv PROVE StateFollowsChain
  OBVIOUS
<1>1. Included = Inc(chain)
  BY DEF Included, Inc, Parts
<1>2. \A k \in DOMAIN Included : Call(Included[k]) = CallOf(txs, Included, k)
  BY DEF Call, CallOf
<1>3. \A a \in Accounts : \A k \in DOMAIN Included :
        Changes(txs, Included, a)[k] = Change(Included[k], a)
  BY <1>2 DEF Changes, ChangeOf, Sent, Got, Change
<1>4. /\ ledger.issuance = Total(ledger.balance, Accounts)
      /\ \A a \in Accounts : ledger.balance[a] = 0 \/ ledger.balance[a] >= ExistentialDeposit
      /\ \A a \in Accounts :
           ledger.balance[a] = Endowed(a) + Total(Changes(txs, Included, a), DOMAIN Included)
      /\ LogOK(txs, Included, log)
  BY <1>1 DEF LInv, FollowsOK, MoneyOK, Sound
<1>5. ASSUME NEW a \in Accounts
      PROVE  ledger.balance[a] = Endowed(a) + SumFunction([k \in DOMAIN Included |-> Change(Included[k], a)])
  <2>1. PICK g : g = [k \in DOMAIN Included |-> Change(Included[k], a)]
    OBVIOUS
  <2>2. Changes(txs, Included, a) = g /\ DOMAIN g = DOMAIN Included
    BY <1>3, <2>1 DEF Changes
  <2> QED BY <1>4, <2>1, <2>2, Zenon DEF Total, SumFunction
<1> QED BY <1>4, <1>5, Zenon DEF StateFollowsChain, Total, Told, LogOK, EventOf, CallOf, Call

(* Every balance, the issuance and the events of the counter are what the  *)
(* chain's extrinsics made of the endowments, for any accounts, over       *)
(* transfers, reapings, retractions and restarts.                          *)
THEOREM LedgerFollowsChain == RuntimeSpec => []StateFollowsChain
<1> QED BY InvInit, InvStep, TypesInit, TypesStep, FollowsInit, FollowsStep, FollowsSays, PTL DEF RuntimeSpec
====
