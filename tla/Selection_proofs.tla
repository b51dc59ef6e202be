--------------------------- MODULE Selection_proofs ---------------------------
(* Laws of the selections of a list (Selection.tla).                          *)
EXTENDS Selection, Integers, TLAPS, FiniteSetTheorems, SequenceTheorems

-----------------------------------------------------------------------------
(* Products and quotients, which the provers do not find inside a larger step. *)

LEMMA MulMono == ASSUME NEW a \in Nat, NEW b \in Nat, NEW c \in Nat, a <= b PROVE a * c <= b * c
  OBVIOUS
LEMMA MulLess ==
    ASSUME NEW a \in Nat, NEW b \in Nat, NEW c \in Nat \ {0}, a * c < b * c PROVE a < b
  OBVIOUS
LEMMA MulAdd == ASSUME NEW k \in Nat, NEW b \in Nat PROVE (k + 1) * b = k * b + b /\ k * b \in Nat
  OBVIOUS
LEMMA DivIs ==
    ASSUME NEW a \in Nat, NEW b \in Nat \ {0}
    PROVE  (a \div b) \in Nat /\ (a \div b) * b <= a /\ a < (a \div b) * b + b
  OBVIOUS
LEMMA DivMod ==
    ASSUME NEW a \in Nat, NEW b \in Nat \ {0}
    PROVE  a = (a \div b) * b + (a % b) /\ a % b \in 0..(b - 1)
  OBVIOUS

-----------------------------------------------------------------------------
(* Numbers in order.                                                         *)

\* A set of numbers has a first one.
LEMMA FirstExists ==
    ASSUME NEW S, S \subseteq Nat, S # {}
    PROVE  \E x \in S : \A y \in S : x <= y
<1>1. PICK x \in S : \A y \in S : ~(<<y, x>> \in OpToRel(<, Nat))
  BY WFMin, NatLessThanWellFounded
<1>2. \A y \in S : ~(y < x)
  BY <1>1 DEF OpToRel
<1> QED BY <1>2

\* A bounded one has a last one.
LEMMA LastExists ==
    ASSUME NEW S, S \subseteq Nat, S # {}, NEW b \in Nat, \A x \in S : x <= b
    PROVE  \E x \in S : \A y \in S : y <= x
<1> DEFINE D == {b - x : x \in S}
<1>1. D \subseteq Nat /\ D # {}
  <2>1. ASSUME NEW x \in S PROVE b - x \in Nat
    <3>1. x \in Nat /\ x <= b
      OBVIOUS
    <3> QED BY <3>1
  <2> QED BY <2>1
<1>2. PICK d \in D : \A e \in D : d <= e
  BY <1>1, FirstExists
<1>3. PICK x \in S : d = b - x
  OBVIOUS
<1>4. ASSUME NEW y \in S PROVE y <= x
  <2>1. b - y \in D
    OBVIOUS
  <2> QED BY <1>2, <1>3, <2>1
<1> QED BY <1>4

\* Fewer numbers lie below a smaller one.
LEMMA BelowGrows ==
    ASSUME NEW P, P \subseteq Nat, IsFiniteSet(P), NEW x \in P, NEW y \in P, x < y
    PROVE  Cardinality(Below(P, x)) < Cardinality(Below(P, y))
<1>1. /\ Below(P, x) \subseteq Below(P, y) /\ Below(P, x) # Below(P, y) /\ Below(P, y) \subseteq P
  <2>1. x \in Nat /\ y \in Nat
    OBVIOUS
  <2>2. x \in Below(P, y) /\ x \notin Below(P, x)
    BY <2>1 DEF Below
  <2>3. ASSUME NEW z \in Below(P, x) PROVE z \in Below(P, y)
    <3>1. z \in P /\ z \in Nat /\ z < x
      BY DEF Below
    <3> QED BY <2>1, <3>1 DEF Below
  <2>4. Below(P, y) \subseteq P
    BY DEF Below
  <2> QED BY <2>2, <2>3, <2>4
<1>2. IsFiniteSet(Below(P, y)) /\ IsFiniteSet(Below(P, x))
  BY <1>1, FS_Subset
<1>3. Cardinality(Below(P, x)) <= Cardinality(Below(P, y))
      /\ Cardinality(Below(P, x)) # Cardinality(Below(P, y))
  BY <1>1, <1>2, FS_Subset
<1> QED BY <1>2, <1>3, FS_CardinalityType

LEMMA BelowBounds ==
    ASSUME NEW P, P \subseteq Nat, IsFiniteSet(P), NEW x \in P
    PROVE  /\ Cardinality(P) \in Nat /\ IsFiniteSet(Below(P, x)) /\ Cardinality(Below(P, x)) \in Nat
           /\ Cardinality(Below(P, x)) \in 0..(Cardinality(P) - 1)
<1>1. Below(P, x) \subseteq P /\ Below(P, x) # P
  BY DEF Below
<1>2. IsFiniteSet(Below(P, x)) /\ Cardinality(Below(P, x)) <= Cardinality(P)
      /\ Cardinality(Below(P, x)) # Cardinality(P)
  BY <1>1, FS_Subset
<1> QED BY <1>2, FS_CardinalityType

LEMMA BelowIsOne ==
    ASSUME NEW P, P \subseteq Nat, IsFiniteSet(P), NEW x \in P, NEW y \in P,
           Cardinality(Below(P, x)) = Cardinality(Below(P, y))
    PROVE  x = y
<1> DEFINE a == Cardinality(Below(P, x))
           b == Cardinality(Below(P, y))
<1>1. x \in Nat /\ y \in Nat
  OBVIOUS
<1>2. a \in Nat /\ b \in Nat
  BY BelowBounds
<1>3. (x < y => a < b) /\ (y < x => b < a)
  BY BelowGrows
<1>4. a = b
  OBVIOUS
<1> HIDE DEF a, b
<1> QED BY <1>1, <1>2, <1>3, <1>4

\* The number of those below names a number, and every count is taken.
LEMMA NthExists ==
    ASSUME NEW P, P \subseteq Nat, IsFiniteSet(P), NEW n \in 1..Cardinality(P)
    PROVE  \E x \in P : Cardinality(Below(P, x)) = n - 1
<1> DEFINE T == 0..(Cardinality(P) - 1)
           r == [x \in P |-> Cardinality(Below(P, x))]
<1>1. Cardinality(P) \in Nat
  BY FS_CardinalityType
<1>2. r \in [P -> T]
  BY BelowBounds
<1>3. ASSUME NEW x \in P, NEW y \in P, r[x] = r[y] PROVE x = y
  BY <1>3, BelowIsOne
<1>4. r \in Injection(P, T)
  BY <1>2, <1>3 DEF Injection, IsInjective
<1>5. IsFiniteSet(T) /\ Cardinality(T) = Cardinality(P)
  <2> DEFINE c == Cardinality(P) - 1
  <2>1. c \in Int /\ 0 \in Int
    BY <1>1
  <2> HIDE DEF c
  <2>2. IsFiniteSet(0..c) /\ Cardinality(0..c) = IF 0 > c THEN 0 ELSE c - 0 + 1
    BY <2>1, FS_Interval
  <2> QED BY <1>1, <2>2 DEF c
<1>6. r \in Surjection(P, T)
  BY <1>4, <1>5, FS_Injection
<1>7. n - 1 \in T
  BY <1>1
<1> HIDE DEF r, T
<1>8. PICK x \in P : r[x] = n - 1
  BY <1>6, <1>7 DEF Surjection
<1> QED BY <1>8 DEF r

LEMMA NthIsIn ==
    ASSUME NEW P, P \subseteq Nat, IsFiniteSet(P), NEW n \in 1..Cardinality(P)
    PROVE  Nth(P, n) \in P /\ Cardinality(Below(P, Nth(P, n))) = n - 1
  BY NthExists DEF Nth

\* A number is the n-th for the count of those below it.
LEMMA NthOfRank ==
    ASSUME NEW P, P \subseteq Nat, IsFiniteSet(P), NEW x \in P
    PROVE  /\ Cardinality(Below(P, x)) + 1 \in 1..Cardinality(P)
           /\ Nth(P, Cardinality(Below(P, x)) + 1) = x
<1> DEFINE n == Cardinality(Below(P, x)) + 1
<1>1. Cardinality(Below(P, x)) \in 0..(Cardinality(P) - 1) /\ Cardinality(P) \in Nat
  BY BelowBounds
<1>2. n \in 1..Cardinality(P)
  BY <1>1
<1>3. Nth(P, n) \in P /\ Cardinality(Below(P, Nth(P, n))) = n - 1
  BY <1>2, NthIsIn
<1>4. Cardinality(Below(P, Nth(P, n))) = Cardinality(Below(P, x))
  BY <1>1, <1>3
<1> HIDE DEF n
<1>5. Nth(P, n) = x
  BY <1>3, <1>4, BelowIsOne
<1> QED BY <1>2, <1>5 DEF n

\* The n-th and the m-th are in the order of n and m.
LEMMA NthIncreases ==
    ASSUME NEW P, P \subseteq Nat, IsFiniteSet(P), NEW n \in 1..Cardinality(P),
           NEW m \in 1..Cardinality(P), n < m
    PROVE  Nth(P, n) < Nth(P, m)
<1>1. /\ Nth(P, n) \in P /\ Cardinality(Below(P, Nth(P, n))) = n - 1
      /\ Nth(P, m) \in P /\ Cardinality(Below(P, Nth(P, m))) = m - 1
  BY NthIsIn
<1>2. Cardinality(P) \in Nat
  BY FS_CardinalityType
<1>3. n \in Nat /\ m \in Nat /\ Nth(P, n) \in Nat /\ Nth(P, m) \in Nat
  <2>1. Nth(P, n) \in Nat /\ Nth(P, m) \in Nat
    BY <1>1
  <2> QED BY <1>2, <2>1
<1>4. Nth(P, n) # Nth(P, m)
  BY <1>1, <1>3
<1>5. Nth(P, m) < Nth(P, n) => m - 1 < n - 1
  BY <1>1, BelowGrows
<1> QED BY <1>3, <1>4, <1>5

\* The largest-first list of a set holds the set, each number once.
LEMMA DescendingHolds ==
    ASSUME NEW P, P \subseteq Nat, IsFiniteSet(P)
    PROVE  /\ Len(Descending(P)) = Cardinality(P) /\ Cardinality(P) \in Nat
           /\ Descending(P) \in Seq(P)
           /\ \A n \in 1..Cardinality(P) : Descending(P)[n] \in P
           /\ \A x \in P : \E n \in 1..Cardinality(P) : Descending(P)[n] = x
<1>1. Cardinality(P) \in Nat
  BY FS_CardinalityType
<1>2. Descending(P) \in Seq(P) /\ Len(Descending(P)) = Cardinality(P)
  <2>1. ASSUME NEW n \in 1..Cardinality(P) PROVE Nth(P, Cardinality(P) + 1 - n) \in P
    <3>1. Cardinality(P) + 1 - n \in 1..Cardinality(P)
      BY <1>1
    <3> QED BY <3>1, NthIsIn
  <2> QED BY <1>1, <2>1 DEF Descending
<1>3. ASSUME NEW n \in 1..Cardinality(P) PROVE Descending(P)[n] \in P
  BY <1>2
<1>4. ASSUME NEW x \in P PROVE \E n \in 1..Cardinality(P) : Descending(P)[n] = x
  <2> DEFINE k == Cardinality(Below(P, x)) + 1
             n == Cardinality(P) + 1 - k
  <2>1. k \in 1..Cardinality(P) /\ Nth(P, k) = x
    BY NthOfRank
  <2> HIDE DEF k
  <2>2. n \in 1..Cardinality(P) /\ Cardinality(P) + 1 - n = k
    BY <1>1, <2>1
  <2>3. Descending(P)[n] = Nth(P, k)
    BY <2>2 DEF Descending
  <2> QED BY <2>1, <2>2, <2>3
<1> QED BY <1>1, <1>2, <1>3, <1>4

-----------------------------------------------------------------------------
(* What is selected of a list.                                               *)

LEMMA PlacesFinite ==
    ASSUME NEW V, NEW s \in Seq(V), NEW K
    PROVE  /\ PlacesIn(s, K) \subseteq 1..Len(s) /\ PlacesIn(s, K) \subseteq Nat
           /\ IsFiniteSet(PlacesIn(s, K)) /\ Cardinality(PlacesIn(s, K)) \in 0..Len(s)
<1>1. Len(s) \in Nat
  OBVIOUS
<1>2. PlacesIn(s, K) \subseteq 1..Len(s)
  BY DEF PlacesIn
<1>3. IsFiniteSet(1..Len(s)) /\ Cardinality(1..Len(s)) = Len(s)
  <2> DEFINE c == Len(s)
  <2>1. c \in Int /\ 1 \in Int
    BY <1>1
  <2> HIDE DEF c
  <2>2. IsFiniteSet(1..c) /\ Cardinality(1..c) = IF 1 > c THEN 0 ELSE c - 1 + 1
    BY <2>1, FS_Interval
  <2> QED BY <1>1, <2>2 DEF c
<1>4. IsFiniteSet(PlacesIn(s, K)) /\ Cardinality(PlacesIn(s, K)) <= Cardinality(1..Len(s))
  BY <1>2, <1>3, FS_Subset
<1>5. Cardinality(PlacesIn(s, K)) \in Nat
  BY <1>4, FS_CardinalityType
<1> QED BY <1>1, <1>2, <1>3, <1>4, <1>5

\* The n-th element that is selected is at the n-th place of one in K; none is left out.
ListsThePlaces(s, K) ==
    /\ Len(Selected(s, K)) = Cardinality(PlacesIn(s, K))
    /\ \A n \in 1..Len(Selected(s, K)) :
         /\ Nth(PlacesIn(s, K), n) \in PlacesIn(s, K)
         /\ Selected(s, K)[n] = s[Nth(PlacesIn(s, K), n)]
    /\ \A i \in 1..Len(s) : s[i] \in K =>
         \E n \in 1..Len(Selected(s, K)) : Selected(s, K)[n] = s[i]

\* It is a list of elements of s that are in K, one for each place of s with one.
LEMMA SelectedLists ==
    ASSUME NEW V, NEW s \in Seq(V), NEW K
    PROVE  Selected(s, K) \in Seq(V \cap K) /\ ListsThePlaces(s, K)
<1> DEFINE P == PlacesIn(s, K)
           c == Cardinality(P)
<1>1. P \subseteq 1..Len(s) /\ P \subseteq Nat /\ IsFiniteSet(P) /\ c \in Nat
  BY PlacesFinite
<1>2. \A n \in 1..c : Nth(P, n) \in P
  BY <1>1, NthIsIn
<1>3. \A i \in P : s[i] \in V \cap K
  BY DEF PlacesIn
<1>4. Selected(s, K) = [n \in 1..c |-> s[Nth(P, n)]]
  BY DEF Selected
<1>5. \A i \in 1..Len(s) : s[i] \in K => \E n \in 1..c : Nth(P, n) = i
  <2>1. ASSUME NEW i \in 1..Len(s), s[i] \in K PROVE \E n \in 1..c : Nth(P, n) = i
    <3>1. i \in P
      BY <2>1 DEF PlacesIn
    <3> HIDE DEF P
    <3> QED BY <1>1, <3>1, NthOfRank
  <2> QED BY <2>1
<1> HIDE DEF P, c
<1>6. Selected(s, K) \in Seq(V \cap K) /\ Len(Selected(s, K)) = c
  <2>1. \A n \in 1..c : s[Nth(P, n)] \in V \cap K
    BY <1>2, <1>3
  <2> DEFINE g == [n \in 1..c |-> s[Nth(P, n)]]
             U == V \cap K
  <2>2. g \in [1..c -> U]
    BY <2>1
  <2> HIDE DEF g, U
  <2>3. g \in Seq(U) /\ Len(g) = c
    BY <1>1, <2>2, SeqDef
  <2> QED BY <1>4, <2>3 DEF g, U
<1>7. ASSUME NEW i \in 1..Len(s), s[i] \in K PROVE \E n \in 1..c : Selected(s, K)[n] = s[i]
  BY <1>4, <1>5, <1>7
<1>8. \A n \in 1..c : Nth(P, n) \in P /\ Selected(s, K)[n] = s[Nth(P, n)]
  BY <1>2, <1>4
<1>9. ListsThePlaces(s, K)
  BY <1>6, <1>7, <1>8 DEF ListsThePlaces, P, c
<1> QED BY <1>6, <1>9

LEMMA SelectedIsList ==
    ASSUME NEW V, NEW s \in Seq(V), NEW K
    PROVE  /\ Selected(s, K) \in Seq(V \cap K)
           /\ Len(Selected(s, K)) = Cardinality(PlacesIn(s, K))
           /\ \A n \in 1..Len(Selected(s, K)) :
                 /\ Nth(PlacesIn(s, K), n) \in PlacesIn(s, K)
                 /\ Selected(s, K)[n] = s[Nth(PlacesIn(s, K), n)]
           /\ \A i \in 1..Len(s) : s[i] \in K =>
                 \E n \in 1..Len(Selected(s, K)) : Selected(s, K)[n] = s[i]
<1>1. Selected(s, K) \in Seq(V \cap K) /\ ListsThePlaces(s, K)
  BY SelectedLists
<1> QED BY <1>1 DEF ListsThePlaces

\* An element more at the end is one more selected at the end, or none.
LEMMA SelectedAppend ==
    ASSUME NEW V, NEW s \in Seq(V), NEW x \in V, NEW K
    PROVE  Selected(Append(s, x), K) =
             IF x \in K THEN Append(Selected(s, K), x) ELSE Selected(s, K)
<1> DEFINE t == Append(s, x)
           P == PlacesIn(s, K)
           Q == PlacesIn(t, K)
           c == Cardinality(P)
           m == Len(s) + 1
<1>1. /\ t \in Seq(V) /\ Len(t) = m /\ m \in Nat /\ Len(s) \in Nat /\ t[m] = x
      /\ \A i \in 1..Len(s) : t[i] = s[i]
  OBVIOUS
<1>2. /\ P \subseteq 1..Len(s) /\ P \subseteq Nat /\ IsFiniteSet(P) /\ c \in Nat
      /\ Q \subseteq 1..m /\ Q \subseteq Nat /\ IsFiniteSet(Q)
  <2>1. P \subseteq 1..Len(s) /\ P \subseteq Nat /\ IsFiniteSet(P) /\ c \in 0..Len(s)
    BY PlacesFinite
  <2> HIDE DEF t
  <2>2. Q \subseteq 1..Len(t) /\ Q \subseteq Nat /\ IsFiniteSet(Q)
    BY <1>1, PlacesFinite
  <2> QED BY <1>1, <2>1, <2>2
<1>3. Q = IF x \in K THEN P \cup {m} ELSE P
  <2>1. ASSUME NEW i \in 1..m PROVE i \in Q <=> i \in P \/ (i = m /\ x \in K)
    BY <1>1 DEF PlacesIn
  <2> HIDE DEF P, Q, m
  <2>2. P \subseteq 1..m
    BY <1>1, <1>2 DEF m
  <2>3. m \in 1..m
    BY <1>1 DEF m
  <2> QED BY <1>2, <2>1, <2>2, <2>3
<1>4. Selected(s, K) = [n \in 1..c |-> s[Nth(P, n)]]
      /\ Selected(t, K) = [n \in 1..Cardinality(Q) |-> t[Nth(Q, n)]]
  BY DEF Selected
<1>5. \A n \in 1..c : Nth(P, n) \in P
  BY <1>2, NthIsIn
<1>6. CASE x \notin K
  <2>1. Q = P
    BY <1>3, <1>6
  <2> HIDE DEF P, Q, t, m, c
  <2>2. Selected(t, K) = [n \in 1..c |-> s[Nth(P, n)]]
    BY <1>1, <1>2, <1>4, <1>5, <2>1 DEF c
  <2> QED BY <1>4, <1>6, <2>2 DEF t
<1>7. CASE x \in K
  <2>1. Q = P \cup {m} /\ m \notin P
    <3>1. m \notin 1..Len(s)
      BY <1>1
    <3> QED BY <1>2, <1>3, <1>7, <3>1
  <2> HIDE DEF P, Q, m, t
  <2>2. Cardinality(Q) = c + 1
    BY <1>2, <2>1, FS_AddElement
  <2>3. \A i \in P : i < m
    <3>1. ASSUME NEW i \in P PROVE i < m
      <4>1. i \in 1..Len(s)
        BY <1>2
      <4> QED BY <1>1, <4>1 DEF m
    <3> QED BY <3>1
  <2>4. ASSUME NEW n \in 1..c PROVE Nth(Q, n) = Nth(P, n)
    <3> DEFINE y == Nth(P, n)
    <3>1. y \in P /\ Cardinality(Below(P, y)) = n - 1
      BY <1>2, NthIsIn
    <3>2. y \in Nat /\ m \in Nat /\ y < m
      BY <1>1, <1>2, <2>3, <3>1
    <3>3. Below(Q, y) = Below(P, y)
      BY <2>1, <3>2 DEF Below
    <3>4. y \in Q /\ Cardinality(Below(Q, y)) + 1 = n
      BY <1>2, <2>1, <3>1, <3>3
    <3> HIDE DEF y
    <3>5. Nth(Q, Cardinality(Below(Q, y)) + 1) = y
      BY <1>2, <3>4, NthOfRank
    <3> QED BY <3>4, <3>5 DEF y
  <2>5. Nth(Q, c + 1) = m
    <3>1. Below(Q, m) = P
      <4>1. m \in Nat
        BY <1>1
      <4>2. ~(m < m)
        BY <4>1
      <4> QED BY <2>1, <2>3, <4>2 DEF Below
    <3>2. m \in Q
      BY <2>1
    <3>3. Nth(Q, Cardinality(Below(Q, m)) + 1) = m
      BY <1>2, <3>2, NthOfRank
    <3> QED BY <3>1, <3>3
  <2>6. Selected(s, K) \in Seq(V) /\ Len(Selected(s, K)) = c
        /\ \A n \in 1..c : Selected(s, K)[n] = s[Nth(P, n)]
    <3>1. ASSUME NEW n \in 1..c PROVE s[Nth(P, n)] \in V
      <4>1. Nth(P, n) \in 1..Len(s)
        BY <1>2, <1>5
      <4> QED BY <4>1
    <3> HIDE DEF c
    <3> QED BY <1>2, <1>4, <3>1
  <2>7. \A n \in 1..(c + 1) : t[Nth(Q, n)] = Append(Selected(s, K), x)[n]
    <3>1. ASSUME NEW n \in 1..c PROVE t[Nth(Q, n)] = Append(Selected(s, K), x)[n]
      <4>1. t[Nth(Q, n)] = s[Nth(P, n)]
        BY <1>1, <1>2, <1>5, <2>4
      <4> HIDE DEF c
      <4> QED BY <1>2, <2>6, <4>1
    <3>2. t[Nth(Q, c + 1)] = Append(Selected(s, K), x)[c + 1]
      <4> HIDE DEF c
      <4> QED BY <1>1, <1>2, <2>5, <2>6
    <3> HIDE DEF c
    <3>3. \A n \in 1..(c + 1) : n \in 1..c \/ n = c + 1
      BY <1>2
    <3> QED BY <3>1, <3>2, <3>3
  <2> HIDE DEF c
  <2>8. Append(Selected(s, K), x) = [n \in 1..(c + 1) |-> Append(Selected(s, K), x)[n]]
    <3> DEFINE u == Append(Selected(s, K), x)
    <3>1. u \in Seq(V) /\ Len(u) = c + 1
      BY <1>2, <2>6
    <3> HIDE DEF u
    <3>2. u \in [1..(c + 1) -> V]
      BY <3>1, LenProperties
    <3>3. u = [n \in 1..(c + 1) |-> u[n]]
      BY <3>2
    <3> QED BY <3>3 DEF u
  <2>9. Selected(t, K) = [n \in 1..(c + 1) |-> Append(Selected(s, K), x)[n]]
    BY <1>4, <2>2, <2>7
  <2> QED BY <1>7, <2>8, <2>9 DEF t
<1> QED BY <1>6, <1>7

\* The prefixes of a list, one element at a time.
LEMMA PrefixUnfolds ==
    ASSUME NEW V, NEW s \in Seq(V)
    PROVE  /\ Len(s) \in Nat /\ SubSeq(s, 1, 0) = <<>> /\ SubSeq(s, 1, Len(s)) = s
           /\ \A n \in 0..Len(s) : SubSeq(s, 1, n) \in Seq(V) /\ Len(SubSeq(s, 1, n)) = n
           /\ \A n \in 1..Len(s) : /\ s[n] \in V /\ n - 1 \in 0..Len(s)
                                   /\ SubSeq(s, 1, n) = Append(SubSeq(s, 1, n - 1), s[n])
<1>1. Len(s) \in Nat /\ SubSeq(s, 1, Len(s)) = s
  BY SubSeqFull
<1>2. SubSeq(s, 1, 0) = <<>>
  BY SubSeqEmpty
<1>3. ASSUME NEW n \in 0..Len(s)
      PROVE  SubSeq(s, 1, n) \in Seq(V) /\ Len(SubSeq(s, 1, n)) = n
  <2>1. n \in Nat /\ n <= Len(s)
    BY <1>1
  <2> QED BY <2>1
<1>4. ASSUME NEW n \in 1..Len(s)
      PROVE  /\ s[n] \in V /\ n - 1 \in 0..Len(s)
             /\ SubSeq(s, 1, n) = Append(SubSeq(s, 1, n - 1), s[n])
  <2>1. n \in Nat /\ n <= Len(s) /\ 1 <= n /\ s[n] \in V /\ n - 1 \in 0..Len(s)
    BY <1>1
  <2>2. 1 \in 1..Len(s) /\ n \in 1..Len(s)
    BY <1>1, <2>1
  <2>3. SubSeq(s, 1, n) = SubSeq(s, 1, n - 1) \o <<s[n]>>
    BY <2>2, SubSeqRecursiveSecond
  <2>4. SubSeq(s, 1, n - 1) \in Seq(V)
    BY <1>3, <2>1
  <2>5. Append(SubSeq(s, 1, n - 1), s[n]) = SubSeq(s, 1, n - 1) \o <<s[n]>>
    BY <2>1, <2>4, AppendIsConcat
  <2> QED BY <2>1, <2>3, <2>5
<1> QED BY <1>1, <1>2, <1>3, <1>4

\* Nothing is selected of nothing.
LEMMA SelectedOfNone == ASSUME NEW K PROVE Selected(<<>>, K) = <<>>
<1>1. <<>> \in Seq({}) /\ Len(<<>>) = 0
  OBVIOUS
<1>2. PlacesIn(<<>>, K) = {}
  BY <1>1 DEF PlacesIn
<1>3. Len(Selected(<<>>, K)) = 0 /\ Selected(<<>>, K) \in Seq({} \cap K)
  BY <1>1, <1>2, SelectedIsList, FS_EmptySet
<1> QED BY <1>3

LEMMA ConcatAppends ==
    ASSUME NEW V, NEW a \in Seq(V), NEW b \in Seq(V), NEW x \in V
    PROVE  a \o Append(b, x) = Append(a \o b, x)
<1>1. Append(b, x) = b \o <<x>> /\ a \o b \in Seq(V) /\ <<x>> \in Seq(V)
  BY AppendIsConcat
<1>2. Append(a \o b, x) = (a \o b) \o <<x>>
  BY <1>1, AppendIsConcat
<1> QED BY <1>1, <1>2, ConcatAssociative

\* What is selected of two lists is selected of each.
LEMMA SelectedConcat ==
    ASSUME NEW V, NEW a \in Seq(V), NEW b \in Seq(V), NEW K
    PROVE  Selected(a \o b, K) = Selected(a, K) \o Selected(b, K)
<1> DEFINE c(n) == SubSeq(b, 1, n)
           U == V \cap K
           Fails(n) == Selected(a \o c(n), K) # Selected(a, K) \o Selected(c(n), K)
           S == {n \in 0..Len(b) : Fails(n)}
<1>1. /\ Len(b) \in Nat /\ c(0) = <<>> /\ c(Len(b)) = b
      /\ \A n \in 0..Len(b) : c(n) \in Seq(V)
      /\ \A n \in 1..Len(b) : b[n] \in V /\ n - 1 \in 0..Len(b) /\ c(n) = Append(c(n - 1), b[n])
  BY PrefixUnfolds
<1>2. Selected(a, K) \in Seq(U) /\ \A n \in 0..Len(b) : Selected(c(n), K) \in Seq(U)
  BY <1>1, SelectedIsList
<1> HIDE DEF c
<1>3. ~Fails(0)
  <2>1. a \o <<>> = a /\ Selected(a, K) \o <<>> = Selected(a, K)
    BY <1>2, ConcatEmptySeq
  <2> QED BY <1>1, <2>1, SelectedOfNone
<1>4. ASSUME NEW n \in 1..Len(b), ~Fails(n - 1) PROVE ~Fails(n)
  <2> DEFINE x == b[n]
             d == c(n - 1)
  <2>1. x \in V /\ d \in Seq(V) /\ c(n) = Append(d, x) /\ a \o d \in Seq(V)
        /\ Selected(a, K) \in Seq(U) /\ Selected(d, K) \in Seq(U)
        /\ Selected(a \o d, K) = Selected(a, K) \o Selected(d, K)
    <3>1. n - 1 \in 0..Len(b) /\ x \in V /\ c(n) = Append(d, x)
      BY <1>1
    <3>2. d \in Seq(V) /\ Selected(d, K) \in Seq(U) /\ Selected(a, K) \in Seq(U)
      BY <1>1, <1>2, <3>1
    <3>3. a \o d \in Seq(V)
      <4> HIDE DEF d
      <4> QED BY <3>2, ConcatProperties
    <3>4. Selected(a \o d, K) = Selected(a, K) \o Selected(d, K)
      BY <1>4
    <3> QED BY <3>1, <3>2, <3>3, <3>4
  <2> HIDE DEF x, d
  <2>2. a \o c(n) = Append(a \o d, x)
    BY <2>1, ConcatAppends
  <2>3. CASE x \in K
    <3>1. Selected(a \o c(n), K) = Append(Selected(a \o d, K), x)
      BY <2>1, <2>2, <2>3, SelectedAppend, ZenonT(60)
    <3>2. Selected(c(n), K) = Append(Selected(d, K), x)
      BY <2>1, <2>3, SelectedAppend
    <3>3. x \in U
      BY <2>1, <2>3
    <3>4. Selected(a, K) \o Append(Selected(d, K), x) = Append(Selected(a, K) \o Selected(d, K), x)
      BY <2>1, <3>3, ConcatAppends
    <3> QED BY <2>1, <3>1, <3>2, <3>4
  <2>4. CASE x \notin K
    <3> DEFINE y == a \o d
    <3>0. y \in Seq(V)
      BY <2>1
    <3> HIDE DEF y
    <3>1. Selected(a \o c(n), K) = Selected(a \o d, K)
      <4>1. Selected(Append(y, x), K) = Selected(y, K)
        BY <2>1, <2>4, <3>0, SelectedAppend
      <4> QED BY <2>2, <4>1 DEF y
    <3>2. Selected(c(n), K) = Selected(d, K)
      BY <2>1, <2>4, SelectedAppend
    <3> QED BY <2>1, <3>1, <3>2
  <2> QED BY <2>3, <2>4
<1> HIDE DEF Fails
<1>5. ASSUME S # {} PROVE FALSE
  <2>1. S \subseteq Nat
    BY <1>1
  <2>2. PICK n \in S : \A m \in S : n <= m
    BY <1>5, <2>1, FirstExists
  <2>3. n \in 1..Len(b) /\ n - 1 \in 0..Len(b) /\ ~(n <= n - 1) /\ Fails(n)
    BY <1>1, <1>3, <2>2
  <2>4. ~Fails(n - 1)
    BY <2>2, <2>3
  <2> QED BY <1>4, <2>3, <2>4
<1>6. Len(b) \in 0..Len(b)
  BY <1>1
<1> QED BY <1>1, <1>5, <1>6 DEF Fails

\* A selection of a selection is one selection.
LEMMA SelectedTwice ==
    ASSUME NEW V, NEW s \in Seq(V), NEW K, NEW L
    PROVE  Selected(Selected(s, K), L) = Selected(s, K \cap L)
<1> DEFINE c(n) == SubSeq(s, 1, n)
           Fails(n) == Selected(Selected(c(n), K), L) # Selected(c(n), K \cap L)
           S == {n \in 0..Len(s) : Fails(n)}
<1>1. /\ Len(s) \in Nat /\ c(0) = <<>> /\ c(Len(s)) = s
      /\ \A n \in 0..Len(s) : c(n) \in Seq(V)
      /\ \A n \in 1..Len(s) : s[n] \in V /\ n - 1 \in 0..Len(s) /\ c(n) = Append(c(n - 1), s[n])
  BY PrefixUnfolds
<1>2. \A n \in 0..Len(s) : Selected(c(n), K) \in Seq(V \cap K)
  BY <1>1, SelectedIsList
<1> HIDE DEF c
<1>3. ~Fails(0)
  BY <1>1, SelectedOfNone
<1>4. ASSUME NEW n \in 1..Len(s), ~Fails(n - 1) PROVE ~Fails(n)
  <2> DEFINE x == s[n]
             d == c(n - 1)
             e == Selected(d, K)
  <2>1. x \in V /\ d \in Seq(V) /\ c(n) = Append(d, x) /\ e \in Seq(V \cap K)
        /\ Selected(e, L) = Selected(d, K \cap L)
    BY <1>1, <1>2, <1>4
  <2> HIDE DEF x, d
  <2>2. Selected(c(n), K) = IF x \in K THEN Append(e, x) ELSE e
    BY <2>1, SelectedAppend
  <2>3. Selected(c(n), K \cap L) = IF x \in K \cap L THEN Append(Selected(d, K \cap L), x)
                                   ELSE Selected(d, K \cap L)
    BY <2>1, SelectedAppend
  <2> HIDE DEF e
  <2>4. CASE x \in K
    <3>1. Selected(Append(e, x), L) = IF x \in L THEN Append(Selected(e, L), x) ELSE Selected(e, L)
      <4> DEFINE W == V \cap K
      <4>1. x \in W /\ e \in Seq(W)
        BY <2>1, <2>4
      <4> HIDE DEF W
      <4> QED BY <4>1, SelectedAppend
    <3>2. Selected(c(n), K) = Append(e, x)
      BY <2>2, <2>4
    <3>3. CASE x \in L
      BY <2>1, <2>3, <2>4, <3>1, <3>2, <3>3
    <3>4. CASE x \notin L
      BY <2>1, <2>3, <2>4, <3>1, <3>2, <3>4
    <3> QED BY <3>3, <3>4
  <2>5. CASE x \notin K
    BY <2>1, <2>2, <2>3, <2>5
  <2> QED BY <2>4, <2>5
<1> HIDE DEF Fails
<1>5. ASSUME S # {} PROVE FALSE
  <2>1. S \subseteq Nat
    BY <1>1
  <2>2. PICK n \in S : \A m \in S : n <= m
    BY <1>5, <2>1, FirstExists
  <2>3. n \in 1..Len(s) /\ n - 1 \in 0..Len(s) /\ ~(n <= n - 1) /\ Fails(n)
    BY <1>1, <1>3, <2>2
  <2>4. ~Fails(n - 1)
    BY <2>2, <2>3
  <2> QED BY <1>4, <2>3, <2>4
<1>6. Len(s) \in 0..Len(s)
  BY <1>1
<1> QED BY <1>1, <1>5, <1>6 DEF Fails

\* Selecting more moves what was selected to the back, never to the front.
LEMMA SelectedWider ==
    ASSUME NEW V, NEW s \in Seq(V), NEW K, NEW L, K \subseteq L
    PROVE  /\ Len(Selected(s, K)) <= Len(Selected(s, L))
           /\ \A i \in 1..Len(Selected(s, L)) :
                \/ Selected(s, L)[i] \notin K
                \/ \E j \in 1..Len(Selected(s, K)) :
                      j <= i /\ Selected(s, K)[j] = Selected(s, L)[i]
<1> DEFINE c(n) == SubSeq(s, 1, n)
           Holds(u, v) == /\ Len(u) <= Len(v)
                          /\ \A i \in 1..Len(v) :
                               v[i] \notin K \/ \E j \in 1..Len(u) : j <= i /\ u[j] = v[i]
           Fails(n) == ~Holds(Selected(c(n), K), Selected(c(n), L))
           S == {n \in 0..Len(s) : Fails(n)}
<1>1. /\ Len(s) \in Nat /\ c(0) = <<>> /\ c(Len(s)) = s
      /\ \A n \in 0..Len(s) : c(n) \in Seq(V)
      /\ \A n \in 1..Len(s) : s[n] \in V /\ n - 1 \in 0..Len(s) /\ c(n) = Append(c(n - 1), s[n])
  BY PrefixUnfolds
<1>2. \A n \in 0..Len(s) : Selected(c(n), K) \in Seq(V) /\ Selected(c(n), L) \in Seq(V)
  <2>1. ASSUME NEW n \in 0..Len(s), NEW M PROVE Selected(c(n), M) \in Seq(V)
    <3>1. Selected(c(n), M) \in Seq(V \cap M)
      BY <1>1, SelectedIsList
    <3> QED BY <3>1, SeqMonotonic
  <2> QED BY <2>1
<1> HIDE DEF c
<1>3. ~Fails(0)
  BY <1>1, SelectedOfNone
<1>4. ASSUME NEW n \in 1..Len(s), ~Fails(n - 1) PROVE ~Fails(n)
  <2> DEFINE x == s[n]
             d == c(n - 1)
             u == Selected(d, K)
             v == Selected(d, L)
  <2>1. x \in V /\ d \in Seq(V) /\ c(n) = Append(d, x) /\ u \in Seq(V) /\ v \in Seq(V)
        /\ Holds(u, v)
    BY <1>1, <1>2, <1>4
  <2> HIDE DEF x, d
  <2>2. Selected(c(n), K) = (IF x \in K THEN Append(u, x) ELSE u)
        /\ Selected(c(n), L) = (IF x \in L THEN Append(v, x) ELSE v)
    <3>1. Selected(Append(d, x), K) = IF x \in K THEN Append(Selected(d, K), x) ELSE Selected(d, K)
      BY <2>1, SelectedAppend
    <3>2. Selected(Append(d, x), L) = IF x \in L THEN Append(Selected(d, L), x) ELSE Selected(d, L)
      BY <2>1, SelectedAppend
    <3> QED BY <2>1, <3>1, <3>2, Zenon
  <2> HIDE DEF u, v
  <2>3. CASE x \in K
    <3>1. /\ Len(Append(u, x)) = Len(u) + 1 /\ Len(Append(v, x)) = Len(v) + 1
          /\ Len(u) \in Nat /\ Len(v) \in Nat
          /\ Append(u, x)[Len(u) + 1] = x /\ Append(v, x)[Len(v) + 1] = x
          /\ (\A i \in 1..Len(u) : Append(u, x)[i] = u[i])
          /\ (\A i \in 1..Len(v) : Append(v, x)[i] = v[i])
      BY <2>1, AppendProperties
    <3> DEFINE uu == Append(u, x)
               vv == Append(v, x)
    <3> HIDE DEF uu, vv
    <3>2. ASSUME NEW i \in 1..Len(vv)
          PROVE  vv[i] \notin K \/ \E j \in 1..Len(uu) : j <= i /\ uu[j] = vv[i]
      <4>1. CASE i = Len(v) + 1
        <5>1. Len(u) + 1 \in 1..Len(uu) /\ Len(u) + 1 <= i /\ uu[Len(u) + 1] = vv[i]
          BY <2>1, <3>1, <4>1 DEF uu, vv
        <5> QED BY <5>1
      <4>2. CASE i # Len(v) + 1
        <5>1. i \in 1..Len(v) /\ vv[i] = v[i]
          BY <3>1, <4>2 DEF vv
        <5>2. CASE v[i] \notin K
          BY <5>1, <5>2
        <5>3. ASSUME NEW j \in 1..Len(u), j <= i, u[j] = v[i]
              PROVE  \E k \in 1..Len(uu) : k <= i /\ uu[k] = vv[i]
          <6>1. j \in 1..Len(uu) /\ uu[j] = vv[i]
            BY <3>1, <5>1, <5>3 DEF uu
          <6> QED BY <5>3, <6>1
        <5> QED BY <2>1, <5>1, <5>2, <5>3
      <4> QED BY <4>1, <4>2
    <3>3. Len(uu) <= Len(vv)
      BY <2>1, <3>1 DEF uu, vv
    <3>4. Holds(uu, vv)
      BY <3>2, <3>3
    <3>5. x \in L
      BY <2>3
    <3> QED BY <2>2, <2>3, <3>4, <3>5 DEF uu, vv
  <2>4. CASE x \notin K /\ x \in L
    <3>1. /\ Len(Append(v, x)) = Len(v) + 1 /\ Len(u) \in Nat /\ Len(v) \in Nat
          /\ Append(v, x)[Len(v) + 1] = x
          /\ (\A i \in 1..Len(v) : Append(v, x)[i] = v[i])
      BY <2>1, AppendProperties
    <3> DEFINE vv == Append(v, x)
    <3> HIDE DEF vv
    <3>2. ASSUME NEW i \in 1..Len(vv)
          PROVE  vv[i] \notin K \/ \E j \in 1..Len(u) : j <= i /\ u[j] = vv[i]
      <4>1. CASE i = Len(v) + 1
        BY <2>4, <3>1, <4>1 DEF vv
      <4>2. CASE i # Len(v) + 1
        <5>1. i \in 1..Len(v) /\ vv[i] = v[i]
          BY <3>1, <4>2 DEF vv
        <5> QED BY <2>1, <5>1
      <4> QED BY <4>1, <4>2
    <3>3. Len(u) <= Len(vv)
      BY <2>1, <3>1 DEF vv
    <3>4. Holds(u, vv)
      BY <3>2, <3>3
    <3> QED BY <2>2, <2>4, <3>4 DEF vv
  <2>5. CASE x \notin L
    BY <2>1, <2>2, <2>5
  <2> QED BY <2>3, <2>4, <2>5
<1>5. ASSUME S # {} PROVE FALSE
  <2> HIDE DEF Fails
  <2>1. S \subseteq Nat
    BY <1>1
  <2>2. PICK n \in S : \A m \in S : n <= m
    BY <1>5, <2>1, FirstExists
  <2>3. n \in 1..Len(s) /\ n - 1 \in 0..Len(s) /\ ~(n <= n - 1) /\ Fails(n)
    BY <1>1, <1>3, <2>2
  <2>4. ~Fails(n - 1)
    BY <2>2, <2>3
  <2> QED BY <1>4, <2>3, <2>4
<1>6. Len(s) \in 0..Len(s)
  BY <1>1
<1>7. Holds(Selected(s, K), Selected(s, L))
  BY <1>1, <1>5, <1>6, ZenonT(60)
<1> QED BY <1>7

\* The elements of a selection are those of the list that are in K.
LEMMA SelectedHolds ==
    ASSUME NEW V, NEW s \in Seq(V), NEW K
    PROVE  /\ Selected(s, K) \in Seq(V) /\ Selected(s, K) \in Seq(V \cap K)
           /\ \A n \in 1..Len(Selected(s, K)) :
                Selected(s, K)[n] \in K /\ \E i \in 1..Len(s) : s[i] = Selected(s, K)[n]
           /\ \A i \in 1..Len(s) : s[i] \in K =>
                 \E n \in 1..Len(Selected(s, K)) : Selected(s, K)[n] = s[i]
<1> DEFINE t == Selected(s, K)
<1>1. /\ t \in Seq(V \cap K)
      /\ \A n \in 1..Len(t) : Nth(PlacesIn(s, K), n) \in PlacesIn(s, K) /\ t[n] = s[Nth(PlacesIn(s, K), n)]
      /\ \A i \in 1..Len(s) : s[i] \in K => \E n \in 1..Len(t) : t[n] = s[i]
  <2>1. Selected(s, K) \in Seq(V \cap K) /\ ListsThePlaces(s, K)
    BY SelectedLists
  <2> QED BY <2>1 DEF ListsThePlaces
<1> HIDE DEF t
<1>2. t \in Seq(V)
  BY <1>1, SeqMonotonic
<1>3. ASSUME NEW n \in 1..Len(t) PROVE t[n] \in K /\ \E i \in 1..Len(s) : s[i] = t[n]
  BY <1>1 DEF PlacesIn
<1> QED BY <1>1, <1>2, <1>3 DEF t

-----------------------------------------------------------------------------
(* Lists without repetition.                                                 *)

Unrepeated(s) == \A i, j \in 1..Len(s) : s[i] = s[j] => i = j

\* The places of what is selected.
LEMMA SelectedPlaces ==
    ASSUME NEW V, NEW s \in Seq(V), NEW K
    PROVE  /\ PlacesIn(s, K) \subseteq Nat /\ IsFiniteSet(PlacesIn(s, K))
           /\ Len(Selected(s, K)) = Cardinality(PlacesIn(s, K))
           /\ Cardinality(PlacesIn(s, K)) \in Nat
           /\ \A n \in 1..Cardinality(PlacesIn(s, K)) :
                /\ Nth(PlacesIn(s, K), n) \in PlacesIn(s, K)
                /\ Cardinality(Below(PlacesIn(s, K), Nth(PlacesIn(s, K), n))) = n - 1
                /\ Selected(s, K)[n] = s[Nth(PlacesIn(s, K), n)]
           /\ \A n, m \in 1..Cardinality(PlacesIn(s, K)) :
                n < m => Nth(PlacesIn(s, K), n) < Nth(PlacesIn(s, K), m)
<1> DEFINE P == PlacesIn(s, K)
           t == Selected(s, K)
           c == Cardinality(P)
<1>1. P \subseteq Nat /\ IsFiniteSet(P) /\ c \in 0..Len(s)
  BY PlacesFinite
<1>2. t \in Seq(V \cap K) /\ ListsThePlaces(s, K)
  BY SelectedLists
<1>3. Len(t) = c /\ \A n \in 1..Len(t) : t[n] = s[Nth(P, n)]
  BY <1>2 DEF ListsThePlaces
<1>4. c \in Nat
  <2>1. Len(s) \in Nat
    OBVIOUS
  <2> HIDE DEF c
  <2> QED BY <1>1, <2>1
<1> HIDE DEF P, t
<1>5. ASSUME NEW n \in 1..c PROVE Nth(P, n) \in P /\ Cardinality(Below(P, Nth(P, n))) = n - 1
  BY <1>1, NthIsIn
<1>6. ASSUME NEW n \in 1..c, NEW m \in 1..c, n < m PROVE Nth(P, n) < Nth(P, m)
  BY <1>1, <1>6, NthIncreases
<1> QED BY <1>1, <1>3, <1>4, <1>5, <1>6 DEF P, t

\* What is selected from a list without repetition repeats nothing.
LEMMA SelectedUnrepeated ==
    ASSUME NEW V, NEW s \in Seq(V), NEW K, Unrepeated(s)
    PROVE  Unrepeated(Selected(s, K))
<1> DEFINE P == PlacesIn(s, K)
           t == Selected(s, K)
           c == Cardinality(P)
<1>1. P \subseteq 1..Len(s)
  BY PlacesFinite
<1>2. /\ Len(t) = c /\ c \in Nat
      /\ \A n \in 1..c : Nth(P, n) \in P /\ t[n] = s[Nth(P, n)]
      /\ \A n, m \in 1..c : n < m => Nth(P, n) < Nth(P, m)
  BY SelectedPlaces
<1> HIDE DEF P, t, c
<1>3. ASSUME NEW a \in 1..c, NEW b \in 1..c, a < b PROVE t[a] # t[b]
  <2>1. Nth(P, a) < Nth(P, b) /\ Nth(P, a) \in 1..Len(s) /\ Nth(P, b) \in 1..Len(s)
    BY <1>1, <1>2, <1>3
  <2> QED BY <1>2, <2>1 DEF Unrepeated
<1>4. ASSUME NEW a \in 1..Len(t), NEW b \in 1..Len(t), t[a] = t[b] PROVE a = b
  <2>1. a < b \/ b < a \/ a = b
    BY <1>2
  <2> QED BY <1>2, <1>3, <1>4, <2>1
<1> QED BY <1>4 DEF Unrepeated, t

\* A list that loses one element keeps what is before it in place, and what is
\* behind it moves one place to the front.
LEMMA SelectedWithoutOne ==
    ASSUME NEW V, NEW s \in Seq(V), NEW p \in 1..Len(s), Unrepeated(s)
    PROVE  \A i \in 1..Len(Selected(s, V \ {s[p]})) :
              \E x \in 1..Len(s) : /\ s[x] = Selected(s, V \ {s[p]})[i]
                                   /\ x = i \/ (x = i + 1 /\ p <= i)
<1> DEFINE K == V \ {s[p]}
           P == PlacesIn(s, K)
           t == Selected(s, K)
<1>0. Len(s) \in Nat /\ p \in Nat
  OBVIOUS
<1>1. /\ P \subseteq Nat /\ IsFiniteSet(P)
      /\ Len(t) = Cardinality(P) /\ Cardinality(P) \in Nat
      /\ \A n \in 1..Cardinality(P) : /\ Nth(P, n) \in P /\ t[n] = s[Nth(P, n)]
                                     /\ Cardinality(Below(P, Nth(P, n))) = n - 1
  <2> HIDE DEF K
  <2> QED BY SelectedPlaces
<1>2. P = (1..Len(s)) \ {p}
  BY DEF PlacesIn, Unrepeated
<1> HIDE DEF P, t, K
<1>3. ASSUME NEW i \in 1..Len(t)
      PROVE  \E x \in 1..Len(s) : s[x] = t[i] /\ (x = i \/ (x = i + 1 /\ p <= i))
  <2> DEFINE x == Nth(P, i)
             B == Below(P, x)
             R == 1..(x - 1)
  <2>1. x \in P /\ Cardinality(B) = i - 1 /\ t[i] = s[x]
    BY <1>1
  <2>2. B = {y \in P : y < x}
    BY DEF Below
  <2> HIDE DEF x, B
  <2>3. x \in 1..Len(s) /\ x # p
    BY <1>2, <2>1
  <2>4. i \in Nat
    BY <1>1
  <2>5. x \in Nat /\ 1 <= x /\ x <= Len(s)
    BY <1>0, <2>3
  <2>6. IsFiniteSet(R) /\ Cardinality(R) = x - 1
    <3>1. 1 \in Int /\ x - 1 \in Int
      BY <2>5
    <3>2. IsFiniteSet(R) /\ Cardinality(R) = IF 1 > x - 1 THEN 0 ELSE (x - 1) - 1 + 1
      BY <3>1, FS_Interval
    <3> QED BY <2>5, <3>2
  <2>7. \A y : y \in B <=> y \in R /\ y # p
    <3>1. ASSUME NEW y \in B PROVE y \in R /\ y # p
      BY <1>0, <1>2, <2>2, <2>5
    <3>2. ASSUME NEW y \in R, y # p PROVE y \in B
      <4>1. y \in 1..Len(s) /\ y < x
        BY <1>0, <2>5
      <4> QED BY <1>2, <2>2, <3>2, <4>1
    <3> QED BY <3>1, <3>2
  <2>8. CASE x < p
    <3>1. p \notin R
      BY <1>0, <2>5, <2>8
    <3>2. B = R
      <4> HIDE DEF R
      <4> QED BY <2>7, <3>1
    <3>3. x = i
      BY <2>1, <2>4, <2>5, <2>6, <3>2
    <3> QED BY <2>1, <2>3, <3>3
  <2>9. CASE p < x
    <3>1. p \in R
      BY <1>0, <2>5, <2>9
    <3> HIDE DEF R
    <3>2. B = R \ {p}
      BY <2>7
    <3>3. Cardinality(B) = Cardinality(R) - 1
      BY <2>6, <3>1, <3>2, FS_RemoveElement
    <3>4. x = i + 1
      BY <2>1, <2>4, <2>5, <2>6, <3>3
    <3>5. p <= i
      BY <1>0, <2>4, <2>5, <2>9, <3>4
    <3> QED BY <2>1, <2>3, <3>4, <3>5
  <2>10. x < p \/ p < x
    BY <1>0, <2>3, <2>5
  <2> QED BY <2>8, <2>9, <2>10
<1> QED BY <1>3 DEF t, K

-----------------------------------------------------------------------------
(* Totals: the units of a finite set of sizes are finite, those of disjoint  *)
(* sets do not meet, so that totals add.                                     *)

Sized(w, S) == IsFiniteSet(S) /\ \A x \in S : w[x] \in Nat

LEMMA UnitsOfOne ==
    ASSUME NEW x, NEW n \in Nat
    PROVE  IsFiniteSet({x} \X (1..n)) /\ Cardinality({x} \X (1..n)) = n
<1>1. IsFiniteSet({x}) /\ Cardinality({x}) = 1
  BY FS_Singleton
<1>2. IsFiniteSet(1..n) /\ Cardinality(1..n) = n
  <2>1. 1 \in Int /\ n \in Int
    OBVIOUS
  <2>2. IsFiniteSet(1..n) /\ Cardinality(1..n) = IF 1 > n THEN 0 ELSE n - 1 + 1
    BY <2>1, FS_Interval
  <2> QED BY <2>2
<1>3. /\ IsFiniteSet({x} \X (1..n))
      /\ Cardinality({x} \X (1..n)) = Cardinality({x}) * Cardinality(1..n)
  BY <1>1, <1>2, FS_Product
<1> QED BY <1>1, <1>2, <1>3

LEMMA UnitsFinite ==
    ASSUME NEW w, NEW S, Sized(w, S)
    PROVE  IsFiniteSet(UnitsOf(w, S)) /\ TotalOf(w, S) \in Nat
<1> DEFINE T == {{x} \X (1..w[x]) : x \in S}
           f == [x \in S |-> {x} \X (1..w[x])]
<1>1. f \in [S -> T] /\ \A t \in T : \E x \in S : f[x] = t
  OBVIOUS
<1>2. f \in Surjection(S, T)
  <2> HIDE DEF f, T
  <2> QED BY <1>1 DEF Surjection
<1>3. IsFiniteSet(T)
  <2> HIDE DEF f, T
  <2> QED BY <1>2, FS_Surjection DEF Sized
<1>4. \A t \in T : IsFiniteSet(t)
  <2>1. ASSUME NEW t \in T PROVE IsFiniteSet(t)
    <3>1. PICK x \in S : t = {x} \X (1..w[x])
      OBVIOUS
    <3>2. w[x] \in Nat
      BY DEF Sized
    <3>3. IsFiniteSet({x} \X (1..w[x]))
      BY <3>2, UnitsOfOne
    <3> QED BY <3>1, <3>3
  <2> QED BY <2>1
<1>5. IsFiniteSet(UNION T)
  <2> HIDE DEF T
  <2> QED BY <1>3, <1>4, FS_UNION
<1>6. IsFiniteSet(UnitsOf(w, S))
  BY <1>5 DEF UnitsOf
<1> QED BY <1>6, FS_CardinalityType DEF TotalOf

LEMMA TotalOfNone == \A w : TotalOf(w, {}) = 0
<1> TAKE w
<1>1. UnitsOf(w, {}) = {}
  BY DEF UnitsOf
<1> QED BY <1>1, FS_EmptySet DEF TotalOf

LEMMA TotalOfOne ==
    ASSUME NEW w, NEW x, w[x] \in Nat PROVE TotalOf(w, {x}) = w[x]
<1>1. UnitsOf(w, {x}) = {x} \X (1..w[x])
  BY DEF UnitsOf
<1> QED BY <1>1, UnitsOfOne DEF TotalOf

\* Totals depend on the sizes of the set's elements only.
LEMMA TotalSame ==
    ASSUME NEW w, NEW u, NEW S, \A x \in S : w[x] = u[x]
    PROVE  TotalOf(w, S) = TotalOf(u, S)
<1>1. UnitsOf(w, S) = UnitsOf(u, S)
  BY DEF UnitsOf
<1> QED BY <1>1 DEF TotalOf

LEMMA TotalJoins ==
    ASSUME NEW w, NEW S, NEW T, Sized(w, S), Sized(w, T), S \cap T = {}
    PROVE  /\ Sized(w, S \cup T)
           /\ TotalOf(w, S \cup T) = TotalOf(w, S) + TotalOf(w, T)
<1>1. UnitsOf(w, S \cup T) = UnitsOf(w, S) \cup UnitsOf(w, T)
  BY DEF UnitsOf
<1>2. UnitsOf(w, S) \cap UnitsOf(w, T) = {}
  <2>1. ASSUME NEW y \in UnitsOf(w, S), y \in UnitsOf(w, T) PROVE FALSE
    <3>1. PICK a \in S : y \in {a} \X (1..w[a])
      BY DEF UnitsOf
    <3>2. PICK b \in T : y \in {b} \X (1..w[b])
      BY <2>1 DEF UnitsOf
    <3>3. y[1] = a /\ y[1] = b
      BY <3>1, <3>2
    <3> QED BY <3>3
  <2> QED BY <2>1
<1>3. /\ IsFiniteSet(UnitsOf(w, S)) /\ TotalOf(w, S) \in Nat
      /\ IsFiniteSet(UnitsOf(w, T)) /\ TotalOf(w, T) \in Nat
  BY UnitsFinite
<1>4. Cardinality(UnitsOf(w, S) \cup UnitsOf(w, T))
        = Cardinality(UnitsOf(w, S)) + Cardinality(UnitsOf(w, T)) - Cardinality({})
  BY <1>2, <1>3, FS_Union
<1>5. TotalOf(w, S \cup T) = TotalOf(w, S) + TotalOf(w, T)
  <2> DEFINE a == Cardinality(UnitsOf(w, S))
             b == Cardinality(UnitsOf(w, T))
  <2>1. Cardinality(UnitsOf(w, S \cup T)) = a + b - 0
    BY <1>1, <1>4, FS_EmptySet
  <2>2. a \in Nat /\ b \in Nat
    BY <1>3 DEF TotalOf
  <2> HIDE DEF a, b
  <2>3. Cardinality(UnitsOf(w, S \cup T)) = a + b
    BY <2>1, <2>2
  <2> QED BY <2>3 DEF a, b, TotalOf
<1>6. Sized(w, S \cup T)
  BY FS_Union DEF Sized
<1> QED BY <1>5, <1>6

\* A part of a set and the rest of it make up its total.
LEMMA TotalSplits ==
    ASSUME NEW w, NEW S, Sized(w, S), NEW T \in SUBSET S
    PROVE  /\ Sized(w, T) /\ Sized(w, S \ T)
           /\ TotalOf(w, S) = TotalOf(w, T) + TotalOf(w, S \ T)
           /\ TotalOf(w, S) \in Nat /\ TotalOf(w, T) \in Nat /\ TotalOf(w, S \ T) \in Nat
<1>1. Sized(w, T) /\ Sized(w, S \ T)
  BY FS_Subset DEF Sized
<1>2. T \cup (S \ T) = S /\ T \cap (S \ T) = {}
  OBVIOUS
<1>3. TotalOf(w, T \cup (S \ T)) = TotalOf(w, T) + TotalOf(w, S \ T)
  BY <1>1, <1>2, TotalJoins
<1> QED BY <1>1, <1>2, <1>3, UnitsFinite

LEMMA TotalWithout ==
    ASSUME NEW w, NEW S, Sized(w, S), NEW x \in S
    PROVE  /\ Sized(w, S \ {x}) /\ TotalOf(w, S) = TotalOf(w, S \ {x}) + w[x]
           /\ TotalOf(w, S) \in Nat /\ TotalOf(w, S \ {x}) \in Nat /\ w[x] \in Nat
<1>1. {x} \in SUBSET S /\ w[x] \in Nat
  BY DEF Sized
<1>2. /\ Sized(w, S \ {x}) /\ TotalOf(w, S) = TotalOf(w, {x}) + TotalOf(w, S \ {x})
      /\ TotalOf(w, S) \in Nat /\ TotalOf(w, S \ {x}) \in Nat
  BY <1>1, TotalSplits
<1>3. TotalOf(w, {x}) = w[x]
  BY <1>1, TotalOfOne
<1> QED BY <1>1, <1>2, <1>3
=============================================================================
