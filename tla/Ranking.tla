-------------------------------- MODULE Ranking --------------------------------
(***************************************************************************)
(* The sorts of the code are modelled by where they put each element: its  *)
(* place is given by how many come before it.  These lemmas say that this  *)
(* is a sort, for any finite set S and any strict total order R on it, a   *)
(* set of pairs: no two share a place, no place is left free, and the      *)
(* places follow the order.                                                *)
(***************************************************************************)
EXTENDS Selection, Integers, SequencesExt, FiniteSetTheorems, WellFoundedInduction, TLAPS

StrictOrder(S, R) ==
  /\ \A x \in S : <<x, x>> \notin R
  /\ \A x, y, z \in S : <<x, y>> \in R /\ <<y, z>> \in R => <<x, z>> \in R
  /\ \A x, y \in S : x # y => <<x, y>> \in R \/ <<y, x>> \in R

BeforeIn(S, R, x) == {y \in S : <<y, x>> \in R}

\* Finitely many come before an element.
LEMMA BeforeFinite ==
  ASSUME NEW S, IsFiniteSet(S), NEW R, NEW x
  PROVE  IsFiniteSet(BeforeIn(S, R, x)) /\ Cardinality(BeforeIn(S, R, x)) \in Nat
<1>1. BeforeIn(S, R, x) \in SUBSET S
  BY DEF BeforeIn
<1>2. IsFiniteSet(BeforeIn(S, R, x))
  BY <1>1, FS_Subset
<1> QED BY <1>2, FS_CardinalityType

\* The places follow the order.
LEMMA PlaceFollows ==
  ASSUME NEW S, IsFiniteSet(S), NEW R, StrictOrder(S, R),
         NEW x \in S, NEW y \in S, <<x, y>> \in R
  PROVE  Cardinality(BeforeIn(S, R, x)) < Cardinality(BeforeIn(S, R, y))
<1> DEFINE bx == BeforeIn(S, R, x)
           by == BeforeIn(S, R, y)
<1>1. bx \in SUBSET by /\ x \in by /\ x \notin bx
  BY DEF BeforeIn, StrictOrder
<1>2. IsFiniteSet(by) /\ Cardinality(by) \in Nat /\ Cardinality(bx) \in Nat
  BY BeforeFinite
<1> HIDE DEF bx, by
<1>3. Cardinality(bx) <= Cardinality(by) /\ (Cardinality(by) = Cardinality(bx) => by = bx)
  BY <1>1, <1>2, FS_Subset
<1>4. Cardinality(bx) < Cardinality(by)
  BY <1>1, <1>2, <1>3
<1> QED BY <1>4 DEF bx, by

\* And only they do: who is placed before another comes before it.
LEMMA PlaceReflects ==
  ASSUME NEW S, IsFiniteSet(S), NEW R, StrictOrder(S, R), NEW x \in S, NEW y \in S
  PROVE  /\ Cardinality(BeforeIn(S, R, x)) < Cardinality(BeforeIn(S, R, y)) => <<x, y>> \in R
         /\ Cardinality(BeforeIn(S, R, x)) = Cardinality(BeforeIn(S, R, y)) => x = y
<1>1. Cardinality(BeforeIn(S, R, x)) \in Nat /\ Cardinality(BeforeIn(S, R, y)) \in Nat
  BY BeforeFinite
<1>2. CASE <<x, y>> \in R
  BY <1>1, <1>2, PlaceFollows
<1>3. CASE <<y, x>> \in R
  BY <1>1, <1>3, PlaceFollows
<1>4. CASE x = y
  BY <1>1, <1>4
<1> QED BY <1>2, <1>3, <1>4 DEF StrictOrder

\* A place is between the first and the last.
LEMMA PlaceInRange ==
  ASSUME NEW S, IsFiniteSet(S), NEW R, StrictOrder(S, R), NEW x \in S
  PROVE  /\ Cardinality(S) \in Nat
         /\ Cardinality(BeforeIn(S, R, x)) \in 0..(Cardinality(S) - 1)
<1> DEFINE b == BeforeIn(S, R, x)
<1>1. b \in SUBSET S /\ x \in S /\ x \notin b
  BY DEF BeforeIn, StrictOrder
<1>2. Cardinality(S) \in Nat /\ Cardinality(b) \in Nat
  BY BeforeFinite, FS_CardinalityType
<1> HIDE DEF b
<1>3. Cardinality(b) <= Cardinality(S) /\ (Cardinality(S) = Cardinality(b) => S = b)
  BY <1>1, FS_Subset
<1>4. Cardinality(b) \in 0..(Cardinality(S) - 1)
  BY <1>1, <1>2, <1>3
<1> QED BY <1>2, <1>4 DEF b

\* No place is left free.
LEMMA PlaceTaken ==
  ASSUME NEW S, IsFiniteSet(S), NEW R, StrictOrder(S, R),
         NEW n \in 0..(Cardinality(S) - 1)
  PROVE  \E x \in S : Cardinality(BeforeIn(S, R, x)) = n
<1> DEFINE T == 0..(Cardinality(S) - 1)
           f == [x \in S |-> Cardinality(BeforeIn(S, R, x))]
<1>1. Cardinality(S) \in Nat
  BY FS_CardinalityType
<1>2. IsFiniteSet(T) /\ Cardinality(T) = Cardinality(S)
  BY <1>1, FS_Interval
<1>3. f \in [S -> T]
  BY PlaceInRange
<1>4. \A x, y \in S : f[x] = f[y] => x = y
  BY PlaceReflects
<1>5. f \in Injection(S, T)
  BY <1>3, <1>4 DEF Injection, IsInjective
<1> HIDE DEF T, f
<1>6. f \in Surjection(S, T)
  BY <1>2, <1>5, FS_Injection
<1>7. n \in T
  BY DEF T
<1>8. \E x \in S : f[x] = n
  BY <1>6, <1>7 DEF Surjection
<1> QED BY <1>8 DEF f

\* Sorting by place: when at gives for each place an element that takes it, if
\* there is one, then every element has a place, and the places are in the order.
LEMMA PlacesSort ==
  ASSUME NEW n \in Nat, NEW R, StrictOrder(1..n, R), NEW at,
         \A p \in 1..n :
           (\E q \in 1..n : Cardinality(BeforeIn(1..n, R, q)) = p - 1)
             => at[p] \in 1..n /\ Cardinality(BeforeIn(1..n, R, at[p])) = p - 1
  PROVE  /\ \A p \in 1..n : at[p] \in 1..n
         /\ \A q \in 1..n : \E p \in 1..n : at[p] = q
         /\ \A p, q \in 1..n : p < q => <<at[p], at[q]>> \in R
<1> DEFINE S == 1..n
           place(q) == Cardinality(BeforeIn(S, R, q))
<1>1. IsFiniteSet(S) /\ Cardinality(S) = n
  <2>1. IsFiniteSet(1..n) /\ Cardinality(1..n) = IF 1 > n THEN 0 ELSE n - 1 + 1
    BY FS_Interval
  <2> QED BY <2>1
<1>2. \A p \in S : p \in Nat /\ at[p] \in S /\ place(at[p]) = p - 1
  <2> SUFFICES ASSUME NEW p \in S PROVE at[p] \in S /\ place(at[p]) = p - 1
    OBVIOUS
  <2>1. p - 1 \in 0..(Cardinality(S) - 1)
    BY <1>1
  <2>2. \E q \in S : place(q) = p - 1
    BY <1>1, <2>1, PlaceTaken
  <2> QED BY <2>2
<1> HIDE DEF S
<1>3. \A q \in S : place(q) + 1 \in S /\ at[place(q) + 1] = q
  <2> SUFFICES ASSUME NEW q \in S PROVE place(q) + 1 \in S /\ at[place(q) + 1] = q
    OBVIOUS
  <2>1. place(q) \in 0..(n - 1)
    BY <1>1, PlaceInRange DEF S
  <2>2. place(q) + 1 \in S /\ (place(q) + 1) - 1 = place(q)
    BY <2>1 DEF S
  <2>3. at[place(q) + 1] \in S /\ place(at[place(q) + 1]) = place(q)
    BY <1>2, <2>2
  <2>4. at[place(q) + 1] = q
    BY <1>1, <2>3, PlaceReflects, ZenonT(40) DEF S
  <2> QED BY <2>2, <2>4
<1>4. \A p, q \in S : p < q => <<at[p], at[q]>> \in R
  <2> SUFFICES ASSUME NEW p \in S, NEW q \in S, p < q PROVE <<at[p], at[q]>> \in R
    OBVIOUS
  <2>1. /\ p \in Nat /\ at[p] \in S /\ place(at[p]) = p - 1
        /\ q \in Nat /\ at[q] \in S /\ place(at[q]) = q - 1
    BY <1>2
  <2>2. place(at[p]) < place(at[q])
    <3> HIDE DEF place
    <3> QED BY <2>1
  <2> QED BY <1>1, <2>1, <2>2, PlaceReflects DEF S
<1> HIDE DEF place
<1> QED BY <1>2, <1>3, <1>4 DEF S

\* There are as many elements in the first places as there are places.
LEMMA FirstPlaces ==
  ASSUME NEW S, IsFiniteSet(S), NEW R, StrictOrder(S, R), NEW n \in Nat
  PROVE  LET F == {x \in S : Cardinality(BeforeIn(S, R, x)) < n}
         IN  IsFiniteSet(F) /\ Cardinality(F) = IF Cardinality(S) < n THEN Cardinality(S) ELSE n
<1> DEFINE F == {x \in S : Cardinality(BeforeIn(S, R, x)) < n}
           m == IF Cardinality(S) < n THEN Cardinality(S) ELSE n
           T == 0..(m - 1)
           f == [x \in F |-> Cardinality(BeforeIn(S, R, x))]
<1>1. Cardinality(S) \in Nat /\ m \in Nat /\ m <= Cardinality(S)
  BY FS_CardinalityType
<1>2. F \in SUBSET S /\ IsFiniteSet(F)
  BY FS_Subset
<1>3. IsFiniteSet(T) /\ Cardinality(T) = m
  <2> HIDE DEF m
  <2>1. m - 1 \in Int /\ 0 \in Int
    BY <1>1
  <2>2. IsFiniteSet(0..(m - 1)) /\ Cardinality(0..(m - 1)) = IF 0 > m - 1 THEN 0 ELSE (m - 1) - 0 + 1
    BY <2>1, FS_Interval
  <2> QED BY <1>1, <2>2
<1>4. \A x \in F : f[x] \in T
  <2> SUFFICES ASSUME NEW x \in F PROVE f[x] \in T
    OBVIOUS
  <2>1. x \in S /\ f[x] = Cardinality(BeforeIn(S, R, x)) /\ f[x] < n
    OBVIOUS
  <2>2. f[x] \in 0..(Cardinality(S) - 1)
    BY <2>1, PlaceInRange
  <2> HIDE DEF f, F
  <2> QED BY <1>1, <2>1, <2>2
<1>5. \A x, y \in F : f[x] = f[y] => x = y
  <2> SUFFICES ASSUME NEW x \in F, NEW y \in F, f[x] = f[y] PROVE x = y
    OBVIOUS
  <2>1. x \in S /\ y \in S /\ Cardinality(BeforeIn(S, R, x)) = Cardinality(BeforeIn(S, R, y))
    OBVIOUS
  <2> QED BY <2>1, PlaceReflects
<1>6. \A t \in T : \E x \in F : f[x] = t
  <2> SUFFICES ASSUME NEW t \in T PROVE \E x \in F : f[x] = t
    OBVIOUS
  <2>1. t \in 0..(Cardinality(S) - 1) /\ t < n
    BY <1>1
  <2>2. PICK x \in S : Cardinality(BeforeIn(S, R, x)) = t
    BY <2>1, PlaceTaken
  <2>3. x \in F /\ f[x] = t
    BY <2>1, <2>2
  <2> QED BY <2>3
<1>7. f \in Bijection(F, T)
  <2> HIDE DEF F, T
  <2>1. f \in [F -> T]
    BY <1>4
  <2> HIDE DEF f
  <2> QED BY <1>5, <1>6, <2>1 DEF Bijection, Injection, Surjection, IsInjective
<1> HIDE DEF F, T, f
<1>8. Cardinality(F) = Cardinality(T)
  <2> HIDE DEF m
  <2>1. ExistsBijection(F, T)
    BY <1>7 DEF ExistsBijection
  <2> QED BY <1>2, <2>1, FS_Bijection
<1> QED BY <1>2, <1>3, <1>8 DEF F

-----------------------------------------------------------------------------
(* The least and the greatest of a set of numbers.                         *)

\* A set of numbers has a least one.
LEMMA LeastExists ==
  ASSUME NEW S \in SUBSET Nat, S # {}
  PROVE  \E x \in S : \A y \in S : x <= y
<1>1. PICK x \in S : \A y \in S : <<y, x>> \notin OpToRel(<, Nat)
  BY NatLessThanWellFounded, WFMin
<1>2. \A y \in S : ~(y < x)
  BY <1>1 DEF OpToRel
<1> QED BY <1>2

\* Min returns it.
LEMMA MinLeast ==
  ASSUME NEW S \in SUBSET Nat, S # {}
  PROVE  Min(S) \in S /\ \A y \in S : Min(S) <= y
BY LeastExists DEF Min

\* Max returns the greatest number of a bounded set.
LEMMA MaxGreatest ==
  ASSUME NEW n \in Nat, NEW S \in SUBSET (0..n), S # {}
  PROVE  Max(S) \in S /\ \A y \in S : y <= Max(S)
<1> DEFINE T == {k \in Nat : n - k \in S}
<1>1. PICK x \in S : TRUE
  OBVIOUS
<1>2. n - x \in T
  BY <1>1
<1>3. PICK k \in T : \A j \in T : k <= j
  BY <1>2, LeastExists
<1>4. n - k \in S /\ \A y \in S : y <= n - k
  <2>1. \A y \in S : n - y \in T
    OBVIOUS
  <2>2. \A y \in S : k <= n - y
    BY <1>3, <2>1
  <2> QED BY <1>3, <2>2
<1> QED BY <1>4 DEF Max

-----------------------------------------------------------------------------
(* What the loops that keep some elements of a slice return.               *)

\* How many of a set come up to a number: those before it, and itself.
LEMMA UpToPlace ==
  ASSUME NEW P \in SUBSET Nat, IsFiniteSet(P),
         NEW R, R = {pair \in P \X P : pair[1] < pair[2]}
  PROVE  /\ StrictOrder(P, R)
         /\ \A i \in P : Cardinality({j \in P : j <= i}) = Cardinality(BeforeIn(P, R, i)) + 1
<1> DEFINE upTo(i) == {j \in P : j <= i}
<1>1. StrictOrder(P, R)
  BY DEF StrictOrder
<1>2. ASSUME NEW i \in P
      PROVE  Cardinality(upTo(i)) = Cardinality(BeforeIn(P, R, i)) + 1
  <2>1. upTo(i) = BeforeIn(P, R, i) \cup {i} /\ i \notin BeforeIn(P, R, i)
    <3>1. i \in Nat /\ P \subseteq Nat
      OBVIOUS
    <3>2. \A j : j \in BeforeIn(P, R, i) <=> j \in P /\ j < i
      BY DEF BeforeIn
    <3>3. \A j : j \in upTo(i) <=> j \in P /\ j <= i
      OBVIOUS
    <3> HIDE DEF upTo
    <3>4. i \notin BeforeIn(P, R, i)
      BY <3>1, <3>2
    <3>5. \A j : j \in upTo(i) <=> j \in BeforeIn(P, R, i) \/ j = i
      <4>1. \A j \in Nat : j <= i <=> j < i \/ j = i
        BY <3>1
      <4> QED BY <3>1, <3>2, <3>3, <4>1, Zenon
    <3> QED BY <3>4, <3>5
  <2>2. IsFiniteSet(BeforeIn(P, R, i))
    BY BeforeFinite
  <2> QED BY <2>1, <2>2, FS_AddElement
<1> QED BY <1>1, <1>2

\* InOrder goes through a finite set of numbers, from the least on.
LEMMA InOrderSorts ==
  ASSUME NEW P \in SUBSET Nat, IsFiniteSet(P)
  PROVE  /\ Cardinality(P) \in Nat /\ (Cardinality(P) = 0 <=> P = {})
         /\ InOrder(P) \in [1..Cardinality(P) -> P]
         /\ \A i \in P : \E n \in 1..Cardinality(P) : InOrder(P)[n] = i
         /\ \A m, n \in 1..Cardinality(P) : m < n => InOrder(P)[m] < InOrder(P)[n]
<1> DEFINE R == {pair \in P \X P : pair[1] < pair[2]}
           upTo(i) == {j \in P : j <= i}
           N == Cardinality(P)
           at(n) == CHOOSE i \in P : Cardinality(upTo(i)) = n
<1>1. StrictOrder(P, R)
  BY UpToPlace
<1>2. N \in Nat /\ (N = 0 <=> P = {})
  BY FS_CardinalityType, FS_EmptySet
<1>3. \A i \in P : Cardinality(upTo(i)) = Cardinality(BeforeIn(P, R, i)) + 1
  BY UpToPlace
<1>4. \A n \in 1..N : at(n) \in P /\ Cardinality(upTo(at(n))) = n
  <2> SUFFICES ASSUME NEW n \in 1..N PROVE at(n) \in P /\ Cardinality(upTo(at(n))) = n
    OBVIOUS
  <2>1. n - 1 \in 0..(Cardinality(P) - 1)
    BY <1>2
  <2>2. PICK i \in P : Cardinality(BeforeIn(P, R, i)) = n - 1
    BY <1>1, <2>1, PlaceTaken
  <2>3. Cardinality(upTo(i)) = n
    BY <1>2, <1>3, <2>2
  <2> QED BY <2>3
<1>5. InOrder(P) = [n \in 1..N |-> at(n)]
  BY DEF InOrder
<1> HIDE DEF at, upTo, R, N
<1>6. \A i \in P : Cardinality(upTo(i)) \in 1..N /\ at(Cardinality(upTo(i))) = i
  <2> SUFFICES ASSUME NEW i \in P
               PROVE  Cardinality(upTo(i)) \in 1..N /\ at(Cardinality(upTo(i))) = i
    OBVIOUS
  <2>1. Cardinality(BeforeIn(P, R, i)) \in 0..(N - 1)
    BY <1>1, PlaceInRange DEF N
  <2>2. Cardinality(upTo(i)) \in 1..N
    BY <1>2, <1>3, <2>1
  <2> DEFINE j == at(Cardinality(upTo(i)))
  <2>3. j \in P /\ Cardinality(upTo(j)) = Cardinality(upTo(i))
    BY <1>4, <2>2
  <2>4. Cardinality(BeforeIn(P, R, j)) \in Nat /\ Cardinality(BeforeIn(P, R, i)) \in Nat
    BY BeforeFinite
  <2> HIDE DEF j
  <2>5. Cardinality(BeforeIn(P, R, j)) = Cardinality(BeforeIn(P, R, i))
    BY <1>3, <2>3, <2>4
  <2>6. j = i
    BY <1>1, <2>3, <2>5, PlaceReflects
  <2> QED BY <2>2, <2>6 DEF j
<1>7. \A m, n \in 1..N : m < n => at(m) < at(n)
  <2> SUFFICES ASSUME NEW m \in 1..N, NEW n \in 1..N, m < n PROVE at(m) < at(n)
    OBVIOUS
  <2> DEFINE i == at(m)
             j == at(n)
  <2>1. i \in P /\ j \in P /\ Cardinality(upTo(i)) = m /\ Cardinality(upTo(j)) = n
    BY <1>4
  <2> HIDE DEF i, j
  <2>2. Cardinality(BeforeIn(P, R, i)) \in Nat /\ Cardinality(BeforeIn(P, R, j)) \in Nat
    BY BeforeFinite
  <2>3. Cardinality(BeforeIn(P, R, i)) < Cardinality(BeforeIn(P, R, j))
    BY <1>3, <2>1, <2>2
  <2>4. <<i, j>> \in R
    BY <1>1, <2>1, <2>3, PlaceReflects
  <2> QED BY <2>4 DEF R, i, j
<1> QED BY <1>2, <1>4, <1>5, <1>6, <1>7 DEF N

\* What is kept of a sequence is of it, in its order, and none is lost.
LEMMA SelectedKeeps ==
  ASSUME NEW S, NEW s \in Seq(S), NEW P \in SUBSET (1..Len(s))
  PROVE  /\ Selected(s, P) \in Seq(S)
         /\ Selected(s, P) = <<>> <=> P = {}
         /\ \A n \in 1..Len(Selected(s, P)) :
              InOrder(P)[n] \in P /\ Selected(s, P)[n] = s[InOrder(P)[n]]
         /\ \A i \in P : \E n \in 1..Len(Selected(s, P)) :
              InOrder(P)[n] = i /\ Selected(s, P)[n] = s[i]
<1> DEFINE N == Cardinality(P)
<1>1. Len(s) \in Nat /\ \A i \in 1..Len(s) : s[i] \in S
  OBVIOUS
<1>2. IsFiniteSet(P) /\ P \in SUBSET Nat
  <2>1. IsFiniteSet(1..Len(s))
    BY <1>1, FS_Interval
  <2>2. IsFiniteSet(P)
    BY <2>1, FS_Subset
  <2> QED BY <1>1, <2>2
<1>3. /\ N \in Nat /\ (N = 0 <=> P = {})
      /\ InOrder(P) \in [1..N -> P]
      /\ \A i \in P : \E n \in 1..N : InOrder(P)[n] = i
  BY <1>2, InOrderSorts
<1> HIDE DEF N
<1>4. Selected(s, P) = [n \in 1..N |-> s[InOrder(P)[n]]]
  BY DEF Selected, N
<1>5. Selected(s, P) \in Seq(S) /\ Len(Selected(s, P)) = N
  <2>1. \A n \in 1..N : s[InOrder(P)[n]] \in S
    BY <1>1, <1>3
  <2> QED BY <1>3, <1>4, <2>1
<1>6. Selected(s, P) = <<>> <=> N = 0
  BY <1>3, <1>4, <1>5
<1>7. \A n \in 1..Len(Selected(s, P)) :
        InOrder(P)[n] \in P /\ Selected(s, P)[n] = s[InOrder(P)[n]]
  BY <1>3, <1>4, <1>5
<1>8. \A i \in P : \E n \in 1..Len(Selected(s, P)) :
        InOrder(P)[n] = i /\ Selected(s, P)[n] = s[i]
  BY <1>3, <1>4, <1>5
<1>9. Selected(s, P) = <<>> <=> P = {}
  BY <1>3, <1>6
<1> QED BY <1>5, <1>7, <1>8, <1>9
=============================================================================
