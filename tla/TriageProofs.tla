------------------------------ MODULE TriageProofs ------------------------------
(***************************************************************************)
(* For every listing and every query the tally of list_unhealthy is right, *)
(* whatever the cap leaves of the rows, and what the cap cuts off is no    *)
(* more actionable than what it leaves.                                    *)
(***************************************************************************)
EXTENDS Triage, Ranking, SequenceTheorems

\* A count is of the objects read, so it is finite.
ReadInv ==
  /\ listed \in Listings
  /\ read \in 0..Len(listed)
  /\ scanned \in Nat
  /\ summary \in [Buckets -> Nat]

\* The counts add up before the first object,
LEMMA ReadInit == Init => ReadInv /\ CountsAddUp
<1> SUFFICES ASSUME Init PROVE ReadInv /\ CountsAddUp
  OBVIOUS
<1>1. Len(listed) \in Nat
  BY ListingsAssumption DEF Init
<1>2. ReadInv
  BY <1>1 DEF Init, ReadInv
<1>3. \A b \in Buckets : InBucket(b) = {}
  BY DEF Init, InBucket
<1>4. \A b \in Buckets : summary[b] = Cardinality(InBucket(b))
  BY <1>3, FS_EmptySet DEF Init
<1>5. scanned = summary["blocked"] + summary["pending"] + summary["ready"]
                  + summary["terminating"]
  BY DEF Init, Buckets
<1> QED BY <1>2, <1>4, <1>5 DEF CountsAddUp

\* The projection keeps what the loop looks at, and an object has one bucket.
LEMMA ProjectionKept ==
  ASSUME NEW o
  PROVE  /\ Matches(Project(o)) <=> Matches(o)
         /\ Bucket(Project(o)) = Bucket(o)
         /\ Bucket(o) \in Buckets
BY DEF Matches, Project, Bucket, ByState, StateOf, Buckets

\* An object that is read joins the set of its bucket, if it matches at all.
LEMMA NextObject ==
  ASSUME ReadInv, read < Len(listed), read' = read + 1, UNCHANGED <<listed, query>>,
         NEW b \in Buckets
  PROVE  LET o == listed[read + 1]
         IN  Cardinality(InBucket(b)') =
               Cardinality(InBucket(b))
                 + (IF Matches(o) /\ Bucket(o) = b THEN 1 ELSE 0)
<1> DEFINE o == listed[read + 1]
<1>1. read \in Nat /\ 1..(read + 1) = 1..read \cup {read + 1}
  <2>1. Len(listed) \in Nat
    BY ListingsAssumption DEF ReadInv
  <2> QED BY <2>1 DEF ReadInv
<1>2. IsFiniteSet(InBucket(b))
  <2>1. IsFiniteSet(1..read)
    BY <1>1, FS_Interval
  <2>2. InBucket(b) \subseteq 1..read
    BY DEF InBucket
  <2> QED BY <2>1, <2>2, FS_Subset
<1>3. read + 1 \notin InBucket(b)
  BY <1>1 DEF InBucket
<1>4. CASE Matches(o) /\ Bucket(o) = b
  <2>1. InBucket(b)' = InBucket(b) \cup {read + 1}
    BY <1>1, <1>4 DEF InBucket, Matches, Bucket, ByState, StateOf
  <2> QED BY <1>2, <1>3, <1>4, <2>1, FS_AddElement
<1>5. CASE ~(Matches(o) /\ Bucket(o) = b)
  <2>1. InBucket(b)' = InBucket(b)
    BY <1>1, <1>5 DEF InBucket, Matches, Bucket, ByState, StateOf
  <2>2. Cardinality(InBucket(b)) \in Nat
    BY <1>2, FS_CardinalityType
  <2> QED BY <1>5, <2>1, <2>2
<1> QED BY <1>4, <1>5

\* after each further one,
LEMMA ScanCounts == ReadInv /\ CountsAddUp /\ Scan => (ReadInv /\ CountsAddUp)'
<1> SUFFICES ASSUME ReadInv, CountsAddUp, Scan PROVE (ReadInv /\ CountsAddUp)'
  OBVIOUS
<1> DEFINE o == listed[read + 1]
<1>1. read < Len(listed) /\ read' = read + 1 /\ UNCHANGED <<listed, query>>
  BY DEF Scan
<1>2. read' \in 0..Len(listed)
  <2>1. Len(listed) \in Nat
    BY ListingsAssumption DEF ReadInv
  <2> QED BY <1>1, <2>1 DEF ReadInv
<1>3. Bucket(o) \in Buckets
  BY ProjectionKept
<1>4. CASE ~Matches(o)
  <2>1. UNCHANGED <<summary, scanned>>
    BY <1>4, ProjectionKept DEF Scan
  <2>2. \A b \in Buckets : Cardinality(InBucket(b)') = Cardinality(InBucket(b)) + 0
    BY <1>1, <1>4, NextObject
  <2>3. \A b \in Buckets : Cardinality(InBucket(b)') = summary'[b]
    BY <2>1, <2>2 DEF CountsAddUp, ReadInv
  <2> QED BY <1>1, <1>2, <2>1, <2>3 DEF ReadInv, CountsAddUp
<1>5. CASE Matches(o)
  <2>1. /\ scanned' = scanned + 1
        /\ summary' = [summary EXCEPT ![Bucket(o)] = @ + 1]
    BY <1>5, ProjectionKept DEF Scan, Tally
  <2>2. summary' \in [Buckets -> Nat] /\ scanned' \in Nat
    BY <1>3, <2>1 DEF ReadInv
  <2>3. \A b \in Buckets : Cardinality(InBucket(b)') =
          Cardinality(InBucket(b)) + (IF Bucket(o) = b THEN 1 ELSE 0)
    BY <1>1, <1>5, NextObject
  <2>4. \A b \in Buckets : Cardinality(InBucket(b)') = summary'[b]
    BY <1>3, <2>1, <2>3, SMTT(30) DEF CountsAddUp, ReadInv
  <2>5. scanned' = summary'["blocked"] + summary'["pending"] + summary'["ready"]
                     + summary'["terminating"]
    BY <1>3, <2>1, SMTT(30) DEF CountsAddUp, ReadInv, Buckets
  <2> QED BY <1>1, <1>2, <2>2, <2>4, <2>5 DEF ReadInv, CountsAddUp
<1> QED BY <1>4, <1>5

\* and through every step.
LEMMA TallyStep ==
  ReadInv /\ CountsAddUp /\ [Next]_vars => (ReadInv /\ CountsAddUp)'
<1> SUFFICES ASSUME ReadInv, CountsAddUp, [Next]_vars PROVE (ReadInv /\ CountsAddUp)'
  OBVIOUS
<1>1. CASE Scan
  BY <1>1, ScanCounts
<1>2. CASE RankAndCap \/ UNCHANGED vars
  <2>1. UNCHANGED <<listed, query, read, summary, scanned>>
    BY <1>2 DEF RankAndCap, vars
  <2>2. \A b : InBucket(b)' = InBucket(b)
    BY <2>1 DEF InBucket, Matches, Bucket, ByState, StateOf
  <2> QED BY <2>1, <2>2 DEF ReadInv, CountsAddUp
<1> QED BY <1>1, <1>2 DEF Next

\* The counts are of everything scanned, disjoint, and honest after the cap.
THEOREM TallyIsRight == Spec => []CountsAddUp
BY ReadInit, TallyStep, PTL DEF Spec

-----------------------------------------------------------------------------
(* The rows.  During the loop they are exactly the objects read so far     *)
(* that match and are not hidden; the ranking permutes them, and the cap   *)
(* cuts a prefix of the ranking.                                           *)

Wanted(i) == Matches(listed[i]) /\ ~Hidden(listed[i])

\* Every row is of a wanted object, as it is.
RowsTrue ==
  /\ items \in Seq(Row)
  /\ \A r \in 1..Len(items) :
       LET i == items[r].object
       IN  i \in 1..read /\ Wanted(i) /\ items[r] = RowOf(i, listed[i])

\* Every wanted object has its row.
RowsComplete ==
  \A i \in 1..read : Wanted(i) => \E r \in 1..Len(items) : items[r].object = i

\* Or, after the cap, is no more actionable than the rows there are.
RowsCapped ==
  \A i \in 1..Len(listed) : Wanted(i) =>
    \/ \E r \in 1..Len(items) : items[r].object = i
    \/ /\ truncated /\ Len(items) = Limit
       /\ \A r \in 1..Len(items) :
            StateRank(items[r].state) <= StateRank(StateOf(listed[i]))

RowsInv ==
  /\ query \in Queries
  /\ RowsTrue
  /\ scanning => RowsComplete
  /\ ~scanning => RowsCapped

\* What is listed are objects.
LEMMA ListedType ==
  ASSUME ReadInv
  PROVE  /\ listed \in Seq(Object) /\ Len(listed) \in Nat /\ read \in Nat
         /\ \A i \in 1..Len(listed) : listed[i] \in Object
<1>1. listed \in Seq(Objects) /\ Objects \subseteq Object
  BY ListingsAssumption DEF ReadInv
<1>2. Len(listed) \in Nat /\ \A i \in 1..Len(listed) : listed[i] \in Objects
  BY <1>1
<1> QED BY <1>1, <1>2 DEF ReadInv

\* A row is made of the trimmed object as it would be of the whole one.
LEMMA RowType ==
  ASSUME ReadInv, NEW i \in 1..Len(listed)
  PROVE  /\ RowOf(i, Project(listed[i])) = RowOf(i, listed[i])
         /\ RowOf(i, listed[i]) \in Row
         /\ Hidden(Project(listed[i])) = Hidden(listed[i])
<1>1. listed[i] \in Object /\ i \in Nat \ {0}
  BY ListedType
<1>2. StateOf(listed[i]) \in {"Blocked", "Pending", "Ready"}
  BY DEF StateOf, Classify
<1> QED BY <1>1, <1>2 DEF RowOf, Project, Row, Object, StateOf, Hidden

\* A row shows the object it was made from.
LEMMA RowFields ==
  ASSUME RowsTrue, NEW r \in 1..Len(items)
  PROVE  LET i == items[r].object
         IN  /\ i \in 1..read /\ Matches(listed[i]) /\ ~Hidden(listed[i])
             /\ items[r].state = StateOf(listed[i])
             /\ items[r].deleting = listed[i].deleting
             /\ items[r].paused = listed[i].paused
<1> DEFINE i == items[r].object
<1>1. i \in 1..read /\ Wanted(i) /\ items[r] = RowOf(i, listed[i])
  BY DEF RowsTrue
<1> HIDE DEF i
<1>2. /\ items[r].state = StateOf(listed[i])
      /\ items[r].deleting = listed[i].deleting
      /\ items[r].paused = listed[i].paused
  BY <1>1 DEF RowOf
<1>3. Matches(listed[i]) /\ ~Hidden(listed[i])
  BY <1>1 DEF Wanted
<1> QED BY <1>1, <1>2, <1>3 DEF i

\* A scan adds the row of its object, or none.
LEMMA ScanRows ==
  ASSUME ReadInv, RowsInv, Scan
  PROVE  RowsInv'
<1> DEFINE i == read + 1
           o == listed[i]
<1>1. /\ scanning /\ scanning' /\ read' = i /\ i \in 1..Len(listed)
      /\ UNCHANGED <<listed, query>>
  BY ListedType DEF Scan
<1>2. \A j : Wanted(j)' = Wanted(j)
  BY <1>1 DEF Wanted, Matches, Hidden, StateOf
<1>3. 1..i = 1..read \cup {i} /\ 1..read \subseteq 1..i /\ i \in 1..i
  BY ListedType
<1>4. CASE ~Wanted(i)
  <2>1. items' = items
    BY <1>1, <1>4, ProjectionKept, RowType DEF Scan, Wanted
  <2>2. RowsTrue'
    BY <1>1, <1>2, <1>3, <2>1 DEF RowsInv, RowsTrue, RowOf, StateOf
  <2>3. RowsComplete'
    BY <1>1, <1>2, <1>3, <1>4, <2>1 DEF RowsInv, RowsComplete
  <2> QED BY <1>1, <2>2, <2>3 DEF RowsInv
<1>5. CASE Wanted(i)
  <2>1. items' = Append(items, RowOf(i, o))
    BY <1>1, <1>5, ProjectionKept, RowType DEF Scan, Wanted
  <2>2. items \in Seq(Row) /\ RowOf(i, o) \in Row
    BY <1>1, RowType DEF RowsInv, RowsTrue
  <2>3. /\ items' \in Seq(Row) /\ Len(items) \in Nat /\ Len(items') = Len(items) + 1
        /\ \A r \in 1..Len(items) : items'[r] = items[r]
        /\ items'[Len(items) + 1] = RowOf(i, o)
    BY <2>1, <2>2, AppendProperties
  <2>4. RowOf(i, o).object = i /\ \A j, x : RowOf(j, x)' = RowOf(j, x)
    BY DEF RowOf, StateOf
  <2>5. RowsTrue'
    <3> SUFFICES ASSUME NEW r \in 1..Len(items')
                 PROVE  LET j == items'[r].object
                        IN  j \in 1..i /\ Wanted(j) /\ items'[r] = RowOf(j, listed[j])
      BY <1>1, <1>2, <2>3, <2>4 DEF RowsTrue
    <3>1. CASE r = Len(items) + 1
      BY <1>3, <1>5, <2>3, <2>4, <3>1
    <3>2. CASE r \in 1..Len(items)
      BY <1>3, <2>3, <3>2 DEF RowsInv, RowsTrue
    <3> QED BY <2>3, <3>1, <3>2
  <2>6. RowsComplete'
    <3> SUFFICES ASSUME NEW j \in 1..i, Wanted(j)
                 PROVE  \E r \in 1..Len(items') : items'[r].object = j
      BY <1>1, <1>2 DEF RowsComplete
    <3>1. CASE j = i
      BY <2>3, <2>4, <3>1
    <3>2. CASE j \in 1..read
      <4>1. PICK r \in 1..Len(items) : items[r].object = j
        BY <1>1, <3>2 DEF RowsInv, RowsComplete
      <4>2. r \in 1..Len(items') /\ items'[r].object = j
        BY <2>3, <4>1
      <4> QED BY <4>2
    <3> QED BY <1>3, <3>1, <3>2
  <2> QED BY <1>1, <2>5, <2>6 DEF RowsInv
<1> QED BY <1>4, <1>5

Rows == 1..Len(items)
Ahead == {pair \in Rows \X Rows : RowBefore(pair[1], pair[2])}

\* The rows are finitely many.
LEMMA RowsFinite ==
  ASSUME RowsTrue
  PROVE  /\ Len(items) \in Nat /\ IsFiniteSet(Rows) /\ Cardinality(Rows) = Len(items)
         /\ \A r \in Rows : items[r] \in Row
<1>1. Len(items) \in Nat /\ \A r \in Rows : items[r] \in Row
  BY DEF RowsTrue, Rows
<1> QED BY <1>1, FS_Interval DEF Rows

\* The sort of the rows is a strict order.
LEMMA AheadIsOrder ==
  ASSUME ReadInv, RowsTrue
  PROVE  StrictOrder(Rows, Ahead)
<1> DEFINE rank(r) == StateRank(items[r].state)
           place(r) == listed[items[r].object].place
<1>1. \A r \in Rows : rank(r) \in Nat /\ place(r) \in Nat /\ r \in Nat
  <2> SUFFICES ASSUME NEW r \in Rows
               PROVE  rank(r) \in Nat /\ place(r) \in Nat /\ r \in Nat
    OBVIOUS
  <2>1. items[r].object \in 1..Len(listed)
    BY ListedType DEF RowsTrue, Rows, ReadInv
  <2>2. listed[items[r].object] \in Object
    BY <2>1, ListedType
  <2> QED BY <2>2 DEF Object, StateRank, Rows
<1>2. \A p, q \in Rows :
        <<p, q>> \in Ahead <=>
          \/ rank(p) < rank(q)
          \/ /\ rank(p) = rank(q)
             /\ place(p) < place(q) \/ (place(p) = place(q) /\ p < q)
  BY DEF Ahead, RowBefore
<1> HIDE DEF rank, place
<1>3. \A x \in Rows : <<x, x>> \notin Ahead
  BY <1>1, <1>2
<1>4. \A x, y, z \in Rows : <<x, y>> \in Ahead /\ <<y, z>> \in Ahead => <<x, z>> \in Ahead
  BY <1>1, <1>2
<1>5. \A x, y \in Rows : x # y => <<x, y>> \in Ahead \/ <<y, x>> \in Ahead
  BY <1>1, <1>2
<1> QED BY <1>3, <1>4, <1>5 DEF StrictOrder

\* The ranking is a permutation of the rows in the order of their state.
LEMMA RankedRowsSorted ==
  ASSUME ReadInv, RowsTrue
  PROVE  /\ RankedRows \in Seq(Row) /\ Len(RankedRows) = Len(items)
         /\ \A p \in Rows : \E q \in Rows : RankedRows[p] = items[q]
         /\ \A q \in Rows : \E p \in Rows : RankedRows[p] = items[q]
         /\ \A p, q \in Rows :
              p < q => StateRank(RankedRows[p].state) <= StateRank(RankedRows[q].state)
<1> DEFINE at == [p \in Rows |-> CHOOSE q \in Rows : Cardinality({r \in Rows : RowBefore(r, q)}) = p - 1]
<1>1. RankedRows = [p \in Rows |-> items[at[p]]]
  BY DEF RankedRows, Rows
<1>2. \A p \in Rows :
        (\E q \in Rows : Cardinality(BeforeIn(Rows, Ahead, q)) = p - 1)
          => at[p] \in Rows /\ Cardinality(BeforeIn(Rows, Ahead, at[p])) = p - 1
  <2>1. \A q \in Rows : BeforeIn(Rows, Ahead, q) = {r \in Rows : RowBefore(r, q)}
    BY DEF BeforeIn, Ahead
  <2> HIDE DEF Rows
  <2> QED BY <2>1
<1> HIDE DEF at
<1>3. Len(items) \in Nat /\ Rows = 1..Len(items) /\ StrictOrder(Rows, Ahead)
  BY RowsFinite, AheadIsOrder DEF Rows
<1>4. /\ \A p \in Rows : at[p] \in Rows
      /\ \A q \in Rows : \E p \in Rows : at[p] = q
      /\ \A p, q \in Rows : p < q => <<at[p], at[q]>> \in Ahead
  BY <1>2, <1>3, PlacesSort DEF Rows
<1>6. \A p, q \in Rows : <<p, q>> \in Ahead => StateRank(items[p].state) <= StateRank(items[q].state)
  <2>1. \A r \in Rows : StateRank(items[r].state) \in Nat
    BY DEF StateRank
  <2> QED BY <2>1 DEF Ahead, RowBefore
<1>7. RankedRows \in Seq(Row) /\ Len(RankedRows) = Len(items)
  BY <1>1, <1>4, RowsFinite DEF Rows
<1> QED BY <1>1, <1>4, <1>6, <1>7

\* Ranking and capping keep the rows that come first.
LEMMA CapRows ==
  ASSUME ReadInv, RowsInv, RankAndCap
  PROVE  RowsInv'
<1> DEFINE cut == Len(items) > Limit
<1>1. /\ scanning /\ ~scanning' /\ read = Len(listed) /\ truncated' = cut
      /\ items' = IF cut THEN SubSeq(RankedRows, 1, Limit) ELSE RankedRows
      /\ UNCHANGED <<listed, query, read>>
  BY DEF RankAndCap
<1>2. RowsTrue /\ RowsComplete
  BY <1>1 DEF RowsInv
<1>3. /\ RankedRows \in Seq(Row) /\ Len(RankedRows) = Len(items)
      /\ \A p \in Rows : \E q \in Rows : RankedRows[p] = items[q]
      /\ \A q \in Rows : \E p \in Rows : RankedRows[p] = items[q]
      /\ \A p, q \in Rows :
           p < q => StateRank(RankedRows[p].state) <= StateRank(RankedRows[q].state)
  BY <1>2, RankedRowsSorted
<1>4. Limit \in Nat \ {0} /\ Limit' = Limit
  <2>1. query.limit \in Nat
    BY ListingsAssumption DEF RowsInv, Query
  <2> QED BY <1>1, <2>1, LimitsAssumption DEF Limit
<1>5. Len(items) \in Nat
  BY <1>2, RowsFinite
<1> DEFINE kept == IF cut THEN Limit ELSE Len(items)
<1>6. /\ kept \in Nat /\ kept <= Len(items) /\ 1..kept \subseteq Rows
      /\ items' \in Seq(Row) /\ Len(items') = kept
      /\ \A p \in 1..kept : items'[p] = RankedRows[p]
  <2>1. CASE ~cut
    BY <1>1, <1>3, <1>5, <2>1 DEF Rows
  <2>2. CASE cut
    <3>1. Limit <= Len(items) /\ 1..Limit \subseteq Rows
      BY <1>4, <1>5, <2>2 DEF Rows
    <3>2. \A p \in 1..Limit : RankedRows[p] \in Row
      BY <1>3, <3>1 DEF Rows
    <3>3. /\ SubSeq(RankedRows, 1, Limit) \in Seq(Row) /\ Len(SubSeq(RankedRows, 1, Limit)) = Limit
          /\ \A p \in 1..Limit : SubSeq(RankedRows, 1, Limit)[p] = RankedRows[p]
      BY <1>3, <1>4, <3>2, SubSeqProperties
    <3> QED BY <1>1, <1>4, <2>2, <3>1, <3>3
  <2> QED BY <2>1, <2>2
<1>7. \A j : Wanted(j)' = Wanted(j)
  BY <1>1 DEF Wanted, Matches, Hidden, StateOf
<1>8. \A j, x : RowOf(j, x)' = RowOf(j, x)
  BY DEF RowOf, StateOf
<1> HIDE DEF kept
<1>9. RowsTrue'
  <2> SUFFICES ASSUME NEW r \in 1..kept
               PROVE  LET j == items'[r].object
                      IN  j \in 1..read /\ Wanted(j) /\ items'[r] = RowOf(j, listed[j])
    BY <1>1, <1>6, <1>7, <1>8 DEF RowsTrue
  <2>1. PICK q \in Rows : items'[r] = items[q]
    BY <1>3, <1>6
  <2> QED BY <1>2, <2>1 DEF RowsTrue, Rows
<1>10. RowsCapped'
  <2> SUFFICES ASSUME NEW i \in 1..Len(listed), Wanted(i),
                      ~\E r \in 1..kept : items'[r].object = i
               PROVE  /\ cut /\ kept = Limit
                      /\ \A r \in 1..kept :
                           StateRank(items'[r].state) <= StateRank(StateOf(listed[i]))
    <3>1. \A j : StateOf(listed[j])' = StateOf(listed[j])
      BY <1>1 DEF StateOf
    <3> QED BY <1>1, <1>4, <1>6, <1>7, <3>1 DEF RowsCapped, StateOf
  <2>1. PICK q \in Rows : items[q].object = i
    BY <1>1, <1>2 DEF RowsComplete, Rows
  <2>2. PICK p \in Rows : RankedRows[p] = items[q]
    BY <1>3
  <2>3. p \notin 1..kept /\ p \in Nat /\ p <= Len(items) /\ p >= 1
    BY <1>5, <1>6, <2>1, <2>2 DEF Rows
  <2>4. p > kept /\ cut /\ kept = Limit
    BY <1>6, <2>3 DEF kept
  <2>5. items[q].state = StateOf(listed[i])
    BY <1>2, <2>1, RowFields DEF Rows
  <2>6. \A r \in 1..kept : r < p /\ r \in Rows
    BY <1>6, <2>3, <2>4
  <2>7. \A r \in 1..kept : StateRank(items'[r].state) <= StateRank(StateOf(listed[i]))
    BY <1>3, <1>6, <2>2, <2>5, <2>6, ZenonT(40)
  <2> QED BY <2>4, <2>7
<1> QED BY <1>1, <1>9, <1>10 DEF RowsInv

\* Whatever diagnose would call a suspect is a row, unless the list says it was
\* cut and is full of rows as actionable; and no row is there without cause.
LEMMA RowsSuffice == ReadInv /\ RowsInv => NothingTriagedAway
<1> SUFFICES ASSUME ReadInv, RowsInv, ~scanning PROVE NothingTriagedAway
  BY DEF NothingTriagedAway
<1>1. \A o : IsSuspect(NodeOf(o)) <=> StateOf(o) \notin {"Ready", "Unknown"} \/ o.deleting
  BY DEF IsSuspect, State, NodeOf, Declined, StateOf
<1>2. ASSUME NEW i \in 1..Len(listed), Matches(listed[i]), IsSuspect(NodeOf(listed[i]))
      PROVE  Wanted(i)
  BY <1>1, <1>2 DEF Wanted, Hidden
<1>3. ASSUME NEW r \in 1..Len(items)
      PROVE  LET o == listed[items[r].object]
             IN  /\ query.includeHealthy \/ IsSuspect(NodeOf(o))
                 /\ items[r].deleting = o.deleting /\ items[r].paused = o.paused
  BY <1>1, RowFields DEF RowsInv, Hidden
<1> QED BY <1>2, <1>3 DEF RowsInv, RowsCapped, NothingTriagedAway

\* Triage and diagnose agree, for every listing, query and limit.
THEOREM TriageComplete == Spec => []NothingTriagedAway
<1>1. Init => ReadInv /\ CountsAddUp /\ RowsInv
  <2> SUFFICES ASSUME Init PROVE RowsInv
    BY ReadInit
  <2>1. read = 0 /\ items = <<>> /\ items \in Seq(Row) /\ Len(items) = 0 /\ scanning
    BY DEF Init
  <2>2. RowsTrue /\ RowsComplete
    BY <2>1 DEF RowsTrue, RowsComplete
  <2> QED BY <2>1, <2>2 DEF RowsInv, Init
<1>2. ReadInv /\ CountsAddUp /\ RowsInv /\ [Next]_vars
        => (ReadInv /\ CountsAddUp /\ RowsInv)'
  <2> SUFFICES ASSUME ReadInv, CountsAddUp, RowsInv, [Next]_vars
               PROVE  (ReadInv /\ CountsAddUp /\ RowsInv)'
    OBVIOUS
  <2>1. (ReadInv /\ CountsAddUp)'
    BY TallyStep
  <2>2. CASE UNCHANGED vars
    <3>1. UNCHANGED <<listed, query, scanning, read, items, truncated>>
      BY <2>2 DEF vars
    <3>2. /\ \A i : Wanted(i)' = Wanted(i)
          /\ \A i, o : RowOf(i, o)' = RowOf(i, o) /\ StateOf(o)' = StateOf(o)
          /\ Limit' = Limit
      BY <3>1 DEF Wanted, Matches, Hidden, StateOf, RowOf, Limit
    <3>3. RowsTrue'
      BY <3>1, <3>2 DEF RowsInv, RowsTrue
    <3>4. scanning' => RowsComplete'
      BY <3>1, <3>2 DEF RowsInv, RowsComplete
    <3>5. ASSUME ~scanning' PROVE RowsCapped'
      <4>1. RowsCapped
        BY <3>1, <3>5 DEF RowsInv
      <4>2. \A i : StateOf(listed[i])' = StateOf(listed[i])
        BY <3>1 DEF StateOf
      <4> QED BY <3>1, <3>2, <4>1, <4>2 DEF RowsCapped
    <3> QED BY <2>1, <3>1, <3>3, <3>4, <3>5 DEF RowsInv
  <2> QED BY <2>1, <2>2, ScanRows, CapRows DEF Next
<1> QED BY <1>1, <1>2, RowsSuffice, PTL DEF Spec
=============================================================================
