------------------------------ MODULE PackagesProofs ------------------------------
(***************************************************************************)
(* Theorems about list_providers, list_functions and list_configurations:  *)
(* whatever the cluster holds, whichever listing failed and however the    *)
(* three caps cut, what a row says of revisions is true of the cluster,    *)
(* no failing package or revision gets lost between the caps, and every    *)
(* failing thing that is shown has its events or a note.                   *)
(***************************************************************************)
EXTENDS Packages, Ranking, SequenceTheorems

-----------------------------------------------------------------------------
(* The inductive invariant.                                                *)

Early == phase \in {"packages", "revisions", "correlating"}
Answering == phase \in {"events", "done"}

Starts(s, t) == Len(s) <= Len(t) /\ \A i \in 1..Len(s) : s[i] = t[i]

\* What the listings returned is the beginning of what the cluster holds; all of
\* the revisions when they count as listed, and when they do not, why is known.
ReadInv ==
  /\ cluster \in Clusters /\ query \in Queries
  /\ discovered \subseteq {"packages", "revisions"}
  /\ cancelled \in BOOLEAN /\ listed \in BOOLEAN /\ truncated \in BOOLEAN
  /\ phase \in {"packages", "revisions", "correlating", "rows", "events", "done"}
  /\ pkgs \in Seq(Package) /\ revs \in Seq(Revision)
  /\ Starts(pkgs, cluster.pkgs) /\ Starts(revs, cluster.revs)
  /\ listed => revs = cluster.revs
  /\ (~listed /\ phase \notin {"packages", "revisions"}) =>
       \/ "revisions" \notin discovered
       \/ \E n \in notes : n.why = "aborted" \/ n = Note("skipped", {"revisions"})

\* After the correlation, the notes name the orphans, and nothing else as such.
OrphansInv ==
  /\ Early => \A n \in notes : n.why # "orphans"
  /\ ~Early => /\ \A n \in notes : n.why = "orphans" => n.about = {revs[j].name : j \in Orphans}
               /\ Orphans # {} => Note("orphans", {revs[j].name : j \in Orphans}) \in notes

\* What every row says is so, whether or not it was made compact.
Sound(row) ==
  /\ row.pkg \in 1..read /\ Matches(row.pkg) /\ ~Hidden(row.pkg)
  /\ row.state = PackageState(row.pkg)
  /\ row.count = IF listed THEN <<Cardinality(Matched(row.pkg))>> ELSE <<>>
  /\ ~listed => row.skew \subseteq {"notUnpacked"}
  /\ "notServing" \in row.skew => Actives(row.pkg) = {}

\* A row with its details, and one without.
Full(row) ==
  /\ row.reasons = BlockingMessages(pkgs[row.pkg].conds)
  /\ row.revisions = IF listed /\ IncludeRevisions(row.pkg) THEN Kept(row.pkg) ELSE {}
  /\ row.cut <=> /\ listed /\ IncludeRevisions(row.pkg)
                 /\ Cardinality(Matched(row.pkg)) > MaxRevisionRows
Bare(row) == row.state # "Ready" /\ row.reasons = <<>> /\ row.revisions = {}

FailingRows == {r \in Rows : FailingRow(r)}

RowsTrue ==
  /\ items \in Seq(Row)
  /\ \A r \in Rows : Sound(items[r])
  /\ \A r, s \in Rows : items[r].pkg = items[s].pkg => r = s

Wanted(i) == Matches(i) /\ ~Hidden(i)

\* In the loop every wanted package has its row, with its details.
RowsComplete ==
  /\ \A i \in 1..read : Wanted(i) => \E r \in Rows : items[r].pkg = i
  /\ \A r \in Rows : Full(items[r])

\* Or, after the caps, is no more actionable than the rows there are; and only
\* rows after the first are without details, as many as a note says.
RowsCapped ==
  /\ \A i \in 1..Len(pkgs) : Wanted(i) =>
       \/ \E r \in Rows : items[r].pkg = i
       \/ /\ truncated /\ Len(items) = Limit
          /\ \A r \in Rows : StateRank(items[r].state) <= StateRank(PackageState(i))
  /\ \A r \in Rows : Full(items[r]) \/
       /\ Bare(items[r]) /\ r > MaxDetailedPackages
       /\ Note("compact", {Cardinality(FailingRows) - MaxDetailedPackages}) \in notes

RowsInv ==
  /\ read \in 0..Len(pkgs)
  /\ Early => read = 0 /\ items = <<>>
  /\ RowsTrue
  /\ phase = "rows" => RowsComplete
  /\ Answering => read = Len(pkgs) /\ Len(items) <= Limit /\ RowsCapped

\* The rows before the one that is next have their events, the others none; and
\* every lookup was counted.
EventsInv ==
  /\ at \in 1..(Len(items) + 1) /\ decorated \in 0..MaxDetailedPackages
  /\ ~Answering => at = 1 /\ decorated = 0
  /\ phase # "done" =>
       /\ \A r \in Rows : items[r].events = IF r < at THEN NeedsEvents(r) ELSE {}
       /\ decorated = Cardinality({r \in 1..(at - 1) : items[r].events # {}})
  /\ phase = "done" =>
       \A r \in Rows :
         /\ items[r].events \subseteq NeedsEvents(r)
         /\ items[r].events # NeedsEvents(r) =>
              \/ Note("eventsUnavailable", {}) \in notes
              \/ /\ Note("eventsCapped", {}) \in notes
                 /\ Cardinality({s \in 1..(r - 1) : items[s].events # {}}) >= MaxDetailedPackages

IInv == ReadInv /\ OrphansInv /\ RowsInv /\ EventsInv

-----------------------------------------------------------------------------
(* What the listings returned.                                             *)

\* They are packages and revisions, of which a package has finitely many.
LEMMA ReadTyped ==
  ASSUME ReadInv
  PROVE  /\ Len(pkgs) \in Nat /\ Len(revs) \in Nat
         /\ Len(cluster.pkgs) \in Nat /\ Len(cluster.revs) \in Nat
         /\ \A i \in 1..Len(pkgs) : pkgs[i] \in Package /\ pkgs[i] = cluster.pkgs[i]
                                    /\ i \in 1..Len(cluster.pkgs)
         /\ \A j \in 1..Len(revs) : revs[j] \in Revision /\ revs[j] = cluster.revs[j]
                                    /\ j \in 1..Len(cluster.revs)
         /\ query.limit \in Nat
<1>1. cluster.pkgs \in Seq(Package) /\ cluster.revs \in Seq(Revision) /\ query.limit \in Nat
  BY PackageClusters DEF ReadInv
<1>2. pkgs \in Seq(Package) /\ revs \in Seq(Revision)
      /\ Starts(pkgs, cluster.pkgs) /\ Starts(revs, cluster.revs)
  BY DEF ReadInv
<1>3. Len(pkgs) \in Nat /\ Len(revs) \in Nat /\ Len(cluster.pkgs) \in Nat /\ Len(cluster.revs) \in Nat
  BY <1>1, <1>2
<1>4. /\ \A i \in 1..Len(pkgs) : pkgs[i] \in Package
      /\ \A j \in 1..Len(revs) : revs[j] \in Revision
  BY <1>2
<1> QED BY <1>1, <1>2, <1>3, <1>4 DEF Starts

LEMMA MatchedFinite ==
  ASSUME ReadInv, NEW i
  PROVE  /\ Matched(i) \subseteq 1..Len(revs) /\ IsFiniteSet(Matched(i))
         /\ Cardinality(Matched(i)) \in Nat
<1>1. Len(revs) \in Nat
  BY ReadTyped
<1>2. Matched(i) \subseteq 1..Len(revs)
  BY DEF Matched
<1>3. IsFiniteSet(1..Len(revs))
  BY <1>1, FS_Interval
<1>4. IsFiniteSet(Matched(i))
  BY <1>2, <1>3, FS_Subset
<1> QED BY <1>2, <1>4, FS_CardinalityType

LEMMA Classified ==
  ASSUME NEW cs
  PROVE  ClassifyAll(cs) \in {"Ready", "Pending", "Blocked"}
BY DEF ClassifyAll

\* What the conditions of a package say are lines.
LEMMA ReasonsTyped ==
  ASSUME NEW cs \in Seq(Condition)
  PROVE  BlockingMessages(cs) \in Seq(Line)
<1> DEFINE P == {c \in 1..Len(cs) : Failing(cs[c]) /\ cs[c].text # ""}
           said == Selected(cs, P)
<1>1. P \in SUBSET (1..Len(cs))
  OBVIOUS
<1>2. BlockingMessages(cs) = [n \in 1..Len(said) |-> ConditionLine(said[n])]
  BY DEF BlockingMessages, LinesOf
<1> HIDE DEF P
<1>3. said \in Seq(Condition)
  BY <1>1, SelectedKeeps
<1>4. ASSUME NEW c \in Condition PROVE ConditionLine(c) \in Line
  <2>1. c.type \in STRING /\ c.hints \in Seq(Nat)
    BY DEF Condition
  <2> QED BY <2>1 DEF ConditionLine, Line
<1> HIDE DEF said
<1>5. Len(said) \in Nat /\ \A n \in 1..Len(said) : ConditionLine(said[n]) \in Line
  BY <1>3, <1>4
<1> QED BY <1>2, <1>5

\* The row of a package is a row, and has no events yet.
LEMMA RowTyped ==
  ASSUME ReadInv, NEW i \in 1..Len(pkgs)
  PROVE  BuildPackageRow(i) \in Row
<1>1. pkgs[i] \in Package /\ i \in Nat \ {0}
  BY ReadTyped
<1>2. BlockingMessages(pkgs[i].conds) \in Seq(Line)
  BY <1>1, ReasonsTyped DEF Package
<1>3. PackageState(i) \in {"Ready", "Pending", "Blocked"}
  BY Classified DEF PackageState
<1> DEFINE count == IF listed THEN <<Cardinality(Matched(i))>> ELSE <<>>
           skew == (IF pkgs[i].rewritten THEN {"notUnpacked"} ELSE {})
                   \cup (IF listed THEN RevisionSkew(i) ELSE {})
           shown == IF listed /\ IncludeRevisions(i) THEN Kept(i) ELSE {}
           cut == listed /\ IncludeRevisions(i) /\ Cardinality(Matched(i)) > MaxRevisionRows
<1>4. count \in {<<>>} \cup [{1} -> Nat]
  <2>1. Cardinality(Matched(i)) \in Nat
    BY MatchedFinite
  <2>2. \A n \in Nat : <<n>> \in [{1} -> Nat]
    OBVIOUS
  <2> QED BY <2>1, <2>2
<1>5. skew \in SUBSET Sentences
  BY DEF RevisionSkew, Sentences
<1>6. shown \in SUBSET (Nat \ {0})
  <2>1. Kept(i) \subseteq Matched(i)
    BY DEF Kept
  <2>2. Matched(i) \subseteq 1..Len(revs) /\ Len(revs) \in Nat
    BY MatchedFinite, ReadTyped
  <2> QED BY <2>1, <2>2
<1>7. cut \in BOOLEAN
  BY DEF ReadInv, IncludeRevisions
<1>8. BuildPackageRow(i) =
        [pkg |-> i, state |-> PackageState(i), reasons |-> BlockingMessages(pkgs[i].conds),
         count |-> count, skew |-> skew, revisions |-> shown, cut |-> cut, events |-> {}]
  BY DEF BuildPackageRow
<1> HIDE DEF count, skew, shown, cut
<1> QED BY <1>1, <1>2, <1>3, <1>4, <1>5, <1>6, <1>7, <1>8 DEF Row

-----------------------------------------------------------------------------
(* Which revisions of a package are shown.                                 *)

RevisionBefore(i, k, j) ==
  Prio(i, k) < Prio(i, j) \/ (Prio(i, k) = Prio(i, j) /\ Newer(k, j))

RevisionOrder(i) ==
  {pair \in Matched(i) \X Matched(i) : RevisionBefore(i, pair[1], pair[2])}

\* capRevisionRows sorts by a strict order.
LEMMA RevisionsOrdered ==
  ASSUME ReadInv, NEW i
  PROVE  StrictOrder(Matched(i), RevisionOrder(i))
<1> DEFINE rank(j) == Prio(i, j)
           ord(j) == revs[j].ordinal
<1>1. \A j \in Matched(i) : rank(j) \in Nat /\ ord(j) \in Nat /\ j \in Nat
  <2>1. \A j \in 1..Len(revs) : revs[j] \in Revision /\ j \in Nat
    BY ReadTyped
  <2>2. \A j \in Matched(i) : j \in Nat /\ revs[j] \in Revision
    BY <2>1, MatchedFinite
  <2> QED BY <2>2 DEF Prio, Revision
<1>2. \A k, j \in Matched(i) :
        <<k, j>> \in RevisionOrder(i) <=>
          \/ rank(k) < rank(j)
          \/ rank(k) = rank(j) /\ (ord(k) > ord(j) \/ (ord(k) = ord(j) /\ k < j))
  BY DEF RevisionOrder, RevisionBefore, Newer
<1> HIDE DEF rank, ord
<1>3. \A x \in Matched(i) : <<x, x>> \notin RevisionOrder(i)
  BY <1>1, <1>2
<1>4. \A x, y, z \in Matched(i) :
        <<x, y>> \in RevisionOrder(i) /\ <<y, z>> \in RevisionOrder(i) => <<x, z>> \in RevisionOrder(i)
  BY <1>1, <1>2
<1>5. \A x, y \in Matched(i) :
        x # y => <<x, y>> \in RevisionOrder(i) \/ <<y, x>> \in RevisionOrder(i)
  BY <1>1, <1>2
<1> QED BY <1>3, <1>4, <1>5 DEF StrictOrder

\* Kept has those in the first places.
LEMMA KeptByPlace ==
  ASSUME NEW i
  PROVE  Kept(i) = {j \in Matched(i) :
                      Cardinality(BeforeIn(Matched(i), RevisionOrder(i), j)) < MaxRevisionRows}
<1>1. \A j \in Matched(i) :
        {k \in Matched(i) : RevisionBefore(i, k, j)} = BeforeIn(Matched(i), RevisionOrder(i), j)
  BY DEF BeforeIn, RevisionOrder
<1>2. Kept(i) = {j \in Matched(i) :
                   Cardinality({k \in Matched(i) : RevisionBefore(i, k, j)}) < MaxRevisionRows}
  BY DEF Kept, RevisionBefore
<1> QED BY <1>1, <1>2

\* No revision that is left out matters more than one that is shown, and as
\* many are shown as there is room for.
LEMMA KeptFirst ==
  ASSUME ReadInv, NEW i
  PROVE  /\ Kept(i) \subseteq Matched(i)
         /\ \A j \in Matched(i) : j \notin Kept(i) =>
              /\ Cardinality(Matched(i)) > MaxRevisionRows
              /\ Cardinality(Kept(i)) = MaxRevisionRows
              /\ \A k \in Kept(i) : RevisionBefore(i, k, j)
<1> DEFINE M == Matched(i)
           R == RevisionOrder(i)
           place(j) == Cardinality(BeforeIn(M, R, j))
           N == Cardinality(M)
<1>1. /\ StrictOrder(M, R) /\ IsFiniteSet(M) /\ N \in Nat
      /\ MaxRevisionRows \in Nat \ {0}
  BY RevisionsOrdered, MatchedFinite, PackageLimits
<1>2. Kept(i) = {j \in M : place(j) < MaxRevisionRows}
  BY KeptByPlace
<1>3. Cardinality(Kept(i)) = IF N < MaxRevisionRows THEN N ELSE MaxRevisionRows
  BY <1>1, <1>2, FirstPlaces
<1>4. \A j \in M : place(j) \in 0..(N - 1)
  BY <1>1, PlaceInRange
<1>5. ASSUME NEW j \in M, j \notin Kept(i)
      PROVE  /\ N > MaxRevisionRows /\ Cardinality(Kept(i)) = MaxRevisionRows
             /\ \A k \in Kept(i) : RevisionBefore(i, k, j)
  <2>1. place(j) \in 0..(N - 1) /\ ~(place(j) < MaxRevisionRows)
    BY <1>2, <1>4, <1>5
  <2>2. N > MaxRevisionRows
    <3> HIDE DEF N, place
    <3> QED BY <1>1, <2>1
  <2>3. Cardinality(Kept(i)) = MaxRevisionRows
    <3> HIDE DEF N
    <3> QED BY <1>1, <1>3, <2>2
  <2>4. ASSUME NEW k \in Kept(i) PROVE RevisionBefore(i, k, j)
    <3>1. k \in M /\ place(k) \in 0..(N - 1) /\ place(k) < MaxRevisionRows
      BY <1>2, <1>4
    <3>2. place(k) < place(j)
      <4> HIDE DEF N, place
      <4> QED BY <1>1, <2>1, <3>1
    <3>3. <<k, j>> \in R
      BY <1>1, <3>1, <3>2, PlaceReflects
    <3> QED BY <3>3 DEF RevisionOrder
  <2> QED BY <2>2, <2>3, <2>4
<1> QED BY <1>2, <1>5

\* The current revision is one of them: no other has its name.
LEMMA CurrentKept ==
  ASSUME ReadInv, NEW i, NEW j \in Matched(i), IsCurrent(i, j)
  PROVE  j \in Kept(i)
<1>1. SUFFICES ASSUME j \notin Kept(i) PROVE FALSE
  OBVIOUS
<1>2. PICK k \in Kept(i) : TRUE
  <2>1. Cardinality(Kept(i)) # 0
    BY <1>1, KeptFirst, PackageLimits
  <2>2. Kept(i) # {}
    BY <2>1, FS_EmptySet
  <2> QED BY <2>2
<1>3. k \in Matched(i) /\ RevisionBefore(i, k, j)
  BY <1>1, <1>2, KeptFirst
<1>4. j \in 1..Len(revs) /\ k \in 1..Len(revs)
  BY <1>3, MatchedFinite
<1>5. Prio(i, j) = 0 /\ (Prio(i, k) # 0 => Prio(i, k) \in {1, 2, 3}) /\ (Prio(i, k) = 0 <=> IsCurrent(i, k))
  BY DEF Prio
<1>6. IsCurrent(i, k) /\ Newer(k, j)
  BY <1>3, <1>5 DEF RevisionBefore
<1>7. revs[j].name = revs[k].name
  BY <1>6, Zenon DEF IsCurrent
<1>8. j = k
  BY <1>4, <1>7, ReadTyped, RevisionsAssumption, SMTT(30) DEF ReadInv
<1>9. revs[j].ordinal \in Nat /\ j \in Nat
  BY <1>4, ReadTyped DEF Revision
<1> QED BY <1>6, <1>8, <1>9 DEF Newer

-----------------------------------------------------------------------------
(* Whose a revision is.                                                    *)

\* The parent of a revision is the package it belongs to, if that was read.
LEMMA ParentIsOwner ==
  ASSUME ReadInv, NEW j \in 1..Len(revs), NEW i \in Parent(revs[j])
  PROVE  i \in 1..Len(pkgs) /\ pkgs[i].name = revs[j].of
<1>1. /\ i \in 1..Len(pkgs)
      /\ \/ pkgs[i].name = revs[j].label
         \/ pkgs[i].uid = revs[j].owner.uid
         \/ pkgs[i].name = revs[j].owner.name
  BY DEF Parent
<1>2. /\ pkgs[i] = cluster.pkgs[i] /\ i \in 1..Len(cluster.pkgs)
      /\ revs[j] = cluster.revs[j] /\ j \in 1..Len(cluster.revs)
  BY <1>1, ReadTyped
<1> QED BY <1>1, <1>2, RevisionsAssumption, SMTT(30) DEF ReadInv

\* When the revisions were listed, those matched with a package are its own,
\* but for the orphans that the notes name.
LEMMA MatchedAreIts ==
  ASSUME ReadInv, OrphansInv, ~Early, listed, NEW i \in 1..Len(pkgs)
  PROVE  Matched(i) = Its(i)
<1>1. revs = cluster.revs
  BY DEF ReadInv
<1>2. ASSUME NEW j \in Matched(i) PROVE j \in Its(i)
  <2>1. j \in 1..Len(revs) /\ i \in Parent(revs[j])
    BY DEF Matched
  <2>2. pkgs[i].name = revs[j].of
    BY <2>1, ParentIsOwner
  <2>3. ASSUME NEW n \in notes, n.why = "orphans" PROVE revs[j].name \notin n.about
    <3>1. n.about = {revs[k].name : k \in Orphans}
      BY <2>3 DEF OrphansInv
    <3>2. ASSUME NEW k \in Orphans PROVE revs[k].name # revs[j].name
      <4>1. k \in 1..Len(revs) /\ Parent(revs[k]) = {}
        BY DEF Orphans
      <4> QED BY <1>1, <2>1, <4>1, RevisionsAssumption DEF ReadInv
    <3> QED BY <3>1, <3>2
  <2> QED BY <1>1, <2>1, <2>2, <2>3 DEF Its
<1>3. ASSUME NEW j \in Its(i) PROVE j \in Matched(i)
  <2>1. /\ j \in 1..Len(revs) /\ revs[j].of = pkgs[i].name
        /\ \A n \in notes : n.why = "orphans" => revs[j].name \notin n.about
    BY <1>1 DEF Its
  <2>2. j \notin Orphans
    <3>1. SUFFICES ASSUME j \in Orphans PROVE FALSE
      OBVIOUS
    <3>2. Note("orphans", {revs[k].name : k \in Orphans}) \in notes
      BY <3>1 DEF OrphansInv
    <3> QED BY <2>1, <3>1, <3>2 DEF Note
  <2>3. PICK p \in Parent(revs[j]) : TRUE
    BY <2>1, <2>2 DEF Orphans
  <2>4. p \in 1..Len(pkgs) /\ pkgs[p].name = pkgs[i].name
    BY <2>1, <2>3, ParentIsOwner
  <2>5. p = i
    BY <2>4, ReadTyped, RevisionsAssumption, SMTT(30) DEF ReadInv
  <2> QED BY <2>1, <2>3, <2>5 DEF Matched
<1> QED BY <1>2, <1>3

-----------------------------------------------------------------------------
(* What depends on nothing but what the listings returned.                 *)

\* While that stays, so does whatever BuildPackages makes of it.
LEMMA SameReads ==
  ASSUME UNCHANGED <<pkgs, revs, listed, query>>
  PROVE  /\ Orphans' = Orphans /\ Limit' = Limit
         /\ \A j : RevisionState(j)' = RevisionState(j)
         /\ \A i : /\ PackageState(i)' = PackageState(i)
                   /\ Matched(i)' = Matched(i) /\ Actives(i)' = Actives(i)
                   /\ IncludeRevisions(i)' = IncludeRevisions(i) /\ Kept(i)' = Kept(i)
                   /\ Matches(i)' = Matches(i) /\ Hidden(i)' = Hidden(i)
                   /\ Wanted(i)' = Wanted(i)
<1>1. \A j : RevisionState(j)' = RevisionState(j)
  BY DEF RevisionState
<1>2. \A i : PackageState(i)' = PackageState(i)
  BY DEF PackageState
<1>3. \A i, j : IsCurrent(i, j)' = IsCurrent(i, j)
  BY Zenon DEF IsCurrent
<1>4. \A rev : Parent(rev)' = Parent(rev)
  BY DEF Parent
<1>5. Orphans' = Orphans /\ \A i : Matched(i)' = Matched(i)
  BY <1>4 DEF Orphans, Matched
<1>6. \A i : Actives(i)' = Actives(i)
  BY <1>5 DEF Actives
<1>7. \A i, j : Prio(i, j)' = Prio(i, j)
  BY <1>1, <1>3 DEF Prio
<1>8. \A k, j : Newer(k, j)' = Newer(k, j)
  BY DEF Newer
<1>9. \A i, k, j : RevisionBefore(i, k, j)' = RevisionBefore(i, k, j)
  BY <1>7, <1>8 DEF RevisionBefore
<1>10. ASSUME NEW i PROVE Kept(i)' = Kept(i)
  <2> DEFINE M == Matched(i)
             before(j) == {k \in M : RevisionBefore(i, k, j)}
             after(j) == {k \in M : RevisionBefore(i, k, j)'}
  <2>1. Kept(i) = {j \in M : Cardinality(before(j)) < MaxRevisionRows}
    BY DEF Kept, RevisionBefore
  <2>2. Kept(i)' = {j \in M : Cardinality(after(j)) < MaxRevisionRows}
    BY <1>5 DEF Kept, RevisionBefore
  <2>3. \A j : before(j) = after(j)
    BY <1>9
  <2> HIDE DEF before, after
  <2> QED BY <2>1, <2>2, <2>3
<1>11. \A i : IncludeRevisions(i)' = IncludeRevisions(i)
  BY <1>1, <1>2, <1>3, <1>5, <1>6 DEF IncludeRevisions
<1>12. \A i : Matches(i)' = Matches(i) /\ Hidden(i)' = Hidden(i)
  BY <1>2 DEF Matches, Hidden
<1>13. Limit' = Limit
  BY DEF Limit
<1> QED BY <1>1, <1>2, <1>5, <1>6, <1>10, <1>11, <1>12, <1>13 DEF Wanted

\* So a sound row stays sound, and one with its details keeps them.
LEMMA SameRow ==
  ASSUME UNCHANGED <<pkgs, revs, listed, query>>, 1..read \subseteq 1..read'
  PROVE  /\ \A row : Sound(row) => Sound(row)'
         /\ \A row : Full(row)' <=> Full(row)
<1>1. /\ listed' = listed /\ pkgs' = pkgs
      /\ \A i : /\ PackageState(i)' = PackageState(i) /\ Matched(i)' = Matched(i)
                /\ Actives(i)' = Actives(i) /\ IncludeRevisions(i)' = IncludeRevisions(i)
                /\ Kept(i)' = Kept(i) /\ Matches(i)' = Matches(i) /\ Hidden(i)' = Hidden(i)
  BY SameReads
<1>2. ASSUME NEW row, Sound(row) PROVE Sound(row)'
  BY <1>1, <1>2 DEF Sound
<1>3. ASSUME NEW row PROVE Full(row)' <=> Full(row)
  BY <1>1 DEF Full
<1> QED BY <1>2, <1>3

-----------------------------------------------------------------------------
(* The two listings.                                                       *)

\* A listing returns the beginning of what there is, and a note unless it is all.
LEMMA ListAllReads ==
  ASSUME NEW T, NEW all \in Seq(T), NEW kind, NEW r \in ListAll(kind, all)
  PROVE  /\ r.objects \in Seq(T) /\ Starts(r.objects, all)
         /\ \A n \in r.notes : n = Note("aborted", {}) \/ n = Note("skipped", {kind})
         /\ (kind \in discovered /\ r.notes = {}) => r.objects = all
<1>1. Len(all) \in Nat /\ <<>> \in Seq(T) /\ Len(<<>>) = 0
  OBVIOUS
<1>2. ASSUME NEW n \in 0..Len(all)
      PROVE  SubSeq(all, 1, n) \in Seq(T) /\ Starts(SubSeq(all, 1, n), all)
  <2>1. /\ SubSeq(all, 1, n) \in Seq(T) /\ Len(SubSeq(all, 1, n)) = n
        /\ \A i \in 1..n : SubSeq(all, 1, n)[i] = all[i]
    <3>1. \A i \in 1..n : all[i] \in T
      OBVIOUS
    <3> QED BY <1>1, <3>1, SubSeqProperties
  <2> QED BY <1>1, <2>1 DEF Starts
<1>3. Starts(<<>>, all) /\ Starts(all, all)
  BY <1>1 DEF Starts
<1> DEFINE Returned(x) ==
             \/ kind \notin discovered /\ x = [objects |-> <<>>, notes |-> {}]
             \/ x = [objects |-> <<>>, notes |-> {Note("aborted", {})}]
             \/ x = [objects |-> all, notes |-> {}]
             \/ \E n \in 0..Len(all) :
                  x = [objects |-> SubSeq(all, 1, n), notes |-> {Note("skipped", {kind})}]
<1>4. Returned(r)
  BY DEF ListAll
<1>5. CASE kind \notin discovered /\ r = [objects |-> <<>>, notes |-> {}]
  BY <1>1, <1>3, <1>5
<1>6. CASE r = [objects |-> <<>>, notes |-> {Note("aborted", {})}]
  BY <1>1, <1>3, <1>6
<1>7. CASE r = [objects |-> all, notes |-> {}]
  BY <1>3, <1>7
<1>8. ASSUME NEW n \in 0..Len(all),
             r = [objects |-> SubSeq(all, 1, n), notes |-> {Note("skipped", {kind})}]
      PROVE  /\ r.objects \in Seq(T) /\ Starts(r.objects, all)
             /\ \A m \in r.notes : m = Note("skipped", {kind})
             /\ r.notes # {}
  BY <1>2, <1>8
<1> QED BY <1>4, <1>5, <1>6, <1>7, <1>8

\* Before the rows there is nothing to be wrong about them.
LEMMA NoRows ==
  ASSUME items' = <<>>, read' = 0, at' = 1, decorated' = 0, Len(pkgs') \in Nat,
         phase' \in {"packages", "revisions", "correlating", "rows"}
  PROVE  RowsInv' /\ EventsInv'
<1>1. items' \in Seq(Row) /\ Len(items') = 0 /\ 1..0 = {}
  OBVIOUS
<1>2. RowsTrue' /\ RowsComplete'
  BY <1>1 DEF RowsTrue, RowsComplete, Rows
<1>3. RowsInv'
  BY <1>2 DEF RowsInv, Answering
<1>4. Cardinality({r \in 1..(1 - 1) : items'[r].events # {}}) = 0
  <2>1. {r \in 1..(1 - 1) : items'[r].events # {}} = {}
    OBVIOUS
  <2> QED BY <2>1, FS_EmptySet
<1>5. 1 \in 1..(0 + 1) /\ 0 \in 0..MaxDetailedPackages
  BY PackageLimits
<1>6. EventsInv'
  BY <1>1, <1>4, <1>5 DEF EventsInv, Answering, Rows
<1> QED BY <1>3, <1>6

\* The first listing,
LEMMA ListPackagesStep ==
  ASSUME IInv, ListPackages
  PROVE  IInv'
<1>1. PICK r \in ListAll("packages", cluster.pkgs) :
        /\ pkgs' = r.objects
        /\ notes' = r.notes \cup (IF "packages" \in discovered THEN {}
                                  ELSE {Note("noSuchKind", {"packages"})})
  BY DEF ListPackages
<1>2. /\ phase = "packages" /\ phase' = "revisions"
      /\ UNCHANGED <<cluster, query, discovered, cancelled, revs, listed, read, items,
                     truncated, decorated, at>>
  BY DEF ListPackages, chosen
<1>3. cluster.pkgs \in Seq(Package)
  BY PackageClusters DEF IInv, ReadInv
<1>4. /\ pkgs' \in Seq(Package) /\ Starts(pkgs', cluster.pkgs)
      /\ \A n \in r.notes : n = Note("aborted", {}) \/ n = Note("skipped", {"packages"})
  BY <1>1, <1>3, ListAllReads
<1>5. ReadInv'
  BY <1>2, <1>4 DEF IInv, ReadInv, Starts
<1>6. OrphansInv'
  BY <1>1, <1>2, <1>4 DEF OrphansInv, Early, Note
<1>7. RowsInv' /\ EventsInv'
  <2>1. Early /\ ~Answering
    BY <1>2 DEF Early, Answering
  <2>2. items = <<>> /\ read = 0 /\ at = 1 /\ decorated = 0
    BY <2>1 DEF IInv, RowsInv, EventsInv
  <2>3. Len(pkgs') \in Nat
    BY <1>4
  <2> QED BY <1>2, <2>2, <2>3, NoRows
<1> QED BY <1>5, <1>6, <1>7 DEF IInv

\* the second,
LEMMA ListRevisionsStep ==
  ASSUME IInv, ListRevisions
  PROVE  IInv'
<1>1. PICK r \in ListAll("revisions", cluster.revs) :
        /\ revs' = r.objects
        /\ listed' = RevisionsListed(r.notes)
        /\ notes' = notes \cup r.notes
  BY DEF ListRevisions
<1>2. /\ phase = "revisions" /\ phase' = "correlating"
      /\ UNCHANGED <<cluster, query, discovered, cancelled, pkgs, read, items,
                     truncated, decorated, at>>
  BY DEF ListRevisions, chosen
<1>3. cluster.revs \in Seq(Revision)
  BY PackageClusters DEF IInv, ReadInv
<1>4. /\ revs' \in Seq(Revision) /\ Starts(revs', cluster.revs)
      /\ \A n \in r.notes : n = Note("aborted", {}) \/ n = Note("skipped", {"revisions"})
      /\ ("revisions" \in discovered /\ r.notes = {}) => revs' = cluster.revs
  BY <1>1, <1>3, ListAllReads
<1>5. listed' \in BOOLEAN /\ (listed' <=> "revisions" \in discovered /\ r.notes = {})
  BY <1>1, <1>4 DEF RevisionsListed, Note
<1>6. ReadInv'
  <2>1. listed' => revs' = cluster.revs
    BY <1>4, <1>5
  <2>2. ~listed' => \/ "revisions" \notin discovered
                    \/ \E n \in notes' : n.why = "aborted" \/ n = Note("skipped", {"revisions"})
    BY <1>1, <1>4, <1>5 DEF Note
  <2> QED BY <1>2, <1>4, <1>5, <2>1, <2>2 DEF IInv, ReadInv, Starts
<1>7. OrphansInv'
  BY <1>1, <1>2, <1>4 DEF IInv, OrphansInv, Early, Note
<1>8. RowsInv' /\ EventsInv'
  <2>1. Early /\ ~Answering
    BY <1>2 DEF Early, Answering
  <2>2. items = <<>> /\ read = 0 /\ at = 1 /\ decorated = 0
    BY <2>1 DEF IInv, RowsInv, EventsInv
  <2>3. Len(pkgs') \in Nat
    BY <1>2, ReadTyped DEF IInv
  <2> QED BY <1>2, <2>2, <2>3, NoRows
<1> QED BY <1>6, <1>7, <1>8 DEF IInv

\* and a context that ends between them.
LEMMA CancelStep ==
  ASSUME IInv, Cancel
  PROVE  IInv'
<1>1. /\ phase \in {"packages", "revisions"} /\ cancelled'
      /\ UNCHANGED <<cluster, query, discovered, phase, pkgs, revs, listed, read, items,
                     truncated, decorated, at, notes>>
  BY DEF Cancel, chosen
<1>2. ReadInv' /\ OrphansInv'
  <2>1. Early /\ Early'
    BY <1>1 DEF Early
  <2>2. cancelled' \in BOOLEAN
    BY DEF Cancel
  <2> QED BY <1>1, <2>1, <2>2 DEF IInv, ReadInv, Starts, OrphansInv
<1>3. RowsInv' /\ EventsInv'
  <2>1. Early /\ ~Answering
    BY <1>1 DEF Early, Answering
  <2>2. items = <<>> /\ read = 0 /\ at = 1 /\ decorated = 0
    BY <2>1 DEF IInv, RowsInv, EventsInv
  <2>3. Len(pkgs') \in Nat
    BY <1>1, ReadTyped DEF IInv
  <2> QED BY <1>1, <2>2, <2>3, NoRows
<1> QED BY <1>2, <1>3 DEF IInv

\* The correlation names the orphans.
LEMMA CorrelateStep ==
  ASSUME IInv, Correlate
  PROVE  IInv'
<1>1. /\ phase = "correlating" /\ phase' = "rows"
      /\ notes' = notes \cup (IF Orphans = {} THEN {}
                              ELSE {Note("orphans", {revs[j].name : j \in Orphans})})
      /\ UNCHANGED <<cluster, query, discovered, cancelled, pkgs, revs, listed, read, items,
                     truncated, decorated, at>>
  BY DEF Correlate, chosen
<1>2. ReadInv'
  BY <1>1 DEF IInv, ReadInv, Starts
<1>3. OrphansInv'
  <2>1. Orphans' = Orphans /\ revs' = revs
    BY <1>1, SameReads
  <2>2. \A n \in notes : n.why # "orphans"
    BY <1>1 DEF IInv, OrphansInv, Early
  <2> DEFINE names == {revs[j].name : j \in Orphans}
  <2>3. {revs'[j].name : j \in Orphans'} = names
    BY <2>1
  <2>4. /\ \A n \in notes' : n.why = "orphans" => n.about = names
        /\ Orphans # {} => Note("orphans", names) \in notes'
    <3> HIDE DEF names
    <3>1. notes' = notes \cup (IF Orphans = {} THEN {} ELSE {Note("orphans", names)})
      BY <1>1 DEF names
    <3> QED BY <2>2, <3>1 DEF Note
  <2> HIDE DEF names
  <2>5. ~Early'
    BY <1>1 DEF Early
  <2> QED BY <2>1, <2>3, <2>4, <2>5 DEF OrphansInv
<1>4. RowsInv' /\ EventsInv'
  <2>1. Early /\ ~Answering
    BY <1>1 DEF Early, Answering
  <2>2. items = <<>> /\ read = 0 /\ at = 1 /\ decorated = 0
    BY <2>1 DEF IInv, RowsInv, EventsInv
  <2>3. Len(pkgs') \in Nat
    BY <1>1, ReadTyped DEF IInv
  <2> QED BY <1>1, <2>2, <2>3, NoRows
<1> QED BY <1>2, <1>3, <1>4 DEF IInv

-----------------------------------------------------------------------------
(* The loop over the packages.                                             *)

\* The row that is built for a package is sound, and has its details.
LEMMA BuiltRow ==
  ASSUME ReadInv, NEW i \in 1..Len(pkgs)
  PROVE  LET row == BuildPackageRow(i)
         IN  /\ row \in Row /\ row.pkg = i /\ row.events = {} /\ row.state = PackageState(i)
             /\ row.count = IF listed THEN <<Cardinality(Matched(i))>> ELSE <<>>
             /\ ~listed => row.skew \subseteq {"notUnpacked"}
             /\ "notServing" \in row.skew => Actives(i) = {}
             /\ Full(row)
<1> DEFINE row == BuildPackageRow(i)
<1>1. /\ row \in Row /\ row.pkg = i /\ row.events = {} /\ row.state = PackageState(i)
      /\ row.count = IF listed THEN <<Cardinality(Matched(i))>> ELSE <<>>
  BY RowTyped DEF BuildPackageRow
<1>2. row.skew = (IF pkgs[i].rewritten THEN {"notUnpacked"} ELSE {})
                 \cup (IF listed THEN RevisionSkew(i) ELSE {})
  BY DEF BuildPackageRow
<1>3. "notServing" \in RevisionSkew(i) => Actives(i) = {}
  BY DEF RevisionSkew
<1>4. Full(row)
  BY DEF BuildPackageRow, Full
<1> HIDE DEF row
<1>5. ~listed => row.skew \subseteq {"notUnpacked"}
  BY <1>2
<1>6. "notServing" \in row.skew => Actives(i) = {}
  BY <1>2, <1>3
<1> USE DEF row
<1> QED BY <1>1, <1>4, <1>5, <1>6

\* One turn of it adds the row of its package, or none.
LEMMA ReadPackageStep ==
  ASSUME IInv, ReadPackage
  PROVE  IInv'
<1>. PICK i : i = read + 1
  OBVIOUS
<1>. PICK row : row = BuildPackageRow(i)
  OBVIOUS
<1>1. /\ phase = "rows" /\ phase' = "rows" /\ read' = i /\ read < Len(pkgs)
      /\ items' = IF Wanted(i) THEN Append(items, row) ELSE items
      /\ UNCHANGED <<cluster, query, discovered, cancelled, pkgs, revs, listed,
                     truncated, decorated, at, notes>>
  BY DEF ReadPackage, chosen, Wanted
<1>2. read \in Nat /\ Len(pkgs) \in Nat /\ ReadInv /\ OrphansInv /\ RowsInv /\ EventsInv
  BY ReadTyped DEF IInv, RowsInv
<1>3. i \in 1..Len(pkgs) /\ i \in 0..Len(pkgs) /\ 1..i = 1..read \cup {i} /\ i \notin 1..read
  BY <1>1, <1>2
<1>4. /\ row \in Row /\ row.pkg = i /\ row.events = {} /\ row.state = PackageState(i)
      /\ row.count = IF listed THEN <<Cardinality(Matched(i))>> ELSE <<>>
      /\ ~listed => row.skew \subseteq {"notUnpacked"}
      /\ "notServing" \in row.skew => Actives(i) = {}
      /\ Full(row)
  BY <1>2, <1>3, BuiltRow
<1>5. /\ \A x : Sound(x) => Sound(x)'
      /\ \A x : Full(x)' <=> Full(x)
      /\ \A j : Wanted(j)' = Wanted(j)
      /\ Orphans' = Orphans
  BY <1>1, <1>3, SameRow, SameReads
<1>6. Wanted(i) => Sound(row)'
  <2>1. SUFFICES ASSUME Wanted(i) PROVE Sound(row)'
    OBVIOUS
  <2>2. /\ PackageState(i)' = PackageState(i) /\ Matched(i)' = Matched(i)
        /\ Actives(i)' = Actives(i) /\ Matches(i)' /\ ~Hidden(i)'
    BY <1>1, <2>1, SameReads DEF Wanted
  <2>3. i \in 1..read' /\ listed' = listed
    BY <1>1, <1>3
  <2> QED BY <1>4, <2>2, <2>3 DEF Sound
<1>7. ReadInv' /\ OrphansInv'
  <2>1. Early' = Early
    BY <1>1 DEF Early
  <2> QED BY <1>1, <1>2, <1>5, <2>1 DEF ReadInv, OrphansInv, Starts
<1>8. /\ items \in Seq(Row) /\ Len(items) \in Nat
      /\ \A r \in 1..Len(items) : Sound(items[r]) /\ Full(items[r]) /\ items[r].events = {}
      /\ \A r, s \in 1..Len(items) : items[r].pkg = items[s].pkg => r = s
      /\ \A j \in 1..read : Wanted(j) => \E r \in 1..Len(items) : items[r].pkg = j
      /\ at = 1 /\ decorated = 0
  <2>1. RowsTrue /\ RowsComplete /\ at = 1 /\ decorated = 0
    BY <1>1, <1>2 DEF RowsInv, EventsInv, Answering
  <2>2. items \in Seq(Row) /\ Len(items) \in Nat
    BY <2>1 DEF RowsTrue
  <2>3. \A r \in 1..Len(items) : items[r].events = {}
    BY <1>1, <1>2, <2>1, <2>2 DEF EventsInv, Rows
  <2> QED BY <2>1, <2>2, <2>3 DEF RowsTrue, RowsComplete, Rows
<1>9. /\ items' \in Seq(Row) /\ Len(items') \in Nat
      /\ \A r \in 1..Len(items') : Sound(items[r])' /\ Full(items[r])' /\ items'[r].events = {}
      /\ \A r, s \in 1..Len(items') : items'[r].pkg = items'[s].pkg => r = s
      /\ \A j \in 1..i : Wanted(j) => \E r \in 1..Len(items') : items'[r].pkg = j
  <2>1. CASE ~Wanted(i)
    <3>1. items' = items
      BY <1>1, <2>1
    <3>2. \A j \in 1..i : Wanted(j) => j \in 1..read
      BY <1>3, <2>1
    <3> QED BY <1>5, <1>8, <3>1, <3>2
  <2>2. CASE Wanted(i)
    <3>1. /\ items' \in Seq(Row) /\ Len(items') = Len(items) + 1
          /\ \A r \in 1..Len(items) : items'[r] = items[r]
          /\ items'[Len(items) + 1] = row
      BY <1>1, <1>4, <1>8, <2>2, AppendProperties
    <3>2. /\ 1..Len(items') = 1..Len(items) \cup {Len(items) + 1}
          /\ Len(items) + 1 \notin 1..Len(items)
      BY <1>8, <3>1
    <3>3. ASSUME NEW r \in 1..Len(items')
          PROVE  Sound(items[r])' /\ Full(items[r])' /\ items'[r].events = {}
      <4>1. CASE r \in 1..Len(items)
        BY <1>5, <1>8, <3>1, <4>1
      <4>2. CASE r = Len(items) + 1
        BY <1>4, <1>5, <1>6, <2>2, <3>1, <4>2
      <4> QED BY <3>2, <4>1, <4>2
    <3>4. \A r \in 1..Len(items) : items'[r].pkg \in 1..read
      BY <1>8, <3>1 DEF Sound
    <3>5. \A r, s \in 1..Len(items') : items'[r].pkg = items'[s].pkg => r = s
      <4>1. /\ items'[Len(items) + 1].pkg = i
            /\ \A r \in 1..Len(items) : items'[r].pkg = items[r].pkg /\ items'[r].pkg # i
        BY <1>3, <1>4, <3>1, <3>4
      <4> QED BY <1>8, <3>2, <4>1
    <3>6. ASSUME NEW j \in 1..i, Wanted(j) PROVE \E r \in 1..Len(items') : items'[r].pkg = j
      <4>1. CASE j = i
        BY <1>4, <3>1, <3>2, <4>1
      <4>2. CASE j \in 1..read
        <5>1. PICK r \in 1..Len(items) : items[r].pkg = j
          BY <1>8, <3>6, <4>2
        <5> QED BY <3>1, <3>2, <5>1
      <4> QED BY <1>3, <4>1, <4>2
    <3> QED BY <1>8, <3>1, <3>3, <3>5, <3>6
  <2> QED BY <2>1, <2>2
<1>10. RowsTrue' /\ RowsComplete'
  <2>1. RowsTrue'
    BY <1>9 DEF RowsTrue, Rows
  <2>2. RowsComplete'
    BY <1>1, <1>5, <1>9 DEF RowsComplete, Rows
  <2> QED BY <2>1, <2>2
<1>11. RowsInv'
  BY <1>1, <1>3, <1>10 DEF RowsInv, Early, Answering
<1>12. EventsInv'
  <2>1. /\ 1 \in 1..(Len(items') + 1) /\ 0 \in 0..MaxDetailedPackages
        /\ \A r \in 1..Len(items') : ~(r < 1)
    BY <1>9, PackageLimits
  <2>2. Cardinality({r \in 1..(1 - 1) : items'[r].events # {}}) = 0
    <3>1. {r \in 1..(1 - 1) : items'[r].events # {}} = {}
      OBVIOUS
    <3> QED BY <3>1, FS_EmptySet
  <2> QED BY <1>1, <1>8, <1>9, <2>1, <2>2 DEF EventsInv, Answering, Rows
<1> QED BY <1>7, <1>11, <1>12 DEF IInv

-----------------------------------------------------------------------------
(* Order and caps.                                                         *)

Ahead == {pair \in Rows \X Rows : RowBefore(pair[1], pair[2])}

\* The rows are finitely many, and each is a row.
LEMMA RowsFinite ==
  ASSUME RowsTrue
  PROVE  /\ Len(items) \in Nat /\ IsFiniteSet(Rows) /\ Cardinality(Rows) = Len(items)
         /\ \A r \in Rows : items[r] \in Row
<1>1. Len(items) \in Nat /\ \A r \in Rows : items[r] \in Row
  BY DEF RowsTrue, Rows
<1>2. IsFiniteSet(Rows) /\ Cardinality(Rows) = Len(items)
  <2> DEFINE n == Len(items)
  <2>1. n \in Nat /\ Rows = 1..n
    BY <1>1 DEF Rows
  <2> HIDE DEF n
  <2>2. IsFiniteSet(1..n) /\ Cardinality(1..n) = n
    <3>1. 0 <= n - 1 + 1
      BY <2>1
    <3> QED BY <2>1, <3>1, FS_Interval
  <2> QED BY <2>1, <2>2 DEF n
<1> QED BY <1>1, <1>2

\* How actionable a state is: its rank tells it from the others.
LEMMA RanksDiffer ==
  /\ StateRank("Blocked") = 0 /\ StateRank("Pending") = 1 /\ StateRank("Ready") = 2
  /\ \A s \in {"Ready", "Pending", "Blocked"} : StateRank(s) \in Nat
  /\ \A s, t \in {"Ready", "Pending", "Blocked"} : StateRank(s) = StateRank(t) => s = t
<1>1. StateRank("Blocked") = 0
  BY DEF StateRank
<1>2. StateRank("Pending") = 1
  BY DEF StateRank
<1>3. StateRank("Ready") = 2
  BY DEF StateRank
<1> QED BY <1>1, <1>2, <1>3

\* The sort of the rows is a strict order.
LEMMA AheadIsOrder ==
  ASSUME ReadInv, RowsTrue
  PROVE  StrictOrder(Rows, Ahead)
<1> DEFINE rank(r) == StateRank(items[r].state)
           pkg(r) == items[r].pkg
<1>1. \A r \in Rows : rank(r) \in Nat /\ pkg(r) \in Nat
  <2> SUFFICES ASSUME NEW r \in Rows PROVE rank(r) \in Nat /\ pkg(r) \in Nat
    OBVIOUS
  <2>1. items[r].state \in {"Ready", "Pending", "Blocked"} /\ items[r].pkg \in Nat
    BY RowsFinite DEF Row
  <2> QED BY <2>1, RanksDiffer
<1>2. \A p, q \in Rows :
        <<p, q>> \in Ahead <=> rank(p) < rank(q) \/ (rank(p) = rank(q) /\ pkg(p) < pkg(q))
  <2>1. \A p, q \in Rows : items[p].state = items[q].state <=> rank(p) = rank(q)
    BY RowsFinite, RanksDiffer DEF Row
  <2> QED BY <2>1 DEF Ahead, RowBefore
<1>3. \A p, q \in Rows : pkg(p) = pkg(q) => p = q
  BY DEF RowsTrue
<1> HIDE DEF rank, pkg
<1>4. \A x \in Rows : <<x, x>> \notin Ahead
  BY <1>1, <1>2
<1>5. \A x, y, z \in Rows : <<x, y>> \in Ahead /\ <<y, z>> \in Ahead => <<x, z>> \in Ahead
  BY <1>1, <1>2
<1>6. \A x, y \in Rows : x # y => <<x, y>> \in Ahead \/ <<y, x>> \in Ahead
  BY <1>1, <1>2, <1>3
<1> QED BY <1>4, <1>5, <1>6 DEF StrictOrder

\* The ranking is a permutation of the rows in the order of their state.
LEMMA RankedRowsSorted ==
  ASSUME ReadInv, RowsTrue
  PROVE  /\ RankedRows \in Seq(Row) /\ Len(RankedRows) = Len(items)
         /\ \A p \in Rows : \E q \in Rows : RankedRows[p] = items[q]
         /\ \A q \in Rows : \E p \in Rows : RankedRows[p] = items[q]
         /\ \A p, q \in Rows : RankedRows[p].pkg = RankedRows[q].pkg => p = q
         /\ \A p, q \in Rows :
              p < q => StateRank(RankedRows[p].state) <= StateRank(RankedRows[q].state)
<1> DEFINE place == [p \in Rows |-> CHOOSE q \in Rows : Cardinality({r \in Rows : RowBefore(r, q)}) = p - 1]
<1>1. RankedRows = [p \in Rows |-> items[place[p]]]
  BY DEF RankedRows, Rows
<1>2. \A p \in Rows :
        (\E q \in Rows : Cardinality(BeforeIn(Rows, Ahead, q)) = p - 1)
          => place[p] \in Rows /\ Cardinality(BeforeIn(Rows, Ahead, place[p])) = p - 1
  <2>1. \A q \in Rows : BeforeIn(Rows, Ahead, q) = {r \in Rows : RowBefore(r, q)}
    BY DEF BeforeIn, Ahead
  <2> HIDE DEF Rows
  <2> QED BY <2>1
<1> HIDE DEF place
<1>3. Len(items) \in Nat /\ Rows = 1..Len(items) /\ StrictOrder(Rows, Ahead)
  BY RowsFinite, AheadIsOrder DEF Rows
<1>4. /\ \A p \in Rows : place[p] \in Rows
      /\ \A q \in Rows : \E p \in Rows : place[p] = q
      /\ \A p, q \in Rows : p < q => <<place[p], place[q]>> \in Ahead
  BY <1>2, <1>3, PlacesSort DEF Rows
<1>5. \A p, q \in Rows : <<p, q>> \in Ahead => StateRank(items[p].state) <= StateRank(items[q].state)
  <2>1. \A r \in Rows : StateRank(items[r].state) \in Nat
    BY RowsFinite, RanksDiffer DEF Row
  <2> QED BY <2>1 DEF Ahead, RowBefore
<1>6. RankedRows \in Seq(Row) /\ Len(RankedRows) = Len(items)
  BY <1>1, <1>4, RowsFinite DEF Rows
<1>7. \A p, q \in Rows : RankedRows[p].pkg = RankedRows[q].pkg => p = q
  <2> SUFFICES ASSUME NEW p \in Rows, NEW q \in Rows, RankedRows[p].pkg = RankedRows[q].pkg
               PROVE  p = q
    OBVIOUS
  <2>1. place[p] = place[q]
    BY <1>1, <1>4 DEF RowsTrue
  <2>2. <<place[p], place[p]>> \notin Ahead
    BY <1>3, <1>4 DEF StrictOrder
  <2>3. p \in Nat /\ q \in Nat
    BY DEF Rows
  <2> QED BY <1>4, <2>1, <2>2, <2>3
<1> QED BY <1>1, <1>4, <1>5, <1>6, <1>7

\* How many of a set of numbers come after its first M, and where.
LEMMA PastFirst ==
  ASSUME NEW k \in Nat, NEW F \in SUBSET (1..k), NEW M \in Nat,
         NEW r \in F, Cardinality({s \in F : s <= r}) > M
  PROVE  /\ r > M
         /\ Cardinality({t \in F : Cardinality({s \in F : s <= t}) > M}) = Cardinality(F) - M
<1> DEFINE R == {pair \in F \X F : pair[1] < pair[2]}
           place(t) == Cardinality(BeforeIn(F, R, t))
           upTo(t) == Cardinality({s \in F : s <= t})
           first == {t \in F : place(t) < M}
           past == {t \in F : upTo(t) > M}
<1>1. IsFiniteSet(F) /\ Cardinality(F) \in Nat /\ F \in SUBSET Nat /\ r \in 1..k
  <2>1. IsFiniteSet(1..k)
    BY FS_Interval
  <2>2. IsFiniteSet(F)
    BY <2>1, FS_Subset
  <2>3. 1..k \subseteq Nat
    OBVIOUS
  <2> QED BY <2>2, <2>3, FS_CardinalityType
<1>2. StrictOrder(F, R) /\ \A t \in F : upTo(t) = place(t) + 1
  BY <1>1, UpToPlace
<1>3. \A t \in F : place(t) \in 0..(Cardinality(F) - 1)
  BY <1>1, <1>2, PlaceInRange
<1>4. IsFiniteSet(first) /\ Cardinality(first) = IF Cardinality(F) < M THEN Cardinality(F) ELSE M
  BY <1>1, <1>2, FirstPlaces
<1>5. r > M
  <2> DEFINE S == {s \in F : s <= r}
  <2>1. S \in SUBSET (1..r) /\ r \in Nat
    <3>1. r \in Nat /\ \A s \in F : s \in Nat /\ 1 <= s
      BY <1>1
    <3>2. \A s \in S : s \in 1..r
      BY <3>1
    <3> HIDE DEF S
    <3> QED BY <3>1, <3>2
  <2>2. IsFiniteSet(1..r) /\ Cardinality(1..r) = r
    <3>1. IsFiniteSet(1..r) /\ Cardinality(1..r) = IF 1 > r THEN 0 ELSE r - 1 + 1
      BY <2>1, FS_Interval
    <3> QED BY <2>1, <3>1
  <2> HIDE DEF S
  <2>3. Cardinality(S) <= r /\ Cardinality(S) \in Nat
    BY <2>1, <2>2, FS_Subset, FS_CardinalityType
  <2>4. Cardinality(S) > M
    BY DEF S
  <2> QED BY <2>1, <2>3, <2>4
<1>6. M < Cardinality(F)
  <2>1. upTo(r) > M /\ upTo(r) = place(r) + 1 /\ place(r) \in 0..(Cardinality(F) - 1)
    BY <1>2, <1>3
  <2> HIDE DEF upTo, place
  <2> QED BY <1>1, <2>1
<1>7. past = F \ first
  <2> HIDE DEF upTo, place
  <2>1. \A t \in F : upTo(t) > M <=> ~(place(t) < M)
    BY <1>1, <1>2, <1>3
  <2> QED BY <2>1
<1>8. F \cap first = first
  OBVIOUS
<1> HIDE DEF first
<1>9. Cardinality(F \ first) = Cardinality(F) - Cardinality(F \cap first)
  BY <1>1, FS_Difference
<1>10. Cardinality(past) = Cardinality(F) - M
  <2> HIDE DEF past
  <2> QED BY <1>1, <1>4, <1>6, <1>7, <1>8, <1>9
<1> QED BY <1>5, <1>10

\* A compact row is a row that has kept who it is and how it is.
LEMMA CompactTyped ==
  ASSUME NEW row \in Row
  PROVE  /\ Compact(row) \in Row
         /\ Compact(row).pkg = row.pkg /\ Compact(row).state = row.state
         /\ Compact(row).count = row.count /\ Compact(row).events = row.events
         /\ Compact(row).reasons = <<>> /\ Compact(row).skew = {} /\ Compact(row).revisions = {}
<1> DEFINE states == {"Ready", "Pending", "Blocked"}
           counts == {<<>>} \cup [{1} -> Nat]
           reasons == Seq(Line)
           skews == SUBSET Sentences
           numbers == SUBSET (Nat \ {0})
<1>1. Row = [pkg : Nat \ {0}, state : states, reasons : reasons, count : counts, skew : skews,
             revisions : numbers, cut : BOOLEAN, events : SUBSET Nat]
  BY DEF Row
<1>2. <<>> \in reasons /\ {} \in skews /\ {} \in numbers
  OBVIOUS
<1> HIDE DEF states, counts, reasons, skews, numbers
<1> QED BY <1>1, <1>2 DEF Compact

\* A row of which the shown fields stay is as sound as it was.
LEMMA SoundByFields ==
  ASSUME NEW row, Sound(row), NEW other,
         other.pkg = row.pkg, other.state = row.state, other.count = row.count,
         other.skew = row.skew \/ other.skew = {}
  PROVE  Sound(other)
BY DEF Sound

\* The limit is a number, and not over the one the run has for it.
LEMMA LimitTyped ==
  ASSUME ReadInv
  PROVE  Limit \in Nat \ {0} /\ Limit <= IF query.limit = 0 THEN DefaultLimit ELSE MaxLimit
BY ReadTyped, PackageLimits DEF Limit

\* The caps cut no row that is more actionable than one that stays, and make
\* none of the first compact.
LEMMA RankAndCapStep ==
  ASSUME IInv, RankAndCap
  PROVE  IInv'
<1>kept. PICK kept : kept = IF Len(items) > Limit THEN SubSeq(RankedRows, 1, Limit) ELSE RankedRows
  OBVIOUS
<1>n. PICK n : n = Len(kept)
  OBVIOUS
<1>beyond. PICK beyond :
       beyond = {r \in 1..n : kept[r].state # "Ready" /\
                   Cardinality({s \in 1..r : kept[s].state # "Ready"}) > MaxDetailedPackages}
  OBVIOUS
<1>1. /\ phase = "rows" /\ phase' = "events" /\ read = Len(pkgs)
      /\ items' = [r \in 1..n |-> IF r \in beyond THEN Compact(kept[r]) ELSE kept[r]]
      /\ truncated' = (Len(items) > Limit)
      /\ notes' = notes \cup (IF beyond = {} THEN {} ELSE {Note("compact", {Cardinality(beyond)})})
      /\ UNCHANGED <<cluster, query, discovered, cancelled, pkgs, revs, listed, read,
                     decorated, at>>
  BY <1>kept, <1>n, <1>beyond DEF RankAndCap, chosen
<1>2. /\ ReadInv /\ OrphansInv /\ RowsTrue /\ RowsComplete /\ EventsInv
      /\ read \in 0..Len(pkgs) /\ Len(items) \in Nat /\ Limit \in Nat \ {0}
      /\ at = 1 /\ decorated = 0
  BY <1>1, RowsFinite, LimitTyped DEF IInv, RowsInv, EventsInv, Answering
<1>3. /\ RankedRows \in Seq(Row) /\ Len(RankedRows) = Len(items)
      /\ \A p \in 1..Len(items) : \E q \in 1..Len(items) : RankedRows[p] = items[q]
      /\ \A q \in 1..Len(items) : \E p \in 1..Len(items) : RankedRows[p] = items[q]
      /\ \A p, q \in 1..Len(items) : RankedRows[p].pkg = RankedRows[q].pkg => p = q
      /\ \A p, q \in 1..Len(items) :
           p < q => StateRank(RankedRows[p].state) <= StateRank(RankedRows[q].state)
  BY <1>2, RankedRowsSorted DEF Rows
<1>4. /\ kept \in Seq(Row) /\ n \in Nat /\ n <= Len(items) /\ n <= Limit
      /\ \A p \in 1..n : kept[p] = RankedRows[p] /\ p \in 1..Len(items)
      /\ n = Len(items) \/ (Len(items) > Limit /\ n = Limit)
  <2>1. CASE ~(Len(items) > Limit)
    BY <1>kept, <1>n, <1>2, <1>3, <2>1
  <2>2. CASE Len(items) > Limit
    <3>1. Limit <= Len(items) /\ 1..Limit \subseteq 1..Len(items)
      BY <1>2, <2>2
    <3>2. \A p \in 1..Limit : RankedRows[p] \in Row
      BY <1>3, <3>1
    <3>3. /\ SubSeq(RankedRows, 1, Limit) \in Seq(Row) /\ Len(SubSeq(RankedRows, 1, Limit)) = Limit
          /\ \A p \in 1..Limit : SubSeq(RankedRows, 1, Limit)[p] = RankedRows[p]
      BY <1>2, <1>3, <3>2, SubSeqProperties
    <3> QED BY <1>kept, <1>n, <1>2, <2>2, <3>1, <3>3
  <2> QED BY <2>1, <2>2
<1>5. \A r \in 1..n : kept[r] \in Row /\ \E q \in 1..Len(items) : kept[r] = items[q]
  <2> SUFFICES ASSUME NEW r \in 1..n PROVE kept[r] \in Row /\ \E q \in 1..Len(items) : kept[r] = items[q]
    OBVIOUS
  <2>1. kept[r] = RankedRows[r] /\ r \in 1..Len(items)
    BY <1>4
  <2>2. RankedRows[r] \in Row
    BY <1>3, <2>1
  <2> QED BY <1>3, <2>1, <2>2
<1>6. /\ items' \in Seq(Row) /\ Len(items') = n
      /\ \A r \in 1..n :
           /\ items'[r].pkg = kept[r].pkg /\ items'[r].state = kept[r].state
           /\ items'[r].count = kept[r].count /\ items'[r].events = kept[r].events
           /\ items'[r].skew = kept[r].skew \/ items'[r].skew = {}
           /\ r \notin beyond => items'[r] = kept[r]
           /\ r \in beyond => items'[r].reasons = <<>> /\ items'[r].revisions = {}
  <2>1. \A r \in 1..n :
          /\ Compact(kept[r]) \in Row
          /\ Compact(kept[r]).pkg = kept[r].pkg /\ Compact(kept[r]).state = kept[r].state
          /\ Compact(kept[r]).count = kept[r].count /\ Compact(kept[r]).events = kept[r].events
          /\ Compact(kept[r]).reasons = <<>> /\ Compact(kept[r]).skew = {}
          /\ Compact(kept[r]).revisions = {}
    BY <1>5, CompactTyped
  <2>2. \A r \in 1..n : items'[r] \in Row /\ items'[r] = IF r \in beyond THEN Compact(kept[r]) ELSE kept[r]
    BY <1>1, <1>5, <2>1
  <2>3. items' \in Seq(Row) /\ Len(items') = n
    BY <1>1, <1>4, <2>2
  <2> QED BY <2>1, <2>2, <2>3, ZenonT(40)
<1>7. /\ \A x : Sound(x) => Sound(x)'
      /\ \A x : Full(x)' <=> Full(x)
      /\ \A i : Wanted(i)' = Wanted(i) /\ PackageState(i)' = PackageState(i)
      /\ Orphans' = Orphans /\ Limit' = Limit
  BY <1>1, SameRow, SameReads
<1>8. RowsTrue'
  <2>1. ASSUME NEW r \in 1..n PROVE Sound(items[r])'
    <3>1. Sound(kept[r])
      BY <1>2, <1>5 DEF RowsTrue, Rows
    <3>2. PICK row : row = items'[r]
      OBVIOUS
    <3>3. Sound(row)
      BY <1>6, <3>1, <3>2, SoundByFields
    <3> QED BY <1>7, <3>2, <3>3
  <2>2. \A r, s \in 1..n : items'[r].pkg = items'[s].pkg => r = s
    <3> SUFFICES ASSUME NEW r \in 1..n, NEW s \in 1..n, items'[r].pkg = items'[s].pkg PROVE r = s
      OBVIOUS
    <3>1. RankedRows[r].pkg = RankedRows[s].pkg /\ r \in 1..Len(items) /\ s \in 1..Len(items)
      BY <1>4, <1>6
    <3> QED BY <1>3, <3>1
  <2> QED BY <1>6, <2>1, <2>2 DEF RowsTrue, Rows
<1>9. ASSUME NEW i \in 1..Len(pkgs), Wanted(i)
      PROVE  \/ \E r \in 1..n : items'[r].pkg = i
             \/ /\ truncated' /\ n = Limit
                /\ \A r \in 1..n : StateRank(items'[r].state) <= StateRank(PackageState(i))
  <2>1. PICK q \in 1..Len(items) : items[q].pkg = i
    BY <1>1, <1>2, <1>9 DEF RowsComplete, Rows
  <2>2. PICK p \in 1..Len(items) : RankedRows[p] = items[q]
    BY <1>3
  <2>3. CASE p \in 1..n
    BY <1>4, <1>6, <2>1, <2>2, <2>3
  <2>4. CASE p \notin 1..n
    <3>1. n # Len(items) /\ n < p
      BY <1>2, <1>4, <2>4
    <3>2. truncated' /\ n = Limit
      BY <1>1, <1>4, <3>1
    <3>3. items[q].state = PackageState(i)
      BY <1>2, <2>1 DEF RowsTrue, Rows, Sound
    <3>4. ASSUME NEW r \in 1..n
          PROVE  StateRank(items'[r].state) <= StateRank(PackageState(i))
      <4>1. r < p /\ r \in 1..Len(items)
        BY <1>4, <3>1
      <4>2. StateRank(RankedRows[r].state) <= StateRank(RankedRows[p].state)
        BY <1>3, <4>1
      <4> QED BY <1>4, <1>6, <2>2, <3>3, <4>2
    <3> QED BY <3>2, <3>4
  <2> QED BY <2>3, <2>4
<1>10. ASSUME NEW r \in 1..n
       PROVE  Full(items[r])' \/
                /\ Bare(items'[r]) /\ r > MaxDetailedPackages
                /\ Note("compact", {Cardinality(FailingRows') - MaxDetailedPackages}) \in notes'
  <2>1. CASE r \notin beyond
    <3>1. items'[r] = kept[r] /\ Full(kept[r])
      BY <1>2, <1>5, <1>6, <2>1 DEF RowsComplete, Rows
    <3> QED BY <1>7, <3>1
  <2>2. CASE r \in beyond
    <3>0. PICK F : F = {s \in 1..n : kept[s].state # "Ready"}
      OBVIOUS
    <3>1. FailingRows' = F
      BY <1>6, <3>0 DEF FailingRows, FailingRow, Rows
    <3>2. \A t \in 1..n : {s \in 1..t : kept[s].state # "Ready"} = {s \in F : s <= t}
      BY <1>4, <3>0
    <3>3. beyond = {t \in F : Cardinality({s \in F : s <= t}) > MaxDetailedPackages}
      BY <1>beyond, <3>0, <3>2
    <3>4. /\ r \in F /\ Cardinality({s \in F : s <= r}) > MaxDetailedPackages
          /\ F \in SUBSET (1..n) /\ MaxDetailedPackages \in Nat
      BY <2>2, <3>0, <3>3, PackageLimits
    <3>5. r > MaxDetailedPackages /\ Cardinality(beyond) = Cardinality(F) - MaxDetailedPackages
      BY <1>4, <3>3, <3>4, PastFirst
    <3>6. Note("compact", {Cardinality(beyond)}) \in notes'
      BY <1>1, <2>2
    <3>7. Bare(items'[r])
      BY <1>6, <2>2, <3>0, <3>4 DEF Bare
    <3> QED BY <3>1, <3>5, <3>6, <3>7
  <2> QED BY <2>1, <2>2
<1>11. RowsInv'
  <2>1. RowsCapped'
    <3>1. \A i \in 1..Len(pkgs') : Wanted(i)' =>
            \/ \E r \in Rows' : items'[r].pkg = i
            \/ /\ truncated' /\ Len(items') = Limit'
               /\ \A r \in Rows' : StateRank(items'[r].state) <= StateRank(PackageState(i)')
      BY <1>1, <1>6, <1>7, <1>9 DEF Rows
    <3>2. \A r \in Rows' : Full(items[r])' \/
             /\ Bare(items'[r]) /\ r > MaxDetailedPackages
             /\ Note("compact", {Cardinality(FailingRows') - MaxDetailedPackages}) \in notes'
      BY <1>6, <1>10 DEF Rows
    <3> QED BY <3>1, <3>2 DEF RowsCapped
  <2> QED BY <1>1, <1>2, <1>4, <1>6, <1>7, <1>8, <2>1 DEF RowsInv, Early, Answering
<1>12. EventsInv'
  <2>1. \A r \in 1..n : items'[r].events = {} /\ ~(r < 1)
    <3>1. \A q \in 1..Len(items) : items[q].events = {}
      BY <1>1, <1>2 DEF EventsInv, Rows
    <3> QED BY <1>5, <1>6, <3>1, SMTT(30)
  <2>2. Cardinality({r \in 1..(1 - 1) : items'[r].events # {}}) = 0
    <3>1. {r \in 1..(1 - 1) : items'[r].events # {}} = {}
      OBVIOUS
    <3> QED BY <3>1, FS_EmptySet
  <2>3. 1 \in 1..(Len(items') + 1) /\ 0 \in 0..MaxDetailedPackages
    BY <1>4, <1>6, PackageLimits
  <2> QED BY <1>1, <1>2, <1>6, <2>1, <2>2, <2>3 DEF EventsInv, Answering, Rows
<1>13. ReadInv' /\ OrphansInv'
  <2>1. truncated' \in BOOLEAN /\ ~Early /\ ~Early'
    BY <1>1 DEF Early
  <2>2. \A m \in notes' \ notes : m.why = "compact"
    BY <1>1 DEF Note
  <2>3. ReadInv'
    BY <1>1, <1>2, <2>1 DEF ReadInv, Starts
  <2>4. OrphansInv'
    BY <1>1, <1>2, <1>7, <2>1, <2>2 DEF OrphansInv
  <2> QED BY <2>3, <2>4
<1> QED BY <1>11, <1>12, <1>13 DEF IInv

-----------------------------------------------------------------------------
(* The events.                                                             *)

\* What is failing of a row: its package, and revisions that it shows.
LEMMA NeedsTyped ==
  ASSUME RowsTrue, NEW r \in Rows
  PROVE  /\ NeedsEvents(r) \subseteq Nat
         /\ \A j \in NeedsEvents(r) : FetchedBefore(r, j) \subseteq NeedsEvents(r)
<1>1. items[r].revisions \subseteq Nat
  BY RowsFinite DEF Row
<1> QED BY <1>1 DEF NeedsEvents, FetchedBefore

\* While events are attached, the rows keep all else, and so does the rest of
\* the answer but for notes that say nothing of orphans.
Attached ==
  /\ phase = "events" /\ phase' \in {"events", "done"}
  /\ UNCHANGED <<cluster, query, discovered, cancelled, pkgs, revs, listed, read, truncated>>
  /\ items' \in Seq(Row) /\ Len(items') = Len(items)
  /\ \A r \in Rows :
       /\ items'[r].pkg = items[r].pkg /\ items'[r].state = items[r].state
       /\ items'[r].count = items[r].count /\ items'[r].reasons = items[r].reasons
       /\ items'[r].skew = items[r].skew /\ items'[r].revisions = items[r].revisions
       /\ items'[r].cut = items[r].cut
  /\ notes \subseteq notes' /\ \A n \in notes' : n \in notes \/ n.why # "orphans"

\* So what is true of the rows stays true.
LEMMA AttachedKeeps ==
  ASSUME ReadInv, OrphansInv, RowsInv, Attached
  PROVE  /\ ReadInv' /\ OrphansInv' /\ RowsInv'
         /\ \A r \in Rows : NeedsEvents(r)' = NeedsEvents(r)
         /\ Rows' = Rows
<1>1. /\ phase = "events" /\ phase' \in {"events", "done"}
      /\ UNCHANGED <<cluster, query, discovered, cancelled, pkgs, revs, listed, read, truncated>>
      /\ items' \in Seq(Row) /\ Len(items') = Len(items)
      /\ notes \subseteq notes' /\ \A n \in notes' : n \in notes \/ n.why # "orphans"
  BY DEF Attached
<1>2. \A r \in Rows :
        /\ items'[r].pkg = items[r].pkg /\ items'[r].state = items[r].state
        /\ items'[r].count = items[r].count /\ items'[r].reasons = items[r].reasons
        /\ items'[r].skew = items[r].skew /\ items'[r].revisions = items[r].revisions
        /\ items'[r].cut = items[r].cut
  BY DEF Attached
<1>3. RowsTrue /\ RowsCapped /\ read = Len(pkgs) /\ Len(items) <= Limit /\ read \in 0..Len(pkgs)
  BY <1>1 DEF RowsInv, Answering
<1>4. Rows' = Rows
  BY <1>1 DEF Rows
<1>5. /\ \A x : Sound(x) => Sound(x)'
      /\ \A x : Full(x)' <=> Full(x)
      /\ \A i : Wanted(i)' = Wanted(i) /\ PackageState(i)' = PackageState(i)
      /\ \A j : RevisionState(j)' = RevisionState(j)
      /\ Orphans' = Orphans /\ Limit' = Limit
  BY <1>1, SameRow, SameReads
<1>6. /\ ~Early /\ ~Early' /\ Answering'
  BY <1>1 DEF Early, Answering
<1>7. ReadInv'
  BY <1>1, <1>6 DEF ReadInv, Starts
<1>8. OrphansInv'
  BY <1>1, <1>5, <1>6 DEF OrphansInv
<1>9. RowsTrue'
  <2>1. ASSUME NEW r \in Rows PROVE Sound(items[r])'
    <3>1. PICK row : row = items'[r]
      OBVIOUS
    <3>2. Sound(items[r])
      BY <1>3 DEF RowsTrue
    <3>3. Sound(row)
      BY <1>2, <3>1, <3>2, SoundByFields
    <3> QED BY <1>5, <3>1, <3>3
  <2>2. \A r, s \in Rows : items'[r].pkg = items'[s].pkg => r = s
    BY <1>2, <1>3 DEF RowsTrue
  <2> QED BY <1>1, <1>4, <2>1, <2>2 DEF RowsTrue
<1>10. RowsCapped'
  <2>1. ASSUME NEW i \in 1..Len(pkgs), Wanted(i)
        PROVE  \/ \E r \in Rows : items'[r].pkg = i
               \/ /\ truncated /\ Len(items') = Limit
                  /\ \A r \in Rows : StateRank(items'[r].state) <= StateRank(PackageState(i))
    <3>1. \/ \E r \in Rows : items[r].pkg = i
          \/ /\ truncated /\ Len(items) = Limit
             /\ \A r \in Rows : StateRank(items[r].state) <= StateRank(PackageState(i))
      BY <1>3, <2>1 DEF RowsCapped
    <3> QED BY <1>1, <1>2, <3>1
  <2>2. FailingRows' = FailingRows
    BY <1>2, <1>4 DEF FailingRows, FailingRow
  <2>3. ASSUME NEW r \in Rows
        PROVE  Full(items[r])' \/
                 /\ Bare(items'[r]) /\ r > MaxDetailedPackages
                 /\ Note("compact", {Cardinality(FailingRows) - MaxDetailedPackages}) \in notes'
    <3>1. CASE Full(items[r])
      <4>1. PICK row : row = items'[r]
        OBVIOUS
      <4>2. Full(row)
        BY <1>2, <3>1, <4>1 DEF Full
      <4> QED BY <1>5, <4>1, <4>2
    <3>2. CASE ~Full(items[r])
      <4>1. /\ Bare(items[r]) /\ r > MaxDetailedPackages
            /\ Note("compact", {Cardinality(FailingRows) - MaxDetailedPackages}) \in notes
        BY <1>3, <3>2 DEF RowsCapped
      <4> QED BY <1>1, <1>2, <4>1 DEF Bare
    <3> QED BY <3>1, <3>2
  <2>4. \A i \in 1..Len(pkgs') : Wanted(i)' =>
          \/ \E r \in Rows' : items'[r].pkg = i
          \/ /\ truncated' /\ Len(items') = Limit'
             /\ \A r \in Rows' : StateRank(items'[r].state) <= StateRank(PackageState(i)')
    BY <1>1, <1>4, <1>5, <2>1
  <2>5. \A r \in Rows' : Full(items[r])' \/
          /\ Bare(items'[r]) /\ r > MaxDetailedPackages
          /\ Note("compact", {Cardinality(FailingRows') - MaxDetailedPackages}) \in notes'
    BY <1>4, <2>2, <2>3
  <2> QED BY <2>4, <2>5 DEF RowsCapped
<1>11. RowsInv'
  BY <1>1, <1>3, <1>5, <1>6, <1>9, <1>10 DEF RowsInv
<1>12. \A r \in Rows : NeedsEvents(r)' = NeedsEvents(r)
  BY <1>2, <1>5 DEF NeedsEvents, FailingRow
<1> QED BY <1>4, <1>7, <1>8, <1>11, <1>12

\* A row that gets events is changed in nothing else.
LEMMA EventsAttached ==
  ASSUME RowsTrue, NEW a \in Rows, NEW E \in SUBSET Nat,
         items' = [items EXCEPT ![a].events = E]
  PROVE  /\ items' \in Seq(Row) /\ Len(items') = Len(items)
         /\ \A r \in Rows :
              /\ items'[r].pkg = items[r].pkg /\ items'[r].state = items[r].state
              /\ items'[r].count = items[r].count /\ items'[r].reasons = items[r].reasons
              /\ items'[r].skew = items[r].skew /\ items'[r].revisions = items[r].revisions
              /\ items'[r].cut = items[r].cut
              /\ items'[r].events = IF r = a THEN E ELSE items[r].events
<1> DEFINE row == [items[a] EXCEPT !.events = E]
           states == {"Ready", "Pending", "Blocked"}
           counts == {<<>>} \cup [{1} -> Nat]
           lines == Seq(Line)
           skews == SUBSET Sentences
           numbers == SUBSET (Nat \ {0})
<1>1. items \in Seq(Row) /\ a \in 1..Len(items) /\ Len(items) \in Nat /\ items[a] \in Row
  BY RowsFinite DEF RowsTrue, Rows
<1>2. Row = [pkg : Nat \ {0}, state : states, reasons : lines, count : counts, skew : skews,
             revisions : numbers, cut : BOOLEAN, events : SUBSET Nat]
  BY DEF Row
<1>3. items' = [items EXCEPT ![a] = row]
  OBVIOUS
<1> HIDE DEF states, counts, lines, skews, numbers
<1>4. /\ row \in Row /\ row.pkg = items[a].pkg /\ row.state = items[a].state
      /\ row.count = items[a].count /\ row.reasons = items[a].reasons
      /\ row.skew = items[a].skew /\ row.revisions = items[a].revisions
      /\ row.cut = items[a].cut /\ row.events = E
  BY <1>1, <1>2
<1> HIDE DEF row
<1>5. items' \in Seq(Row) /\ Len(items') = Len(items)
  BY <1>1, <1>3, <1>4
<1>6. \A r \in Rows : items'[r] = IF r = a THEN row ELSE items[r]
  BY <1>1, <1>3 DEF Rows
<1> QED BY <1>4, <1>5, <1>6

\* Where a step begins that attaches events or ends the answer.
LEMMA EventsAhead ==
  ASSUME IInv, phase = "events"
  PROVE  /\ ReadInv /\ OrphansInv /\ RowsInv /\ RowsTrue
         /\ Len(items) \in Nat /\ Rows = 1..Len(items) /\ at \in 1..(Len(items) + 1)
         /\ decorated \in 0..MaxDetailedPackages /\ MaxDetailedPackages \in Nat \ {0}
         /\ \A r \in Rows : items[r].events = IF r < at THEN NeedsEvents(r) ELSE {}
         /\ decorated = Cardinality({r \in 1..(at - 1) : items[r].events # {}})
<1>1. ReadInv /\ OrphansInv /\ RowsInv /\ EventsInv
  BY DEF IInv
<1>2. RowsTrue
  BY <1>1 DEF RowsInv
<1> QED BY <1>1, <1>2, RowsFinite, PackageLimits DEF EventsInv, Rows

\* A row without failures is passed over,
LEMMA SkipRowStep ==
  ASSUME IInv, SkipRow
  PROVE  IInv'
<1>1. /\ phase = "events" /\ phase' = "events" /\ at <= Len(items) /\ at' = at + 1
      /\ NeedsEvents(at) = {} /\ items' = items /\ notes' = notes /\ decorated' = decorated
      /\ UNCHANGED <<cluster, query, discovered, cancelled, pkgs, revs, listed, read, truncated>>
  BY DEF SkipRow, chosen
<1>2. /\ ReadInv /\ OrphansInv /\ RowsInv /\ RowsTrue
      /\ Len(items) \in Nat /\ Rows = 1..Len(items) /\ at \in 1..(Len(items) + 1)
      /\ decorated \in 0..MaxDetailedPackages
      /\ \A r \in Rows : items[r].events = IF r < at THEN NeedsEvents(r) ELSE {}
      /\ decorated = Cardinality({r \in 1..(at - 1) : items[r].events # {}})
  BY <1>1, EventsAhead
<1>3. Attached
  BY <1>1, <1>2 DEF Attached, RowsTrue
<1>4. ReadInv' /\ OrphansInv' /\ RowsInv' /\ \A r \in Rows : NeedsEvents(r)' = NeedsEvents(r)
  BY <1>2, <1>3, AttachedKeeps
<1>5. /\ at \in Rows /\ at' \in 1..(Len(items) + 1)
      /\ \A r \in Rows : r < at' <=> r < at \/ r = at
  BY <1>1, <1>2
<1>6. \A r \in Rows' : items'[r].events = IF r < at' THEN NeedsEvents(r)' ELSE {}
  BY <1>1, <1>2, <1>4, <1>5 DEF Rows
<1>7. {r \in 1..(at' - 1) : items'[r].events # {}} = {r \in 1..(at - 1) : items[r].events # {}}
  <2>1. items[at].events = {} /\ 1..(at' - 1) = 1..(at - 1) \cup {at}
    BY <1>1, <1>2, <1>5
  <2> QED BY <1>1, <2>1
<1>8. EventsInv'
  BY <1>1, <1>2, <1>5, <1>6, <1>7 DEF EventsInv, Answering
<1> QED BY <1>4, <1>8 DEF IInv

\* one with failures gets its events, and counts,
LEMMA DecorateRowStep ==
  ASSUME IInv, DecorateRow
  PROVE  IInv'
<1>1. /\ phase = "events" /\ phase' = "events" /\ at <= Len(items) /\ at' = at + 1
      /\ NeedsEvents(at) # {} /\ decorated < MaxDetailedPackages
      /\ items' = [items EXCEPT ![at].events = NeedsEvents(at)]
      /\ notes' = notes /\ decorated' = decorated + 1
      /\ UNCHANGED <<cluster, query, discovered, cancelled, pkgs, revs, listed, read, truncated>>
  BY DEF DecorateRow, chosen
<1>2. /\ ReadInv /\ OrphansInv /\ RowsInv /\ RowsTrue
      /\ Len(items) \in Nat /\ Rows = 1..Len(items) /\ at \in 1..(Len(items) + 1)
      /\ decorated \in 0..MaxDetailedPackages /\ MaxDetailedPackages \in Nat \ {0}
      /\ \A r \in Rows : items[r].events = IF r < at THEN NeedsEvents(r) ELSE {}
      /\ decorated = Cardinality({r \in 1..(at - 1) : items[r].events # {}})
  BY <1>1, EventsAhead
<1>3. /\ at \in Rows /\ at' \in 1..(Len(items) + 1)
      /\ \A r \in Rows : r < at' <=> r < at \/ r = at
  BY <1>1, <1>2
<1>4. NeedsEvents(at) \in SUBSET Nat
  BY <1>2, <1>3, NeedsTyped
<1>5. /\ items' \in Seq(Row) /\ Len(items') = Len(items)
      /\ \A r \in Rows :
           /\ items'[r].pkg = items[r].pkg /\ items'[r].state = items[r].state
           /\ items'[r].count = items[r].count /\ items'[r].reasons = items[r].reasons
           /\ items'[r].skew = items[r].skew /\ items'[r].revisions = items[r].revisions
           /\ items'[r].cut = items[r].cut
           /\ items'[r].events = IF r = at THEN NeedsEvents(at) ELSE items[r].events
  <2>1. PICK a : a = at
    OBVIOUS
  <2>2. PICK E : E = NeedsEvents(at)
    OBVIOUS
  <2>3. RowsTrue /\ a \in Rows /\ E \in SUBSET Nat /\ items' = [items EXCEPT ![a].events = E]
    BY <1>1, <1>2, <1>3, <1>4, <2>1, <2>2
  <2>4. /\ items' \in Seq(Row) /\ Len(items') = Len(items)
        /\ \A r \in Rows :
             /\ items'[r].pkg = items[r].pkg /\ items'[r].state = items[r].state
             /\ items'[r].count = items[r].count /\ items'[r].reasons = items[r].reasons
             /\ items'[r].skew = items[r].skew /\ items'[r].revisions = items[r].revisions
             /\ items'[r].cut = items[r].cut
             /\ items'[r].events = IF r = a THEN E ELSE items[r].events
    BY <2>3, EventsAttached
  <2> QED BY <2>1, <2>2, <2>4
<1>6. Attached
  BY <1>1, <1>5 DEF Attached
<1>7. /\ ReadInv' /\ OrphansInv' /\ RowsInv'
      /\ \A r \in Rows : NeedsEvents(r)' = NeedsEvents(r)
      /\ Rows' = Rows
  BY <1>2, <1>6, AttachedKeeps
<1>8. \A r \in Rows' : items'[r].events = IF r < at' THEN NeedsEvents(r)' ELSE {}
  <2> SUFFICES ASSUME NEW r \in Rows
               PROVE  items'[r].events = IF r < at' THEN NeedsEvents(r)' ELSE {}
    BY <1>7
  <2>1. NeedsEvents(r)' = NeedsEvents(r)
    BY <1>7
  <2>2. at \in Nat /\ r \in Nat
    BY <1>2
  <2> QED BY <1>2, <1>3, <1>5, <2>1, <2>2
<1>9. decorated' = Cardinality({r \in 1..(at' - 1) : items'[r].events # {}})
  <2> DEFINE before == {r \in 1..(at - 1) : items[r].events # {}}
             after == {r \in 1..(at' - 1) : items'[r].events # {}}
  <2>1. 1..(at' - 1) = 1..(at - 1) \cup {at} /\ at \notin 1..(at - 1) /\ at \in Nat
    BY <1>1, <1>2
  <2>2. \A r \in 1..(at - 1) : r \in Rows /\ r # at
    BY <1>1, <1>2
  <2>3. after = before \cup {at} /\ at \notin before
    BY <1>1, <1>3, <1>5, <2>1, <2>2
  <2>4. IsFiniteSet(before)
    <3>1. IsFiniteSet(1..(at - 1))
      BY <2>1, FS_Interval
    <3> QED BY <3>1, FS_Subset
  <2> HIDE DEF before, after
  <2>5. Cardinality(before \cup {at}) = Cardinality(before) + 1
    BY <2>3, <2>4, FS_AddElement
  <2> QED BY <1>1, <1>2, <2>3, <2>5 DEF before, after
<1>10. decorated' \in 0..MaxDetailedPackages
  BY <1>1, <1>2
<1>11. EventsInv'
  BY <1>1, <1>3, <1>5, <1>8, <1>9, <1>10 DEF EventsInv, Answering
<1> QED BY <1>7, <1>11 DEF IInv

\* until a lookup fails,
LEMMA EventsFailStep ==
  ASSUME IInv, EventsFail
  PROVE  IInv'
<1>1. PICK j \in NeedsEvents(at) : items' = [items EXCEPT ![at].events = FetchedBefore(at, j)]
  BY DEF EventsFail
<1>2. /\ phase = "events" /\ phase' = "done" /\ at <= Len(items) /\ at' = at
      /\ decorated < MaxDetailedPackages /\ decorated' = decorated + 1
      /\ notes' = notes \cup {Note("eventsUnavailable", {})}
      /\ UNCHANGED <<cluster, query, discovered, cancelled, pkgs, revs, listed, read, truncated>>
  BY DEF EventsFail, chosen
<1>3. /\ ReadInv /\ OrphansInv /\ RowsInv /\ RowsTrue
      /\ Len(items) \in Nat /\ Rows = 1..Len(items) /\ at \in 1..(Len(items) + 1)
      /\ decorated \in 0..MaxDetailedPackages /\ MaxDetailedPackages \in Nat \ {0}
      /\ \A r \in Rows : items[r].events = IF r < at THEN NeedsEvents(r) ELSE {}
  BY <1>2, EventsAhead
<1>4. at \in Rows
  BY <1>2, <1>3
<1>5. FetchedBefore(at, j) \in SUBSET Nat /\ FetchedBefore(at, j) \subseteq NeedsEvents(at)
  BY <1>3, <1>4, NeedsTyped
<1>6. /\ items' \in Seq(Row) /\ Len(items') = Len(items)
      /\ \A r \in Rows :
           /\ items'[r].pkg = items[r].pkg /\ items'[r].state = items[r].state
           /\ items'[r].count = items[r].count /\ items'[r].reasons = items[r].reasons
           /\ items'[r].skew = items[r].skew /\ items'[r].revisions = items[r].revisions
           /\ items'[r].cut = items[r].cut
           /\ items'[r].events = IF r = at THEN FetchedBefore(at, j) ELSE items[r].events
  <2>1. PICK a : a = at
    OBVIOUS
  <2>2. PICK E : E = FetchedBefore(at, j)
    OBVIOUS
  <2>3. RowsTrue /\ a \in Rows /\ E \in SUBSET Nat /\ items' = [items EXCEPT ![a].events = E]
    BY <1>1, <1>3, <1>4, <1>5, <2>1, <2>2
  <2>4. /\ items' \in Seq(Row) /\ Len(items') = Len(items)
        /\ \A r \in Rows :
             /\ items'[r].pkg = items[r].pkg /\ items'[r].state = items[r].state
             /\ items'[r].count = items[r].count /\ items'[r].reasons = items[r].reasons
             /\ items'[r].skew = items[r].skew /\ items'[r].revisions = items[r].revisions
             /\ items'[r].cut = items[r].cut
             /\ items'[r].events = IF r = a THEN E ELSE items[r].events
    BY <2>3, EventsAttached
  <2> QED BY <2>1, <2>2, <2>4
<1>7. Attached
  BY <1>2, <1>6 DEF Attached, Note
<1>8. /\ ReadInv' /\ OrphansInv' /\ RowsInv'
      /\ \A r \in Rows : NeedsEvents(r)' = NeedsEvents(r)
      /\ Rows' = Rows
  BY <1>3, <1>7, AttachedKeeps
<1>9. \A r \in Rows' : items'[r].events \subseteq NeedsEvents(r)'
  BY <1>3, <1>5, <1>6, <1>8
<1>10. Note("eventsUnavailable", {}) \in notes' /\ decorated' \in 0..MaxDetailedPackages
  BY <1>2, <1>3
<1>11. EventsInv'
  BY <1>2, <1>3, <1>6, <1>9, <1>10 DEF EventsInv, Answering
<1> QED BY <1>8, <1>11 DEF IInv

\* or the first rows have used them up,
LEMMA EventsCappedStep ==
  ASSUME IInv, EventsCapped
  PROVE  IInv'
<1>1. /\ phase = "events" /\ phase' = "done" /\ at <= Len(items) /\ at' = at
      /\ decorated = MaxDetailedPackages /\ decorated' = decorated /\ items' = items
      /\ notes' = notes \cup {Note("eventsCapped", {})}
      /\ UNCHANGED <<cluster, query, discovered, cancelled, pkgs, revs, listed, read, truncated>>
  BY DEF EventsCapped, chosen
<1>2. /\ ReadInv /\ OrphansInv /\ RowsInv /\ RowsTrue
      /\ Len(items) \in Nat /\ Rows = 1..Len(items) /\ at \in 1..(Len(items) + 1)
      /\ decorated \in 0..MaxDetailedPackages /\ MaxDetailedPackages \in Nat \ {0}
      /\ \A r \in Rows : items[r].events = IF r < at THEN NeedsEvents(r) ELSE {}
      /\ decorated = Cardinality({r \in 1..(at - 1) : items[r].events # {}})
  BY <1>1, EventsAhead
<1>3. Attached
  BY <1>1, <1>2 DEF Attached, RowsTrue, Note
<1>4. /\ ReadInv' /\ OrphansInv' /\ RowsInv'
      /\ \A r \in Rows : NeedsEvents(r)' = NeedsEvents(r)
      /\ Rows' = Rows
  BY <1>2, <1>3, AttachedKeeps
<1>5. ASSUME NEW r \in Rows, items[r].events # NeedsEvents(r)
      PROVE  Cardinality({s \in 1..(r - 1) : items[s].events # {}}) >= MaxDetailedPackages
  <2> DEFINE early == {s \in 1..(at - 1) : items[s].events # {}}
             all == {s \in 1..(r - 1) : items[s].events # {}}
  <2>1. r \in Nat /\ at \in Nat /\ ~(r < at)
    BY <1>2, <1>5
  <2>2. 1..(at - 1) \subseteq 1..(r - 1) /\ IsFiniteSet(1..(r - 1))
    BY <2>1, FS_Interval
  <2>3. early \in SUBSET all /\ all \in SUBSET (1..(r - 1))
    BY <2>2
  <2> HIDE DEF early, all
  <2>4. IsFiniteSet(all)
    BY <2>2, <2>3, FS_Subset
  <2>5. Cardinality(early) <= Cardinality(all)
    BY <2>3, <2>4, FS_Subset
  <2>6. Cardinality(all) \in Nat /\ Cardinality(early) = MaxDetailedPackages
    BY <1>1, <1>2, <2>4, FS_CardinalityType DEF early
  <2>7. Cardinality(all) >= MaxDetailedPackages
    BY <1>2, <2>5, <2>6
  <2> QED BY <2>7 DEF all
<1>6. ASSUME NEW r \in Rows
      PROVE  /\ items'[r].events \subseteq NeedsEvents(r)'
             /\ items'[r].events # NeedsEvents(r)' =>
                  Cardinality({s \in 1..(r - 1) : items'[s].events # {}}) >= MaxDetailedPackages
  BY <1>1, <1>2, <1>4, <1>5
<1>7. Note("eventsCapped", {}) \in notes'
  BY <1>1
<1>8. EventsInv'
  BY <1>1, <1>2, <1>4, <1>6, <1>7 DEF EventsInv, Answering
<1> QED BY <1>4, <1>8 DEF IInv

\* or every row had its turn.
LEMMA AllDecoratedStep ==
  ASSUME IInv, AllDecorated
  PROVE  IInv'
<1>1. /\ phase = "events" /\ phase' = "done" /\ at > Len(items) /\ at' = at
      /\ decorated' = decorated /\ items' = items /\ notes' = notes
      /\ UNCHANGED <<cluster, query, discovered, cancelled, pkgs, revs, listed, read, truncated>>
  BY DEF AllDecorated, chosen
<1>2. /\ ReadInv /\ OrphansInv /\ RowsInv /\ RowsTrue
      /\ Len(items) \in Nat /\ Rows = 1..Len(items) /\ at \in 1..(Len(items) + 1)
      /\ decorated \in 0..MaxDetailedPackages
      /\ \A r \in Rows : items[r].events = IF r < at THEN NeedsEvents(r) ELSE {}
  BY <1>1, EventsAhead
<1>3. Attached
  BY <1>1, <1>2 DEF Attached, RowsTrue
<1>4. /\ ReadInv' /\ OrphansInv' /\ RowsInv'
      /\ \A r \in Rows : NeedsEvents(r)' = NeedsEvents(r)
      /\ Rows' = Rows
  BY <1>2, <1>3, AttachedKeeps
<1>5. \A r \in Rows : items'[r].events = NeedsEvents(r)'
  <2> SUFFICES ASSUME NEW r \in Rows PROVE items'[r].events = NeedsEvents(r)'
    OBVIOUS
  <2>1. r < at /\ NeedsEvents(r)' = NeedsEvents(r)
    BY <1>1, <1>2, <1>4
  <2> QED BY <1>1, <1>2, <2>1
<1>6. EventsInv'
  BY <1>1, <1>2, <1>4, <1>5 DEF EventsInv, Answering
<1> QED BY <1>4, <1>6 DEF IInv

-----------------------------------------------------------------------------
(* The invariant.                                                          *)

\* It holds before the first listing,
LEMMA InitInv ==
  ASSUME Init
  PROVE  IInv
<1>1. /\ cluster \in Clusters /\ query \in Queries /\ discovered \in SUBSET {"packages", "revisions"}
      /\ cancelled = FALSE /\ phase = "packages" /\ pkgs = <<>> /\ revs = <<>> /\ listed = FALSE
      /\ read = 0 /\ items = <<>> /\ truncated = FALSE /\ decorated = 0 /\ at = 1 /\ notes = {}
  BY DEF Init
<1>2. /\ Len(pkgs) = 0 /\ Len(revs) = 0 /\ Len(items) = 0 /\ 1..0 = {} /\ items \in Seq(Row)
      /\ pkgs \in Seq(Package) /\ revs \in Seq(Revision)
      /\ Len(cluster.pkgs) \in Nat /\ Len(cluster.revs) \in Nat
  BY <1>1, PackageClusters
<1>3. ReadInv
  <2>1. Starts(pkgs, cluster.pkgs) /\ Starts(revs, cluster.revs)
    BY <1>2 DEF Starts
  <2> QED BY <1>1, <1>2, <2>1 DEF ReadInv
<1>4. OrphansInv
  BY <1>1 DEF OrphansInv, Early
<1>5. RowsInv
  BY <1>1, <1>2 DEF RowsInv, RowsTrue, Rows, Answering
<1>6. EventsInv
  <2>1. {r \in 1..(at - 1) : items[r].events # {}} = {}
    BY <1>1
  <2>2. Cardinality({r \in 1..(at - 1) : items[r].events # {}}) = 0
    BY <2>1, FS_EmptySet
  <2>3. 1 \in 1..(0 + 1) /\ 0 \in 0..MaxDetailedPackages
    BY PackageLimits
  <2> QED BY <1>1, <1>2, <2>2, <2>3 DEF EventsInv, Rows, Answering
<1> QED BY <1>3, <1>4, <1>5, <1>6 DEF IInv

\* while nothing happens,
LEMMA StutterInv ==
  ASSUME IInv, UNCHANGED vars
  PROVE  IInv'
<1>1. UNCHANGED <<cluster, query, discovered, cancelled, phase, pkgs, revs, listed, read,
                  items, truncated, decorated, at, notes>>
  BY DEF vars
<1>2. /\ \A x : Sound(x) => Sound(x)'
      /\ \A x : Full(x)' <=> Full(x)
      /\ \A i : Wanted(i)' = Wanted(i) /\ PackageState(i)' = PackageState(i)
      /\ \A j : RevisionState(j)' = RevisionState(j)
      /\ Orphans' = Orphans /\ Limit' = Limit
  BY <1>1, SameRow, SameReads
<1>3. /\ Rows' = Rows /\ (Early' <=> Early) /\ (Answering' <=> Answering)
  BY <1>1 DEF Rows, Early, Answering
<1>4. FailingRows' = FailingRows
  BY <1>1, <1>3 DEF FailingRows, FailingRow
<1>5. ReadInv'
  BY <1>1 DEF IInv, ReadInv, Starts
<1>6. OrphansInv'
  BY <1>1, <1>2, <1>3 DEF IInv, OrphansInv
<1>7. RowsTrue'
  BY <1>1, <1>2, <1>3 DEF IInv, RowsInv, RowsTrue
<1>8. RowsComplete => RowsComplete'
  BY <1>1, <1>2, <1>3 DEF RowsComplete
<1>9. RowsCapped => RowsCapped'
  BY <1>1, <1>2, <1>3, <1>4 DEF RowsCapped, Bare
<1>10. RowsInv'
  BY <1>1, <1>2, <1>3, <1>7, <1>8, <1>9 DEF IInv, RowsInv
<1>11. \A r : NeedsEvents(r)' = NeedsEvents(r)
  BY <1>1, <1>2 DEF NeedsEvents, FailingRow
<1>12. EventsInv'
  BY <1>1, <1>3, <1>11 DEF IInv, EventsInv
<1> QED BY <1>5, <1>6, <1>10, <1>12 DEF IInv

\* and whatever step is taken.
LEMMA IInvAlways == Spec => []IInv
<1>1. Init => IInv
  BY InitInv
<1>2. IInv /\ [Next]_vars => IInv'
  BY StutterInv, ListPackagesStep, ListRevisionsStep, CorrelateStep, ReadPackageStep,
     RankAndCapStep, SkipRowStep, DecorateRowStep, EventsFailStep, EventsCappedStep,
     AllDecoratedStep, CancelStep DEF Next
<1> QED BY <1>1, <1>2, PTL DEF Spec

-----------------------------------------------------------------------------
(* The theorems.                                                           *)

\* The types: the rows are never more than the limit of the query, none is read
\* twice, and no more of them are decorated than there may be.
THEOREM PackagesTyped == Spec => []TypeOK
<1>1. IInv => TypeOK
  <2> SUFFICES ASSUME IInv PROVE TypeOK
    OBVIOUS
  <2>1. ReadInv /\ RowsInv /\ EventsInv
    BY DEF IInv
  <2>2. Len(items) \in Nat /\ items \in Seq(Row)
    BY <2>1, RowsFinite DEF RowsInv, RowsTrue
  <2>3. ASSUME phase \in {"events", "done"}
        PROVE  Len(items) <= IF query.limit = 0 THEN DefaultLimit ELSE MaxLimit
    <3>1. Len(items) <= Limit
      BY <2>1, <2>3 DEF RowsInv, Answering
    <3>2. Limit \in Nat /\ Limit <= IF query.limit = 0 THEN DefaultLimit ELSE MaxLimit
      BY <2>1, LimitTyped
    <3>3. (IF query.limit = 0 THEN DefaultLimit ELSE MaxLimit) \in Nat
      BY PackageLimits
    <3> QED BY <2>2, <3>1, <3>2, <3>3
  <2>4. /\ cluster \in Clusters /\ query \in Queries
        /\ discovered \subseteq {"packages", "revisions"}
        /\ cancelled \in BOOLEAN /\ listed \in BOOLEAN /\ truncated \in BOOLEAN
        /\ phase \in {"packages", "revisions", "correlating", "rows", "events", "done"}
        /\ pkgs \in Seq(Package) /\ revs \in Seq(Revision)
    BY <2>1 DEF ReadInv
  <2>5. read \in 0..Len(pkgs) /\ at \in 1..(Len(items) + 1) /\ decorated \in 0..MaxDetailedPackages
    BY <2>1 DEF RowsInv, EventsInv
  <2> QED BY <2>2, <2>3, <2>4, <2>5 DEF TypeOK
<1> QED BY <1>1, IInvAlways, PTL

\* What every row of an answer is, before and after the caps.
LEMMA RowsAre ==
  ASSUME IInv, phase \in {"rows", "events", "done"}, NEW r \in Rows
  PROVE  /\ items[r].pkg \in 1..Len(pkgs) /\ Sound(items[r])
         /\ Full(items[r]) \/
              /\ Answering /\ Bare(items[r]) /\ r > MaxDetailedPackages
              /\ Note("compact", {Cardinality(FailingRows) - MaxDetailedPackages}) \in notes
<1>1. ReadInv /\ RowsInv /\ RowsTrue /\ read \in 0..Len(pkgs)
  BY DEF IInv, RowsInv
<1>2. Sound(items[r])
  BY <1>1 DEF RowsTrue
<1>3. items[r].pkg \in 1..Len(pkgs)
  <2>1. items[r].pkg \in 1..read /\ Len(pkgs) \in Nat
    BY <1>1, <1>2, ReadTyped DEF Sound
  <2> QED BY <1>1, <2>1
<1>4. CASE phase = "rows"
  BY <1>1, <1>2, <1>3, <1>4 DEF RowsInv, RowsComplete
<1>5. CASE phase \in {"events", "done"}
  BY <1>1, <1>2, <1>3, <1>5 DEF RowsInv, RowsCapped, Answering
<1> QED BY <1>4, <1>5

\* What a row says of its package's revisions is true of the cluster, and when it
\* says nothing, why is known: for every cluster, query and failure of a listing.
THEOREM UnlistedHonest == Spec => []UnlistedIsNotNone
<1>1. IInv => UnlistedIsNotNone
  <2> SUFFICES ASSUME IInv, phase \in {"rows", "events", "done"}, NEW r \in Rows
               PROVE  LET its == Its(items[r].pkg)
                      IN  IF items[r].count # <<>>
                          THEN /\ items[r].count[1] = Cardinality(its)
                               /\ items[r].revisions \subseteq its
                               /\ "notServing" \in items[r].skew =>
                                    \A j \in its : ~IsActive(cluster.revs[j])
                          ELSE /\ items[r].revisions = {} /\ items[r].skew \subseteq {"notUnpacked"}
                               /\ \/ "revisions" \notin discovered
                                  \/ \E n \in notes : n.why = "aborted"
                                                      \/ n = Note("skipped", {"revisions"})
    BY DEF UnlistedIsNotNone
  <2>1. PICK i : i = items[r].pkg
    OBVIOUS
  <2>2. ReadInv /\ OrphansInv /\ ~Early
    BY DEF IInv, Early
  <2>3. i \in 1..Len(pkgs) /\ Sound(items[r]) /\ (Full(items[r]) \/ Bare(items[r]))
    BY <2>1, RowsAre
  <2>4. /\ items[r].count = IF listed THEN <<Cardinality(Matched(i))>> ELSE <<>>
        /\ ~listed => items[r].skew \subseteq {"notUnpacked"}
        /\ "notServing" \in items[r].skew => Actives(i) = {}
    BY <2>1, <2>3 DEF Sound
  <2>5. items[r].revisions \subseteq Kept(i) /\ (~listed => items[r].revisions = {})
    BY <2>1, <2>3 DEF Full, Bare
  <2>6. CASE listed
    <3>1. Matched(i) = Its(i) /\ revs = cluster.revs
      BY <2>2, <2>3, <2>6, MatchedAreIts DEF ReadInv
    <3>2. items[r].revisions \subseteq Its(i)
      BY <2>2, <2>5, <3>1, KeptFirst
    <3>3. "notServing" \in items[r].skew => \A j \in Its(i) : ~IsActive(cluster.revs[j])
      BY <2>4, <3>1 DEF Actives
    <3>4. items[r].count # <<>> /\ items[r].count[1] = Cardinality(Its(i))
      BY <2>4, <2>6, <3>1
    <3> QED BY <2>1, <3>2, <3>3, <3>4
  <2>7. CASE ~listed
    <3>1. items[r].count = <<>> /\ items[r].revisions = {} /\ items[r].skew \subseteq {"notUnpacked"}
      BY <2>4, <2>5, <2>7
    <3>2. \/ "revisions" \notin discovered
          \/ \E n \in notes : n.why = "aborted" \/ n = Note("skipped", {"revisions"})
      BY <2>2, <2>7 DEF ReadInv
    <3> QED BY <3>1, <3>2
  <2> QED BY <2>2, <2>6, <2>7 DEF ReadInv
<1> QED BY <1>1, IInvAlways, PTL

\* No failing package gets lost between the three caps, whatever they are.
THEOREM FailingPackagesShown == Spec => []FailingPackageShown
<1>1. IInv => FailingPackageShown
  <2> SUFFICES ASSUME IInv, phase \in {"events", "done"} PROVE FailingPackageShown
    BY DEF FailingPackageShown
  <2>1. RowsCapped
    BY DEF IInv, RowsInv, Answering
  <2>2. ASSUME NEW i \in 1..Len(pkgs), Matches(i), PackageState(i) # "Ready"
        PROVE  \/ \E r \in Rows : items[r].pkg = i
               \/ /\ truncated /\ Len(items) = Limit
                  /\ \A r \in Rows : StateRank(items[r].state) <= StateRank(PackageState(i))
    <3>1. Wanted(i)
      BY <2>2 DEF Wanted, Hidden
    <3> QED BY <2>1, <3>1 DEF RowsCapped
  <2>3. ASSUME NEW r \in Rows, FailingRow(r),
               items[r].reasons # BlockingMessages(pkgs[items[r].pkg].conds)
        PROVE  /\ r > MaxDetailedPackages
               /\ Note("compact", {Cardinality({s \in Rows : FailingRow(s)}) - MaxDetailedPackages})
                    \in notes
    <3>1. ~Full(items[r])
      BY <2>3 DEF Full
    <3> QED BY <3>1, RowsAre DEF FailingRows
  <2> QED BY <2>2, <2>3 DEF FailingPackageShown
<1> QED BY <1>1, IInvAlways, PTL

\* Nor does a failing revision, nor the current one.
THEOREM FailingRevisionsShown == Spec => []FailingRevisionShown
<1>1. IInv => FailingRevisionShown
  <2> SUFFICES ASSUME IInv, phase \in {"events", "done"}, NEW r \in Rows,
                      items[r].count # <<>>, Detailed(r), NEW j \in Matched(items[r].pkg)
               PROVE  LET i     == items[r].pkg
                          shown == items[r].revisions
                      IN  /\ (RevisionState(j) # "Ready" /\ j \notin shown) =>
                               /\ items[r].cut /\ Cardinality(shown) = MaxRevisionRows
                               /\ \A k \in shown : \/ IsCurrent(i, k) \/ IsActive(revs[k])
                                                   \/ RevisionState(k) # "Ready"
                          /\ (IsCurrent(i, j) /\ shown # {}) => j \in shown
    BY Zenon DEF FailingRevisionShown
  <2>1. PICK i : i = items[r].pkg
    OBVIOUS
  <2>2. ReadInv /\ MaxDetailedPackages \in Nat /\ MaxRevisionRows \in Nat
    BY PackageLimits DEF IInv
  <2>3. r \in Nat
    BY RowsFinite DEF IInv, RowsInv, Rows
  <2>4. Full(items[r]) /\ Sound(items[r])
    BY <2>2, <2>3, RowsAre DEF Detailed, FailingRow, Bare
  <2>5. listed /\ j \in Matched(i)
    BY <2>1, <2>4 DEF Sound
  <2>6. /\ items[r].revisions = IF IncludeRevisions(i) THEN Kept(i) ELSE {}
        /\ items[r].cut <=> IncludeRevisions(i) /\ Cardinality(Matched(i)) > MaxRevisionRows
    BY <2>1, <2>4, <2>5 DEF Full
  <2>7. ASSUME RevisionState(j) # "Ready", j \notin items[r].revisions
        PROVE  /\ items[r].cut /\ Cardinality(items[r].revisions) = MaxRevisionRows
               /\ \A k \in items[r].revisions : \/ IsCurrent(i, k) \/ IsActive(revs[k])
                                                \/ RevisionState(k) # "Ready"
    <3>1. IncludeRevisions(i)
      BY <2>5, <2>7 DEF IncludeRevisions
    <3>2. items[r].revisions = Kept(i) /\ j \notin Kept(i)
      BY <2>6, <2>7, <3>1
    <3>3. /\ Cardinality(Matched(i)) > MaxRevisionRows /\ Cardinality(Kept(i)) = MaxRevisionRows
          /\ \A k \in Kept(i) : RevisionBefore(i, k, j)
      BY <2>2, <2>5, <3>2, KeptFirst
    <3>4. ASSUME NEW k \in Kept(i)
          PROVE  IsCurrent(i, k) \/ IsActive(revs[k]) \/ RevisionState(k) # "Ready"
      <4>1. Prio(i, j) \in {0, 1, 2}
        BY <2>7 DEF Prio
      <4>2. Prio(i, k) # 3
        <5>1. Prio(i, k) \in {0, 1, 2, 3}
          BY DEF Prio
        <5> QED BY <3>3, <4>1, <5>1 DEF RevisionBefore
      <4> QED BY <4>2 DEF Prio
    <3> QED BY <2>6, <3>1, <3>2, <3>3, <3>4
  <2>8. ASSUME IsCurrent(i, j), items[r].revisions # {}
        PROVE  j \in items[r].revisions
    <3>1. items[r].revisions = Kept(i)
      BY <2>6, <2>8
    <3> QED BY <2>2, <2>5, <2>8, <3>1, CurrentKept
  <2> QED BY <2>1, <2>7, <2>8
<1> QED BY <1>1, IInvAlways, PTL

\* Every failing thing that is shown has its events or a note, however the
\* lookups end, and nothing that is Ready costs one.
THEOREM EventsOrReasonHolds == Spec => []EventsOrReason
<1>1. IInv => EventsOrReason
  <2> SUFFICES ASSUME IInv, Done, NEW r \in Rows
               PROVE  LET i == items[r].pkg
                          failing == {j \in items[r].revisions : RevisionState(j) # "Ready"}
                                     \cup (IF PackageState(i) # "Ready" THEN {0} ELSE {})
                      IN  /\ items[r].events \subseteq failing
                          /\ items[r].events # failing =>
                               \/ Note("eventsUnavailable", {}) \in notes
                               \/ /\ Note("eventsCapped", {}) \in notes
                                  /\ Cardinality({s \in 1..(r - 1) : items[s].events # {}})
                                       >= MaxDetailedPackages
    BY DEF EventsOrReason
  <2>1. phase = "done" /\ EventsInv
    BY DEF Done, IInv
  <2>2. items[r].state = PackageState(items[r].pkg)
    BY <2>1, RowsAre DEF Sound
  <2>3. NeedsEvents(r) = {j \in items[r].revisions : RevisionState(j) # "Ready"}
                         \cup (IF PackageState(items[r].pkg) # "Ready" THEN {0} ELSE {})
    BY <2>2 DEF NeedsEvents, FailingRow
  <2>4. /\ items[r].events \subseteq NeedsEvents(r)
        /\ items[r].events # NeedsEvents(r) =>
             \/ Note("eventsUnavailable", {}) \in notes
             \/ /\ Note("eventsCapped", {}) \in notes
                /\ Cardinality({s \in 1..(r - 1) : items[s].events # {}}) >= MaxDetailedPackages
    BY <2>1 DEF EventsInv
  <2> QED BY <2>3, <2>4
<1> QED BY <1>1, IInvAlways, PTL
=============================================================================
