-------------------------------- MODULE Packages --------------------------------
(***************************************************************************)
(* list_providers, list_functions and list_configurations: the handler of  *)
(* internal/tools/packages.go with BuildPackages and DecoratePackageEvents *)
(* of internal/xp/packages.go.  Packages and their revisions are two       *)
(* listings, either of which may fail or stop early; then one row is built *)
(* per package, three caps cut the answer, and events are fetched until    *)
(* the first fetch that fails.                                             *)
(*                                                                         *)
(* What ListAll may return is what Listing shows of it: everything, or a   *)
(* note that names the kind, or one that the listing stopped.              *)
(***************************************************************************)
EXTENDS Classification, FiniteSets

CONSTANTS
  Clusters,              \* [pkgs, revs]: what the API server holds, see below
  Queries,               \* the queries an agent may make
  MaxRevisionRows,       \* maxRevisionRows, 5 in the code
  MaxDetailedPackages,   \* maxDetailedPackages, 10 in the code
  DefaultLimit,          \* defaultListLimit and maxListLimit, 100 and 500
  MaxLimit

\* rewritten: status.currentIdentifier is set and is not spec.package;
\* current: status.currentRevision, "" for none.
Package == [name : STRING, uid : STRING, conds : Seq(Condition), manual : BOOLEAN,
            rewritten : BOOLEAN, current : STRING, historyLimit : Nat]

\* of is the package it really belongs to; label and owner are how that may be
\* told, "" when they are missing; desired: spec.desiredState, "" likewise;
\* halted: paused or being deleted.
Revision == [name : STRING, of : STRING, label : STRING,
             owner : [uid : STRING, name : STRING],
             ordinal : Nat, desired : STRING, halted : BOOLEAN, conds : Seq(Condition)]

\* only: the packages that the name filter lets through, {} for no filter;
\* limit: 0 for none given.
Query == [only : SUBSET STRING, unhealthyOnly : BOOLEAN, limit : Nat]

ASSUME PackageLimits ==
  /\ MaxRevisionRows \in Nat \ {0} /\ MaxDetailedPackages \in Nat \ {0}
  /\ DefaultLimit \in Nat \ {0} /\ MaxLimit \in Nat \ {0}
ASSUME PackageClusters ==
  /\ \A c \in Clusters : c.pkgs \in Seq(Package) /\ c.revs \in Seq(Revision)
  /\ \A q \in Queries : q.unhealthyOnly \in BOOLEAN /\ q.limit \in Nat
\* The API server lets no two objects of a kind have one name, and the package
\* manager puts no package's name or uid on a revision but that of its own.
ASSUME RevisionsAssumption ==
  \A c \in Clusters :
    /\ \A p, q \in 1..Len(c.pkgs) : c.pkgs[p].name = c.pkgs[q].name => p = q
    /\ \A v, w \in 1..Len(c.revs) : c.revs[v].name = c.revs[w].name => v = w
    /\ \A p \in 1..Len(c.pkgs), v \in 1..Len(c.revs) :
         (\/ c.pkgs[p].name = c.revs[v].label
          \/ c.pkgs[p].uid = c.revs[v].owner.uid
          \/ c.pkgs[p].name = c.revs[v].owner.name) => c.pkgs[p].name = c.revs[v].of

VARIABLES
  cluster, query,  \* chosen once
  discovered,      \* which of the two kinds discovery found
  cancelled,       \* the context of the call has ended
  phase,           \* where the handler is
  pkgs, revs,      \* what the two listings returned
  listed,          \* PackagesParams.RevisionsListed
  read,            \* how many packages the loop of BuildPackages has read
  items,           \* the rows
  truncated,
  decorated,       \* how many rows had events fetched, and the row that is next
  at,
  notes

vars == <<cluster, query, discovered, cancelled, phase, pkgs, revs, listed, read,
          items, truncated, decorated, at, notes>>
chosen == <<cluster, query, discovered>>

Sentences == {"notUnpacked", "awaitingApproval", "notServing", "wedged",
              "severalActive", "garbage", "healthLags"}

\* revisions: which are shown, by index; events: whose events are attached, 0
\* for the package's own; count: a sequence of one, or of none for nil.
Row == [pkg : Nat \ {0}, state : {"Ready", "Pending", "Blocked"}, reasons : Seq(Line),
        count : {<<>>} \cup [{1} -> Nat], skew : SUBSET Sentences,
        revisions : SUBSET (Nat \ {0}), cut : BOOLEAN, events : SUBSET Nat]

Note(why, about) == [why |-> why, about |-> about]

\* ListAll on one kind: read to its last page, or given up on the way.
ListAll(kind, all) ==
  CASE kind \notin discovered -> {[objects |-> <<>>, notes |-> {}]}
    [] kind \in discovered /\ cancelled -> {[objects |-> <<>>, notes |-> {Note("aborted", {})}]}
    [] OTHER -> {[objects |-> all, notes |-> {}]} \cup
         {[objects |-> SubSeq(all, 1, n), notes |-> {Note("skipped", {kind})}] : n \in 0..Len(all)}

Init ==
  /\ cluster \in Clusters /\ query \in Queries
  /\ discovered \in SUBSET {"packages", "revisions"}
  /\ cancelled = FALSE /\ phase = "packages"
  /\ pkgs = <<>> /\ revs = <<>> /\ listed = FALSE
  /\ read = 0 /\ items = <<>> /\ truncated = FALSE
  /\ decorated = 0 /\ at = 1 /\ notes = {}

-----------------------------------------------------------------------------
(* The two listings.                                                       *)

RevisionsListed_ByName(ns) ==
  "revisions" \in discovered /\ Note("skipped", {"revisions"}) \notin ns

\* revisionsListed: nothing in the notes of the revision listing names its
\* kind, nor says that the listing stopped.
RevisionsListed(ns) ==
  /\ "revisions" \in discovered
  /\ \A n \in ns : n.why # "aborted" /\ "revisions" \notin n.about

ListPackages ==
  /\ phase = "packages"
  /\ \E r \in ListAll("packages", cluster.pkgs) :
       /\ pkgs' = r.objects
       /\ notes' = r.notes \cup (IF "packages" \in discovered THEN {}
                                 ELSE {Note("noSuchKind", {"packages"})})
  /\ phase' = "revisions"
  /\ UNCHANGED <<chosen, cancelled, revs, listed, read, items, truncated, decorated, at>>

ListRevisions ==
  /\ phase = "revisions"
  /\ \E r \in ListAll("revisions", cluster.revs) :
       /\ revs' = r.objects
       /\ listed' = RevisionsListed(r.notes)
       /\ notes' = notes \cup r.notes
  /\ phase' = "correlating"
  /\ UNCHANGED <<chosen, cancelled, pkgs, read, items, truncated, decorated, at>>

-----------------------------------------------------------------------------
(* BuildPackages: correlation, classification, the row of a package.       *)

\* parentIndex: by label, else by the controller's uid, else by its name.
Parent(rev) ==
  LET labelled == {i \in 1..Len(pkgs) : pkgs[i].name = rev.label}
      owned    == {i \in 1..Len(pkgs) : pkgs[i].uid = rev.owner.uid}
  IN  IF labelled # {} THEN labelled
      ELSE IF owned # {} THEN owned
      ELSE {i \in 1..Len(pkgs) : pkgs[i].name = rev.owner.name}

Matched(i) == {j \in 1..Len(revs) : i \in Parent(revs[j])}
Orphans == {j \in 1..Len(revs) : Parent(revs[j]) = {}}

Correlate ==
  /\ phase = "correlating"
  /\ notes' = notes \cup (IF Orphans = {} THEN {}
                          ELSE {Note("orphans", {revs[j].name : j \in Orphans})})
  /\ phase' = "rows"
  /\ UNCHANGED <<chosen, cancelled, pkgs, revs, listed, read, items, truncated, decorated, at>>

Statuses(cs) == {cs[c].status : c \in 1..Len(cs)}

\* All conditions count, not only the three that Classify reads.
ClassifyAll(cs) ==
  IF "False" \in Statuses(cs) THEN "Blocked"
  ELSE IF "Unknown" \in Statuses(cs) \/ "True" \notin Statuses(cs) THEN "Pending"
  ELSE "Ready"

PackageState(i) == ClassifyAll(pkgs[i].conds)
RevisionState(j) == ClassifyAll(revs[j].conds)

IsCurrent(i, j) == pkgs[i].current # "" /\ revs[j].name = pkgs[i].current

\* The order of the rows: the highest ordinal first, and stable.
Newer(j, k) == \/ revs[j].ordinal > revs[k].ordinal
               \/ revs[j].ordinal = revs[k].ordinal /\ j < k

IsActive(rev) == rev.desired = "Active"

Actives(i) == {j \in Matched(i) : IsActive(revs[j])}

IncludeRevisions_ByPackage(i) == Matched(i) # {} /\ PackageState(i) # "Ready"

\* Whether the revisions carry a signal.
IncludeRevisions(i) ==
  /\ Matched(i) # {}
  /\ \/ PackageState(i) # "Ready"
     \/ \E j \in Matched(i) : \/ RevisionState(j) # "Ready" \/ revs[j].halted
                              \/ IsCurrent(i, j) /\ ~IsActive(revs[j])
     \/ Cardinality(Actives(i)) # 1

Prio(i, j) == IF IsCurrent(i, j) THEN 0
              ELSE IF IsActive(revs[j]) THEN 1
              ELSE IF RevisionState(j) # "Ready" THEN 2
              ELSE 3

\* capRevisionRows: the first by priority, and among equals the newest.
Kept(i) ==
  LET before(k, j) == Prio(i, k) < Prio(i, j) \/ (Prio(i, k) = Prio(i, j) /\ Newer(k, j))
  IN  {j \in Matched(i) : Cardinality({k \in Matched(i) : before(k, j)}) < MaxRevisionRows}

\* skewSentences that need the revisions.  The active one that is compared with
\* the current one is the last that tallyRevisions meets: the oldest.
RevisionSkew(i) ==
  LET current == {j \in Matched(i) : IsCurrent(i, j)}
      active  == Actives(i)
      oldest  == CHOOSE j \in active : \A k \in active : j = k \/ Newer(k, j)
      unapproved == pkgs[i].manual /\ \E j \in current : revs[j].desired = "Inactive"
  IN  (IF unapproved THEN {"awaitingApproval"} ELSE {})
      \cup (IF unapproved /\ active = {} THEN {"notServing"} ELSE {})
      \cup (IF active # {} /\ \E j \in current \ {oldest} :
                 RevisionState(j) # "Ready" \/ ~IsActive(revs[j])
            THEN {"wedged"} ELSE {})
      \cup (IF Cardinality(active) > 1 THEN {"severalActive"} ELSE {})
      \cup (IF /\ pkgs[i].historyLimit > 0
               /\ Cardinality(Matched(i)) > pkgs[i].historyLimit + 1
            THEN {"garbage"} ELSE {})
      \cup (IF /\ ByType(pkgs[i].conds, "Healthy") = "True"
               /\ \E j \in current : RevisionState(j) # "Ready"
            THEN {"healthLags"} ELSE {})

BuildPackageRow(i) ==
  [pkg |-> i, state |-> PackageState(i), reasons |-> BlockingMessages(pkgs[i].conds),
   count |-> IF listed THEN <<Cardinality(Matched(i))>> ELSE <<>>,
   skew |-> (IF pkgs[i].rewritten THEN {"notUnpacked"} ELSE {})
            \cup (IF listed THEN RevisionSkew(i) ELSE {}),
   revisions |-> IF listed /\ IncludeRevisions(i) THEN Kept(i) ELSE {},
   cut |-> listed /\ IncludeRevisions(i) /\ Cardinality(Matched(i)) > MaxRevisionRows,
   events |-> {}]

Matches(i) == query.only = {} \/ pkgs[i].name \in query.only
Hidden(i) == query.unhealthyOnly /\ PackageState(i) = "Ready"

\* One turn of the loop.
ReadPackage ==
  /\ phase = "rows" /\ read < Len(pkgs)
  /\ read' = read + 1
  /\ items' = IF Matches(read + 1) /\ ~Hidden(read + 1)
              THEN Append(items, BuildPackageRow(read + 1)) ELSE items
  /\ UNCHANGED <<chosen, cancelled, phase, pkgs, revs, listed, truncated, decorated, at, notes>>

-----------------------------------------------------------------------------
(* BuildPackages: order and caps.                                          *)

FailingRow(r) == items[r].state # "Ready"

RowBefore(r, s) ==
  \/ StateRank(items[r].state) < StateRank(items[s].state)
  \/ items[r].state = items[s].state /\ items[r].pkg < items[s].pkg

RankedRows ==
  LET rows == 1..Len(items)
  IN  [p \in rows |-> items[CHOOSE r \in rows : Cardinality({s \in rows : RowBefore(s, r)}) = p - 1]]

Limit_Unclamped == IF query.limit = 0 THEN DefaultLimit ELSE query.limit

\* clampLimit.
Limit == IF query.limit = 0 THEN DefaultLimit
         ELSE IF query.limit > MaxLimit THEN MaxLimit ELSE query.limit

\* compactBeyondDetailed: the failing rows after the first of them keep who
\* they are and how they are, and lose their details.
Compact(row) == [row EXCEPT !.reasons = <<>>, !.skew = {}, !.revisions = {}, !.cut = FALSE]

RankAndCap_CompactFirst ==
  /\ phase = "rows" /\ read = Len(pkgs)
  /\ LET beyond == {r \in 1..Len(items) : items[r].state # "Ready" /\
                      Cardinality({s \in 1..r : items[s].state # "Ready"}) > MaxDetailedPackages}
         rows   == [r \in 1..Len(items) |-> IF r \in beyond THEN Compact(items[r]) ELSE items[r]]
         order  == RankedRows
     IN  /\ items' = SubSeq([p \in 1..Len(items) |->
                               CHOOSE row \in Range(rows) : row.pkg = order[p].pkg],
                            1, IF Len(items) > Limit THEN Limit ELSE Len(items))
         /\ truncated' = (Len(items) > Limit)
         /\ notes' = notes \cup (IF beyond = {} THEN {} ELSE {Note("compact", {Cardinality(beyond)})})
  /\ phase' = "events"
  /\ UNCHANGED <<chosen, cancelled, pkgs, revs, listed, read, decorated, at>>

\* The rows are sorted, cut, and then compacted.
RankAndCap ==
  /\ phase = "rows" /\ read = Len(pkgs)
  /\ LET kept   == IF Len(items) > Limit THEN SubSeq(RankedRows, 1, Limit) ELSE RankedRows
         beyond == {r \in 1..Len(kept) : kept[r].state # "Ready" /\
                      Cardinality({s \in 1..r : kept[s].state # "Ready"}) > MaxDetailedPackages}
     IN  /\ items' = [r \in 1..Len(kept) |-> IF r \in beyond THEN Compact(kept[r]) ELSE kept[r]]
         /\ truncated' = (Len(items) > Limit)
         /\ notes' = notes \cup (IF beyond = {} THEN {} ELSE {Note("compact", {Cardinality(beyond)})})
  /\ phase' = "events"
  /\ UNCHANGED <<chosen, cancelled, pkgs, revs, listed, read, decorated, at>>

-----------------------------------------------------------------------------
(* DecoratePackageEvents, one row per step.                                *)

NeedsEvents_PackageOnly(r) == IF FailingRow(r) THEN {0} ELSE {}

\* What is failing of a row, among what it shows: needsEvents when not empty.
NeedsEvents(r) ==
  (IF FailingRow(r) THEN {0} ELSE {})
  \cup {j \in items[r].revisions : RevisionState(j) # "Ready"}

\* The package's events are fetched first, then its revisions', newest first.
FetchedBefore(r, j) ==
  {k \in NeedsEvents(r) : k # j /\ (k = 0 \/ (j # 0 /\ Newer(k, j)))}

SkipRow ==
  /\ phase = "events" /\ at <= Len(items) /\ NeedsEvents(at) = {}
  /\ at' = at + 1
  /\ UNCHANGED <<chosen, cancelled, phase, pkgs, revs, listed, read, items, truncated,
                 decorated, notes>>

DecorateRow ==
  /\ phase = "events" /\ at <= Len(items) /\ NeedsEvents(at) # {}
  /\ decorated < MaxDetailedPackages
  /\ items' = [items EXCEPT ![at].events = NeedsEvents(at)]
  /\ decorated' = decorated + 1 /\ at' = at + 1
  /\ UNCHANGED <<chosen, cancelled, phase, pkgs, revs, listed, read, truncated, notes>>

\* The first fetch that fails ends it, with a note.
EventsFail ==
  /\ phase = "events" /\ at <= Len(items) /\ decorated < MaxDetailedPackages
  /\ \E j \in NeedsEvents(at) : items' = [items EXCEPT ![at].events = FetchedBefore(at, j)]
  /\ notes' = notes \cup {Note("eventsUnavailable", {})}
  /\ decorated' = decorated + 1 /\ phase' = "done"
  /\ UNCHANGED <<chosen, cancelled, pkgs, revs, listed, read, truncated, at>>

EventsCapped ==
  /\ phase = "events" /\ at <= Len(items) /\ NeedsEvents(at) # {}
  /\ decorated = MaxDetailedPackages
  /\ notes' = notes \cup {Note("eventsCapped", {})}
  /\ phase' = "done"
  /\ UNCHANGED <<chosen, cancelled, pkgs, revs, listed, read, items, truncated, decorated, at>>

AllDecorated ==
  /\ phase = "events" /\ at > Len(items)
  /\ phase' = "done"
  /\ UNCHANGED <<chosen, cancelled, pkgs, revs, listed, read, items, truncated, decorated,
                 at, notes>>

\* The client goes away, or the call times out.
Cancel ==
  /\ phase \in {"packages", "revisions"} /\ ~cancelled
  /\ cancelled' = TRUE
  /\ UNCHANGED <<chosen, phase, pkgs, revs, listed, read, items, truncated, decorated, at, notes>>

Next ==
  \/ ListPackages \/ ListRevisions \/ Correlate \/ ReadPackage \/ RankAndCap
  \/ SkipRow \/ DecorateRow \/ EventsFail \/ EventsCapped \/ AllDecorated
  \/ Cancel

Spec == Init /\ [][Next]_vars

-----------------------------------------------------------------------------
(* Properties.                                                             *)

Done == phase = "done"
Rows == 1..Len(items)

TypeOK ==
  /\ cluster \in Clusters /\ query \in Queries
  /\ discovered \subseteq {"packages", "revisions"}
  /\ cancelled \in BOOLEAN /\ listed \in BOOLEAN /\ truncated \in BOOLEAN
  /\ phase \in {"packages", "revisions", "correlating", "rows", "events", "done"}
  /\ pkgs \in Seq(Package) /\ revs \in Seq(Revision)
  /\ read \in 0..Len(pkgs) /\ at \in 1..(Len(items) + 1)
  /\ decorated \in 0..MaxDetailedPackages
  /\ items \in Seq(Row)
  /\ phase \in {"events", "done"} => Len(items) <= IF query.limit = 0 THEN DefaultLimit ELSE MaxLimit

\* The revisions of a package that the cluster holds and no note calls orphans.
Its(i) == {j \in 1..Len(cluster.revs) :
             /\ cluster.revs[j].of = pkgs[i].name
             /\ \A n \in notes : n.why = "orphans" => cluster.revs[j].name \notin n.about}

\* Missing data is never read as "no revisions": whatever a row says of its
\* revisions - how many, which, that none is active - is true of the cluster,
\* however far the two listings came; and when it says nothing of them, a note
\* tells why or discovery did not know the kind.
UnlistedIsNotNone ==
  phase \in {"rows", "events", "done"} =>
    \A r \in Rows :
      LET its == Its(items[r].pkg)
      IN  IF items[r].count # <<>>
          THEN /\ items[r].count[1] = Cardinality(its) /\ items[r].revisions \subseteq its
               /\ "notServing" \in items[r].skew => \A j \in its : ~IsActive(cluster.revs[j])
          ELSE /\ items[r].revisions = {} /\ items[r].skew \subseteq {"notUnpacked"}
               /\ \/ "revisions" \notin discovered
                  \/ \E n \in notes : n.why = "aborted" \/ n = Note("skipped", {"revisions"})

\* No failing package gets lost between the caps.  It has a row, unless the
\* list is full of rows that are as actionable and says that it was cut; and the
\* row explains itself, unless it comes after the first failing ones and a note
\* says how many rows are compact.
FailingPackageShown ==
  phase \in {"events", "done"} =>
    /\ \A i \in 1..Len(pkgs) :
         (Matches(i) /\ PackageState(i) # "Ready") =>
           \/ \E r \in Rows : items[r].pkg = i
           \/ /\ truncated /\ Len(items) = Limit
              /\ \A r \in Rows : StateRank(items[r].state) <= StateRank(PackageState(i))
    /\ \A r \in Rows :
         (FailingRow(r) /\ items[r].reasons # BlockingMessages(pkgs[items[r].pkg].conds)) =>
           /\ r > MaxDetailedPackages
           /\ Note("compact", {Cardinality({s \in Rows : FailingRow(s)}) - MaxDetailedPackages}) \in notes

\* A row that is not one of the compact ones.
Detailed(r) == ~FailingRow(r) \/ r <= MaxDetailedPackages

\* A revision that fails behind a package is shown even while the package still
\* says Ready, unless the row says it was cut and shows only revisions that are
\* current, active or failing themselves; and a row that shows revisions shows
\* the current one.  (This is of rows with details whose revisions were listed: a
\* Ready package has no row in an answer with unhealthyOnly, and a compact row
\* shows no revisions.)
FailingRevisionShown ==
  phase \in {"events", "done"} =>
    \A r \in Rows :
      LET i     == items[r].pkg
          shown == items[r].revisions
      IN  (items[r].count # <<>> /\ Detailed(r)) =>
            \A j \in Matched(i) :
              /\ (RevisionState(j) # "Ready" /\ j \notin shown) =>
                   /\ items[r].cut /\ Cardinality(shown) = MaxRevisionRows
                   /\ \A k \in shown : \/ IsCurrent(i, k) \/ IsActive(revs[k])
                                       \/ RevisionState(k) # "Ready"
              /\ (IsCurrent(i, j) /\ shown # {}) => j \in shown

\* Every failing thing that the answer shows comes with its events, or with a
\* note that a lookup failed, or with one that the first rows used them up; and
\* nothing that is Ready costs a lookup.
EventsOrReason ==
  Done =>
    \A r \in Rows :
      LET i == items[r].pkg
          failing == {j \in items[r].revisions : RevisionState(j) # "Ready"}
                     \cup (IF PackageState(i) # "Ready" THEN {0} ELSE {})
      IN  /\ items[r].events \subseteq failing
          /\ items[r].events # failing =>
               \/ Note("eventsUnavailable", {}) \in notes
               \/ /\ Note("eventsCapped", {}) \in notes
                  /\ Cardinality({s \in 1..(r - 1) : items[s].events # {}}) >= MaxDetailedPackages
=============================================================================
