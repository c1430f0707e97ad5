--------------------------------- MODULE Triage ---------------------------------
(***************************************************************************)
(* list_unhealthy after its listing: the loop of BuildUnhealthy of         *)
(* internal/xp/unhealthy.go over the objects ListAll returned, which       *)
(* ProjectTriageFields has trimmed, then the ranking and the cap.          *)
(***************************************************************************)
EXTENDS Classification, FiniteSets

CONSTANTS
  Kinds,          \* the kinds of the composite resources
  Objects,        \* what the API server holds, see Object
  Listings,       \* the sequences of Objects a listing may return
  Queries,        \* the queries an agent may make, see Query
  DefaultLimit,   \* defaultListLimit, 100 in the code
  MaxLimit        \* maxListLimit, 500 in the code

\* place stands for namespace, kind and name, which order the rows of one rank,
\* and bulk for all that triage does not read.
Object == [kind : Kinds, place : Nat, conds : Seq(Condition), deleting : BOOLEAN,
           paused : BOOLEAN, bulk : BOOLEAN]

\* kind is {} for no filter, and limit 0 for none given.
Query == [kind : {{}} \cup {{k} : k \in Kinds}, includeHealthy : BOOLEAN, limit : Nat]

ASSUME LimitsAssumption == DefaultLimit \in Nat \ {0} /\ MaxLimit \in Nat \ {0}
ASSUME ListingsAssumption ==
  Objects \subseteq Object /\ Listings \subseteq Seq(Objects) /\ Queries \subseteq Query

VARIABLES
  listed,      \* what ListAll returned, before the projection
  query,       \* the arguments of the call
  scanning,    \* the loop has not ended
  read,        \* how many objects the loop has read
  items,       \* the rows
  summary,     \* the tally, of all that matched
  scanned,     \* how many matched
  truncated    \* some rows were cut off

vars == <<listed, query, scanning, read, items, summary, scanned, truncated>>

Buckets == {"blocked", "pending", "ready", "terminating"}

\* object is the row's index in listed: the name it shows.
Row == [object : Nat \ {0}, state : {"Blocked", "Pending", "Ready"},
        deleting : BOOLEAN, paused : BOOLEAN]

Init ==
  /\ listed \in Listings /\ query \in Queries
  /\ scanning = TRUE /\ truncated = FALSE
  /\ read = 0 /\ scanned = 0
  /\ items = <<>>
  /\ summary = [b \in Buckets |-> 0]

-----------------------------------------------------------------------------

Project_NoDeletion(o) ==
  [kind |-> o.kind, place |-> o.place, conds |-> o.conds, deleting |-> FALSE,
   paused |-> o.paused]

\* ProjectTriageFields releases the bulk.
Project(o) ==
  [kind |-> o.kind, place |-> o.place, conds |-> o.conds, deleting |-> o.deleting,
   paused |-> o.paused]

Matches(o) == query.kind \subseteq {o.kind}

\* No kind of Crossplane's categories is native.
StateOf(o) == Classify(FALSE, o.conds)

\* Left out unless asked for; a deletion is never left out.
Hidden(o) == StateOf(o) \in {"Ready", "Unknown"} /\ ~o.deleting /\ ~query.includeHealthy

ByState(o) == CASE StateOf(o) = "Blocked" -> "blocked"
                [] StateOf(o) = "Pending" -> "pending"
                [] OTHER -> "ready"

Tally_Overlapping(o) ==
  [summary EXCEPT ![ByState(o)] = @ + 1, !["terminating"] = @ + (IF o.deleting THEN 1 ELSE 0)]

\* Deletion is looked at first: the counts are disjoint.
Bucket(o) == IF o.deleting THEN "terminating" ELSE ByState(o)

Tally(o) == [summary EXCEPT ![Bucket(o)] = @ + 1]

RowOf(i, o) ==
  [object |-> i, state |-> StateOf(o), deleting |-> o.deleting, paused |-> o.paused]

\* One turn of the loop.
Scan ==
  LET o == Project(listed[read + 1])
  IN  /\ scanning /\ read < Len(listed)
      /\ read' = read + 1
      /\ IF ~Matches(o) THEN UNCHANGED <<items, summary, scanned>>
         ELSE /\ scanned' = scanned + 1
              /\ summary' = Tally(o)
              /\ items' = IF Hidden(o) THEN items ELSE Append(items, RowOf(read + 1, o))
      /\ UNCHANGED <<listed, query, scanning, truncated>>

\* The order of two rows by their positions: a stable sort.
RowBefore(p, q) ==
  LET rank(r) == StateRank(items[r].state)
      place(r) == listed[items[r].object].place
  IN  \/ rank(p) < rank(q)
      \/ /\ rank(p) = rank(q)
         /\ place(p) < place(q) \/ (place(p) = place(q) /\ p < q)

RankedRows ==
  LET rows == 1..Len(items)
  IN  [p \in rows |->
         items[CHOOSE q \in rows : Cardinality({r \in rows : RowBefore(r, q)}) = p - 1]]

\* clampLimit.
Limit == IF query.limit = 0 THEN DefaultLimit
         ELSE IF query.limit > MaxLimit THEN MaxLimit ELSE query.limit

RankAndCap ==
  /\ scanning /\ read = Len(listed)
  /\ scanning' = FALSE
  /\ truncated' = (Len(items) > Limit)
  /\ items' = IF Len(items) > Limit THEN SubSeq(RankedRows, 1, Limit) ELSE RankedRows
  /\ UNCHANGED <<listed, query, read, summary, scanned>>

Next == Scan \/ RankAndCap

Spec == Init /\ [][Next]_vars

-----------------------------------------------------------------------------
(* Properties.                                                             *)

\* What diagnose sees of an object it is asked about.
NodeOf(o) == [error |-> FALSE, native |-> FALSE, rule |-> Declined, conds |-> o.conds,
              deleting |-> o.deleting]

\* The objects read so far that match and belong to a count.
InBucket(b) == {i \in 1..read : Matches(listed[i]) /\ Bucket(listed[i]) = b}

\* The four counts are disjoint and cover everything that was scanned, and
\* after the cap they still do: each says how many there really are.
CountsAddUp ==
  /\ scanned = summary["blocked"] + summary["pending"] + summary["ready"]
                 + summary["terminating"]
  /\ \A b \in Buckets : summary[b] = Cardinality(InBucket(b))

\* Triage and diagnose agree.  Whatever diagnose would call a suspect is a row,
\* unless the list says it was cut and is full of rows that are as actionable;
\* a row that was not asked for is a suspect; and every row shows the pause and
\* the deletion of its object.
NothingTriagedAway ==
  ~scanning =>
    /\ \A i \in 1..Len(listed) :
         (Matches(listed[i]) /\ IsSuspect(NodeOf(listed[i]))) =>
           \/ \E r \in 1..Len(items) : items[r].object = i
           \/ /\ truncated /\ Len(items) = Limit
              /\ \A r \in 1..Len(items) :
                   StateRank(items[r].state) <= StateRank(StateOf(listed[i]))
    /\ \A r \in 1..Len(items) :
         LET o == listed[items[r].object]
         IN  /\ query.includeHealthy \/ IsSuspect(NodeOf(o))
             /\ items[r].deleting = o.deleting /\ items[r].paused = o.paused
=============================================================================
