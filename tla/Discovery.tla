------------------------------ MODULE Discovery ------------------------------
(***************************************************************************)
(* Client.Resolve of internal/k8s/client.go: how concurrent callers turn a *)
(* kind into a resource type through one shared view of what the API       *)
(* server serves.  The view is cached and never expires; a kind that is    *)
(* not found makes a caller drop the cache and look again, at most once    *)
(* per invalidateInterval.  CRDs come and go and parts of the discovery    *)
(* API stop answering while calls are under way.                           *)
(*                                                                         *)
(* The cached discovery client and the deferred REST mapper are client-go  *)
(* code; they are modelled by what client.go states and assumes of them.   *)
(***************************************************************************)
EXTENDS Naturals, FiniteSets

CONSTANTS
  Callers,    \* goroutines that resolve kinds through one Client
  Resources,  \* [crd, gv, kind, names, preferred]: what a CRD makes served
  Queries,    \* [gv, kind]: the arguments of Resolve; gv = "" asks for any
  Outages,    \* what may not answer at a time: group/versions, "server"
  Interval    \* invalidateInterval, in ticks

ASSUME IntervalAssumption == Interval \in Nat \ {0}
ASSUME OutagesAssumption == {} \in Outages
ASSUME QueriesAssumption == Queries # {}

\* One of the versions that a CRD serves is in the preferred view, whichever
\* names it is asked by.
ASSUME PreferredAssumption ==
  \A r \in Resources : \E s \in Resources :
    s.crd = r.crd /\ s.preferred /\ s.kind = r.kind /\ s.names = r.names

VARIABLES
  served,    \* CRDs installed now
  servedFor, \* for how many ticks each has been, up to Interval
  down,      \* what does not answer now
  cache,     \* the cached snapshot of what is served
  mapper,    \* the REST mapper's own snapshot, taken from the cache once
  since,     \* ticks since lastInvalidate, up to Interval
  calls,     \* the calls of Resolve, by caller
  burst      \* full re-discoveries since the last tick (read by properties)

vars == <<served, servedFor, down, cache, mapper, since, calls, burst>>

CRDs == {r.crd : r \in Resources}
Versions == {r.gv : r \in Resources}

\* valid: cacheValid, what Fresh reports.  failed: group/versions whose list
\* could not be read; the next reader tries those again.
Cache == [valid : BOOLEAN, found : SUBSET Resources, failed : SUBSET Versions]
Empty == [valid |-> FALSE, found |-> {}, failed |-> {}]

\* "missing" is a genuine not-found; partial says that it carries the error of
\* a group that could not be read.
Answer == [status : {"none", "found", "ambiguous", "missing", "unavailable"},
           partial : BOOLEAN]
NoAnswer == [status |-> "none", partial |-> FALSE]

\* answer: the error that is kept, the REST mapper's or the first scan's.
\* scanned: what the last scan answered.  long: CRDs served for at least Interval
\* when the call began, and since.  overtaken: another caller dropped the cache
\* between this call's scan and its turn to do so.  The last three are read by
\* properties only.
Call == [pc : {"lookup", "scan", "missed", "rescan", "done"},
         query : Queries, answer : Answer, scanned : Answer,
         long : SUBSET CRDs, overtaken : BOOLEAN]

Idle == [pc |-> "done", query |-> CHOOSE q \in Queries : TRUE, answer |-> NoAnswer,
         scanned |-> NoAnswer, long |-> {}, overtaken |-> FALSE]

\* A server that starts, at an arbitrary moment of the cluster's life: nothing
\* cached, no invalidation yet.
Init ==
  /\ served \in SUBSET CRDs
  /\ servedFor = [c \in CRDs |-> IF c \in served THEN Interval ELSE 0]
  /\ down = {}
  /\ cache = Empty
  /\ mapper = Empty
  /\ since = Interval
  /\ calls = [p \in Callers |-> Idle]
  /\ burst = 0

-----------------------------------------------------------------------------
(* The cached discovery client.                                            *)

ServedNow == {r \in Resources : r.crd \in served}

\* The cache after a read: an invalid one is filled from the server, unless
\* the server does not answer; of a valid one only the failed lists are read.
Read(c) ==
  IF c.valid
  THEN [c EXCEPT !.failed = c.failed \cap down,
                 !.found  = c.found \cup {r \in ServedNow : r.gv \in c.failed \ down}]
  ELSE IF "server" \in down THEN c
  ELSE [valid  |-> TRUE,
        failed |-> {r.gv : r \in ServedNow} \cap down,
        found  |-> {r \in ServedNow : r.gv \notin down}]

\* Whether that read everything anew.
Rediscovered(c) == IF ~c.valid /\ Read(c).valid THEN 1 ELSE 0

-----------------------------------------------------------------------------
(* One pass over the discovery view: scanForKindAttempt.                   *)

View_PreferredOnly(q, found) ==
  {r \in found : r.preferred /\ (q.gv = "" \/ r.gv = q.gv)}

\* The preferred versions, or with a group/version every served one of it.
View(q, found) == {r \in found : IF q.gv = "" THEN r.preferred ELSE r.gv = q.gv}

\* An exact Kind wins outright; only without one do the other names count.
Matches(q, found) ==
  LET exact   == {r \in View(q, found) : r.kind = q.kind}
      lenient == {r \in View(q, found) : q.kind \in r.names}
  IN  IF exact # {} THEN exact ELSE lenient

Attempt(q, c) ==
  LET m == Matches(q, c.found)
  IN  [status  |-> IF ~c.valid THEN "unavailable"
                   ELSE IF m = {} THEN "missing"
                   ELSE IF Cardinality(m) = 1 THEN "found" ELSE "ambiguous",
       partial |-> m = {} /\ c.failed # {}]

-----------------------------------------------------------------------------
(* Client.Resolve.                                                         *)

\* With an apiVersion only what a scan finds counts: whatever it fails for, the
\* error is the REST mapper's.
Reported(call, a) ==
  IF call.query.gv = "" \/ a.status = "found" THEN a ELSE call.answer

\* scanForKind ends with a.  Only an answer "missing" is kept, for the properties.
Returned(call, a) ==
  LET b == Reported(call, a)
  IN  IF b.status = "missing" THEN [call EXCEPT !.pc = "done", !.answer = b] ELSE Idle

Resolve(p, q) ==
  /\ calls[p].pc = "done"
  /\ calls' = [calls EXCEPT ![p] =
       [pc        |-> IF q.gv = "" THEN "scan" ELSE "lookup",
        query     |-> q,
        answer    |-> NoAnswer,
        scanned   |-> NoAnswer,
        long      |-> {c \in served : servedFor[c] = Interval},
        overtaken |-> FALSE]]
  /\ UNCHANGED <<served, servedFor, down, cache, mapper, since, burst>>

\* Mapper.RESTMapping: exact, on a snapshot of its own.  The mapper takes it
\* on first use, and again only on a miss while the cache is not fresh; a list
\* that failed is one it does without.  That it looks whether the cache is fresh
\* and takes the snapshot in one step is an assumption about client-go.
RESTMapping(p) ==
  LET q        == calls[p].query
      hits(m)  == {r \in m.found : r.gv = q.gv /\ r.kind = q.kind}
      stays    == mapper.valid /\ (hits(mapper) # {} \/ cache.valid)
      m        == IF stays THEN mapper ELSE Read(cache)
  IN  /\ calls[p].pc = "lookup"
      /\ mapper' = IF m.valid THEN [m EXCEPT !.failed = {}] ELSE Empty
      /\ cache' = IF stays THEN cache ELSE m
      /\ burst' = burst + (IF stays THEN 0 ELSE Rediscovered(cache))
      /\ calls' = [calls EXCEPT ![p] =
           IF m.valid /\ hits(m) # {} THEN Idle
           ELSE [@ EXCEPT !.pc = "scan",
                          !.answer = [status  |-> IF m.valid THEN "missing" ELSE "unavailable",
                                      partial |-> FALSE]]]
      /\ UNCHANGED <<served, servedFor, down, since>>

ScanForKind(p) ==
  LET c    == Read(cache)
      a    == Attempt(calls[p].query, c)
      call == [calls[p] EXCEPT !.scanned = a]
  IN  /\ calls[p].pc = "scan"
      /\ cache' = c
      /\ burst' = burst + Rediscovered(cache)
      /\ calls' = [calls EXCEPT ![p] =
           IF a.status = "missing"
           THEN [call EXCEPT !.pc = "missed", !.answer = Reported(call, a)]
           ELSE Returned(call, a)]
      /\ UNCHANGED <<served, servedFor, down, mapper, since>>

\* Every other call that has scanned and not yet come here is overtaken.
DropCache(p) ==
  /\ cache' = Empty
  /\ calls' = [o \in Callers |->
       IF o = p THEN [calls[o] EXCEPT !.pc = "rescan"]
       ELSE IF calls[o].pc = "missed" THEN [calls[o] EXCEPT !.overtaken = TRUE]
       ELSE calls[o]]

InvalidateDiscoveryOnce_NotRecorded(p) ==
  /\ calls[p].pc = "missed"
  /\ DropCache(p)
  /\ UNCHANGED <<served, servedFor, down, mapper, since, burst>>

InvalidateDiscoveryOnce_NotDropped(p) ==
  /\ calls[p].pc = "missed"
  /\ since' = 0
  /\ calls' = [calls EXCEPT ![p].pc = "rescan"]
  /\ UNCHANGED <<served, servedFor, down, cache, mapper, burst>>

\* Under mu: drop the cache, or return the error kept when it was dropped less
\* than an interval ago.
InvalidateDiscoveryOnce(p) ==
  /\ calls[p].pc = "missed"
  /\ IF since < Interval
     THEN /\ calls' = [calls EXCEPT ![p] = Returned(calls[p], calls[p].answer)]
          /\ UNCHANGED <<cache, since>>
     ELSE DropCache(p) /\ since' = 0
  /\ UNCHANGED <<served, servedFor, down, mapper, burst>>

\* The second attempt; when it misses too, the first one's error is kept.
Rescan(p) ==
  LET c    == Read(cache)
      a    == Attempt(calls[p].query, c)
      call == [calls[p] EXCEPT !.scanned = a]
  IN  /\ calls[p].pc = "rescan"
      /\ cache' = c
      /\ burst' = burst + Rediscovered(cache)
      /\ calls' = [calls EXCEPT ![p] =
           Returned(call, IF a.status = "missing" THEN call.answer ELSE a)]
      /\ UNCHANGED <<served, servedFor, down, mapper, since>>

CallerStep(p) ==
  RESTMapping(p) \/ ScanForKind(p) \/ InvalidateDiscoveryOnce(p) \/ Rescan(p)

-----------------------------------------------------------------------------
(* The environment.                                                        *)

Tick ==
  /\ since' = IF since < Interval THEN since + 1 ELSE since
  /\ servedFor' = [c \in CRDs |->
       IF c \in served /\ servedFor[c] < Interval THEN servedFor[c] + 1 ELSE servedFor[c]]
  /\ burst' = 0
  /\ UNCHANGED <<served, down, cache, mapper, calls>>

Install(c) ==
  /\ c \notin served
  /\ served' = served \cup {c}
  /\ UNCHANGED <<servedFor, down, cache, mapper, since, calls, burst>>

Uninstall(c) ==
  /\ c \in served
  /\ served' = served \ {c}
  /\ servedFor' = [servedFor EXCEPT ![c] = 0]
  /\ calls' = [p \in Callers |-> [calls[p] EXCEPT !.long = @ \ {c}]]
  /\ UNCHANGED <<down, cache, mapper, since, burst>>

\* Something stops answering, or does again.
Outage(o) ==
  /\ down # o /\ (down = {} \/ o = {})
  /\ down' = o
  /\ UNCHANGED <<served, servedFor, cache, mapper, since, calls, burst>>

Environment ==
  \/ \E c \in CRDs : Install(c) \/ Uninstall(c)
  \/ \E o \in Outages : Outage(o)

Next ==
  \/ \E p \in Callers : CallerStep(p) \/ \E q \in Queries : Resolve(p, q)
  \/ Tick
  \/ Environment

\* Callers run, discovery requests return and time passes.  Nobody has to ask
\* again and nothing has to be installed.
Spec ==
  /\ Init /\ [][Next]_vars
  /\ \A p \in Callers : WF_vars(CallerStep(p))
  /\ WF_vars(Tick)

-----------------------------------------------------------------------------
(* Properties.                                                             *)

\* r is a resource that query q asks for, whichever way it is looked up.
Asked(q, r) ==
  (q.gv = "" \/ r.gv = q.gv) /\ (q.kind = r.kind \/ q.kind \in r.names)

Missed(call) == call.pc = "done" /\ call.answer.status = "missing"

\* What a call that reported its kind missing should have found: served for
\* an interval before the call began, and all through it.
Overlooked(call) ==
  Missed(call) /\ \E r \in Resources : r.crd \in call.long /\ Asked(call.query, r)

\* Its last scan could not read some group, or could read none of them.
Degraded(call) == call.scanned.partial \/ call.scanned.status = "unavailable"

\* Its last scan met several kinds of that name, or a degraded server.
Excused(call) == Degraded(call) \/ call.scanned.status = "ambiguous"

\* A kind that has been served for invalidateInterval is not reported missing,
\* unless the last scan met a degraded server or an ambiguity, or another call
\* dropped the cache in between.
NoUnexcusedMiss ==
  \A p \in Callers : Overlooked(calls[p]) => Excused(calls[p]) \/ calls[p].overtaken

\* A miss is retried against a cache dropped after it, when that is needed.
RetriedAfresh == \A p \in Callers : Overlooked(calls[p]) => Excused(calls[p])

\* A miss caused by a group that could not be read says so.
DegradedGroupNamed ==
  \A p \in Callers :
    Overlooked(calls[p]) /\ calls[p].scanned.partial => calls[p].answer.partial

\* However many calls miss at once, the cluster is not re-discovered for each:
\* the first fill of the cache and one more.
BoundedRediscovery == burst <= 2

\* A call ends with the answer that q is missing.
ReportsMissing(q) ==
  \E p \in Callers :
    calls'[p].query = q /\ ~Missed(calls[p]) /\ Missed(calls'[p])

Clean(q) ==
  down = {} /\ \E r \in Resources : r.crd \in served /\ Asked(q, r)

\* A kind that stays served is, from some time on, never reported missing.
EventuallyVisible ==
  \A q \in Queries : <>[]Clean(q) => <>[][~ReportsMissing(q)]_vars
=============================================================================
