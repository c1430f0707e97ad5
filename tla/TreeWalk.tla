------------------------------ MODULE TreeWalk ------------------------------
(***************************************************************************)
(* The walk as it runs: childFetcher of internal/xp/tree.go.  The loop of  *)
(* build is that of Walk; the Gets are prefetched.  When the loop asks for *)
(* a child that no window has considered, a window fetches it together     *)
(* with the next siblings that look new, one goroutine each, joins them    *)
(* all and keeps what they returned in a cache on Get's full input.        *)
(***************************************************************************)
EXTENDS Walk

CONSTANT WalkConcurrency   \* walkConcurrency, 10 in the code

ASSUME ConcurrencyAssumption == WalkConcurrency \in Nat

VARIABLES
  fetchers,   \* fetchers[f]: the childFetcher of activation stack[f]
  workers     \* the goroutines of the open window, by the key they get

vars == <<cluster, nodes, stack, visited, capped, pending, cancelled,
          fetchers, workers>>

Sequential == INSTANCE SequentialWalk

NoObject == Failure("", "", <<"", "", "">>)

\* next: refs before it have been considered by some window; cache: what the
\* windows fetched.  rounds counts the fetcher's round-trips and is read by
\* properties only.
NewFetcher == [next |-> 1, cache |-> <<>>, rounds |-> 0]
Fetcher == fetchers[Len(stack)]

\* "spawned" before the goroutine looks at ctx, "getting" while its Get is on
\* its way, "skipped" when ctx was done first.
Worker == [status : {"spawned", "getting", "returned", "skipped"}, obj : Object]

FetchersOK ==
  /\ DOMAIN fetchers = 1..Len(stack)
  /\ \A f \in 1..Len(stack) :
       /\ DOMAIN fetchers[f] = {"next", "cache", "rounds"}
       /\ fetchers[f].next \in Nat \ {0}
       /\ fetchers[f].rounds \in Nat
       /\ DOMAIN fetchers[f].cache \subseteq Key
       /\ \A k \in DOMAIN fetchers[f].cache : fetchers[f].cache[k] \in Object

WorkersOK ==
  /\ DOMAIN workers \subseteq Key
  /\ \A k \in DOMAIN workers : workers[k] \in Worker

TypeInv == TypeOK /\ FetchersOK /\ WorkersOK

Joined == DOMAIN workers = {}

Init == /\ WalkInit
        /\ fetchers = <<NewFetcher>>
        /\ workers = <<>>

-----------------------------------------------------------------------------
(* Planning a window.  T[j] is what the window's own Resolve said of ref j.*)

\* The refs after the current one that the window wants: well formed, not
\* visited, not a repeat of one it already holds.
Survives(j, T) ==
  LET id(m) == IdentityKey(T[m], Refs[m], ParentNs)
  IN  /\ ~Malformed(Refs[j])
      /\ id(j) \notin visited
      /\ \A m \in (Top.i + 1)..(j - 1) : Malformed(Refs[m]) \/ id(m) # id(j)

SurvivorsBefore(j, T) == {m \in (Top.i + 1)..(j - 1) : Survives(m, T)}
FetchedBefore(j, T) == {m \in SurvivorsBefore(j, T) : T[m] # Unresolved}

WindowStops_OneMore(j, T) ==
  \/ j > Len(Refs)
  \/ Cardinality(FetchedBefore(j, T)) >= WalkConcurrency
  \/ Cardinality(SurvivorsBefore(j, T)) + 1 >= MaxNodes - Len(nodes)

WindowStops_BudgetOnly(j, T) ==
  \/ j > Len(Refs)
  \/ Cardinality(SurvivorsBefore(j, T)) + 1 >= MaxNodes - Len(nodes)

WindowStops_ByRef(j, T) ==
  \/ j > Len(Refs)
  \/ j - Top.i >= WalkConcurrency
  \/ Cardinality(SurvivorsBefore(j, T)) + 1 >= MaxNodes - Len(nodes)

\* The window's loop stops before ref j: refs, concurrency or budget is used
\* up.  The current ref counts in both; one that does not resolve is not
\* fetched but counts toward the budget, since it becomes an error node.
WindowStops(j, T) ==
  \/ j > Len(Refs)
  \/ Cardinality(FetchedBefore(j, T)) + 1 >= WalkConcurrency
  \/ Cardinality(SurvivorsBefore(j, T)) + 1 >= MaxNodes - Len(nodes)

\* The refs the window's loop runs over.
Considered(T) ==
  {j \in DOMAIN T : \A m \in (Top.i + 1)..j : ~WindowStops(m, T)}

WindowEnd(T) == Top.i + 1 + Cardinality(Considered(T))

WindowKeys(T) ==
  {pending} \cup
  {GetKey(T[m], Refs[m], ParentNs) :
     m \in {m \in Considered(T) : Survives(m, T) /\ T[m] # Unresolved}}

-----------------------------------------------------------------------------
(* childFetcher.get                                                        *)

CachedFor_Name(k) ==
  {Fetcher.cache[c] : c \in {c \in DOMAIN Fetcher.cache : c.name = k.name}}

\* The prefetched result for exactly these Get inputs, if there is one.
CachedFor(k) == {Fetcher.cache[c] : c \in {c \in DOMAIN Fetcher.cache : c = k}}

CacheHit(k) == CachedFor(k) # {}

FetchersWith_NotPushed(f) == [fetchers EXCEPT ![Len(stack)] = f]

\* fetchers follows stack: f is the fetcher of the activation that stepped,
\* an activation that build entered gets its own, one that returned loses it.
FetchersWith(f) ==
  [n \in 1..Len(stack') |-> IF n > Len(stack) THEN NewFetcher
                            ELSE IF n = Len(stack) THEN f ELSE fetchers[n]]

Loop ==
  /\ LoopStep
  /\ fetchers' = FetchersWith(Fetcher)
  /\ UNCHANGED workers

ServeCached ==
  /\ pending # NoKey /\ Joined
  /\ \E obj \in CachedFor(pending) : Attach(obj)
  /\ fetchers' = FetchersWith(Fetcher)
  /\ UNCHANGED workers

WindowDue ==
  /\ pending # NoKey /\ Joined /\ ~CacheHit(pending)
  /\ WalkConcurrency > 1 /\ Top.i >= Fetcher.next

\* A window with a single key leaves the Get to the caller.
OpenWindow ==
  /\ WindowDue
  /\ \E failed \in SUBSET {j \in (Top.i + 1)..Len(Refs) : Refs[j].kind \in cluster.flaky} :
       LET T    == [j \in (Top.i + 1)..Len(Refs) |->
                      IF j \in failed THEN Unresolved ELSE Resolved(cluster, Refs[j])]
           keys == WindowKeys(T)
           many == Cardinality(keys) >= 2
       IN  /\ fetchers' = [fetchers EXCEPT
                ![Len(stack)].next = WindowEnd(T),
                ![Len(stack)].rounds = IF many THEN @ + 1 ELSE @]
           /\ workers' = IF many
                         THEN [k \in keys |-> [status |-> "spawned", obj |-> NoObject]]
                         ELSE workers
  /\ UNCHANGED walkVars

\* No cached result and no window to open: one Get by the walk itself.
DirectGet ==
  /\ pending # NoKey /\ Joined /\ ~CacheHit(pending) /\ ~WindowDue
  /\ Fetched
  /\ fetchers' = FetchersWith([Fetcher EXCEPT !.rounds = @ + 1])
  /\ UNCHANGED workers

-----------------------------------------------------------------------------
(* The goroutines of a window.                                             *)

\* ctx was done before the goroutine began: it leaves no result.
WorkerSkip(k) ==
  /\ workers[k].status = "spawned" /\ cancelled
  /\ workers' = [workers EXCEPT ![k].status = "skipped"]
  /\ UNCHANGED <<walkVars, fetchers>>

WorkerStart(k) ==
  /\ workers[k].status = "spawned" /\ ~cancelled
  /\ workers' = [workers EXCEPT ![k].status = "getting"]
  /\ UNCHANGED <<walkVars, fetchers>>

WorkerReturn(k) ==
  /\ workers[k].status = "getting"
  /\ \E obj \in Outcomes(k) :
       workers' = [workers EXCEPT ![k] = [status |-> "returned", obj |-> obj]]
  /\ UNCHANGED <<walkVars, fetchers>>

WorkerStep == \E k \in DOMAIN workers : WorkerSkip(k) \/ WorkerStart(k) \/ WorkerReturn(k)

AllDone_SkipForgotten == \A k \in DOMAIN workers : workers[k].status = "returned"

\* Every goroutine called wg.Done.
AllDone == \A k \in DOMAIN workers : workers[k].status \in {"returned", "skipped"}

\* wg.Wait, and what the goroutines returned goes to the cache.
Join ==
  /\ ~Joined /\ AllDone
  /\ LET got == {k \in DOMAIN workers : workers[k].status = "returned"}
         old == Fetcher.cache
     IN  fetchers' = [fetchers EXCEPT ![Len(stack)].cache =
           [k \in got \cup DOMAIN old |-> IF k \in got THEN workers[k].obj ELSE old[k]]]
  /\ workers' = <<>>
  /\ UNCHANGED walkVars

-----------------------------------------------------------------------------
CancelCtx == Cancel /\ UNCHANGED <<fetchers, workers>>

WalkStep == Loop \/ ServeCached \/ OpenWindow \/ DirectGet \/ WorkerStep \/ Join

Next == WalkStep \/ CancelCtx

\* The walk's goroutine and the windows' goroutines run; every Get returns,
\* at the latest when the request times out.  Nothing makes ctx end.
Spec == Init /\ [][Next]_vars /\ WF_vars(WalkStep)

-----------------------------------------------------------------------------
(* Properties.                                                             *)

Stable == cluster.flaky = {} /\ ~cancelled

\* The walk builds, step by step, a tree that the sequential walk could have
\* built: windows change neither the nodes, nor their order, nor Stats, and
\* an object never stands for another.
RefinesSequential == Sequential!Safety

\* At most walkConcurrency Gets are on their way at once, and never for a key
\* whose answer the fetcher already holds.
BoundedFanOut ==
  /\ Cardinality(DOMAIN workers) <= WalkConcurrency
  /\ Stable => \A k \in DOMAIN workers : ~CacheHit(k)

\* What a window fetched and the loop has not come to, through this parent or
\* another, is less than walkConcurrency objects per ancestor.
BoundedWaste ==
  Stable =>
    \A f \in 1..Len(stack) :
      LET waste == {k \in DOMAIN fetchers[f].cache : KeyIdentity(k) \notin visited}
      IN  waste = {} \/ Cardinality(waste) < WalkConcurrency

\* Children of a node that can be fetched at all, counted once per identity.
Fetchable(n) ==
  LET refs == {n.obj.refs[j] : j \in 1..Len(n.obj.refs)}
      targets(r) == Resolutions(cluster, r) \ {Unresolved}
  IN  UNION {{KeyIdentity(GetKey(t, r, n.obj.id[2])) : t \in targets(r)} :
               r \in {r \in refs : ~Malformed(r)}}

\* A composite costs ceil(fetchable children / walkConcurrency) round-trips.
BoundedRounds ==
  (Stable /\ WalkConcurrency > 1) =>
    \A f \in 1..Len(stack) :
      fetchers[f].rounds * WalkConcurrency
        < Cardinality(Fetchable(nodes[stack[f].node])) + WalkConcurrency

\* Every walk ends: with no Get forgotten and nobody waiting.
Termination == <>[](Done /\ Joined)
=============================================================================
