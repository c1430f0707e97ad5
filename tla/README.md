# A TLA+ model of crossplane-mcp

crossplane-mcp is a read-only MCP server in Go that explains why a Crossplane
composite resource is not ready. This directory holds TLA+ modules that model
its core, TLC configurations that check them on small instances, and proofs
that TLAPS checks for every instance.

    tlc -workers 2 -config MCTreeWalk.cfg MCTreeWalk.tla    # a run
    tlapm TreeWalkProofs.tla                                # the proofs of a module

`PROJECT.json` lists components, runs, mutants (a plausible bug for every
property, under which the run must fail), the source lines each definition
stands for, the hazards and the findings.

## 1. The system

| Part | Source | State | Operations |
|---|---|---|---|
| tree walk | `internal/xp/tree.go` | nodes, visited set, budget, one child cache per open node | `BuildTree`, `childFetcher.get`, `window` |
| retry | `internal/k8s/retry.go` | attempt and delay of one request | `withRetry` |
| resolution | `internal/k8s/client.go` | the shared discovery cache, the mapper's snapshot, `lastInvalidate` | `Resolve`, `scanForKind`, `invalidateDiscoveryOnce` |
| object and event reads | `client.go` | none | `Get`, `Events` |
| listing | `internal/k8s/list.go` | objects and notes of a call | `DiscoverComposite`, `ListAll`, `ProjectTriageFields` |
| classification | `internal/xp/conditions.go`, `native.go`, `lifecycle.go` | none | `Classify`, `ClassifyObject`, per-kind rules, labels |
| attribution | `internal/xp/attribute.go` | none | `leadFirst`, `qualifyingEvent`, `attribute`, `reasonsWithEvent`, `trimEvents` |
| diagnosis | `internal/xp/diagnose.go` | suspects and events of a call | `Diagnose`, `prefetchEvents`, `buildSuspect`, `rootCauseMessage` |
| triage | `internal/xp/unhealthy.go` | rows and tally of a call | `BuildUnhealthy` |
| packages | `internal/xp/packages.go`, `internal/tools/packages.go` | rows and notes of a call | `BuildPackages`, `DecoratePackageEvents` |
| OpenTofu errors | `internal/xp/tofu.go` | texts seen in a call | `decodeTFErrors`, `extractActionable` |
| recorder | `internal/tools/record.go` | the log writer, under a lock | `record`, `Close` |
| redaction | `internal/tools/redact.go` | none | `redactEmbeddedSecrets`, `redactLastApplied` |
| tool handlers | `internal/tools/tools.go` | none | one per MCP tool |
| startup | `cmd/crossplane-mcp`, options of `client.go` | none | flags, kubeconfig, transport |

How they interact. A tool handler resolves a kind, gets the root object and
walks its tree; for every child the walk calls `Resolve`, which reads the
discovery cache shared by all calls of the process, and `Get`, which retries.
`diagnose` hands the tree to `Diagnose`, which classifies nothing itself (each
node got its state from `ClassifyObject` during the walk), ranks the suspects
and reads the events of the first ten from `Client.Events`. `list_unhealthy`
and the package tools ask discovery for the kinds of Crossplane's categories,
list them with retries, trim what arrives, and classify it.

What is hard:

* Tool calls run concurrently and share the discovery cache and its rate limit.
* The walk fetches the children of a node at once, before it knows which of
  them it will still want; the answers must not change what it builds.
* Events of the suspects are fetched at once, and any lookup may fail.
* The recorder is shared by all calls, and is closed while some still run.
* The context of a call may end at any moment: before a request, during it, or
  while a retry waits.
* The API server throttles, fails for a moment, degrades for one group, and
  CRDs come and go during a session.
* Limits everywhere: nodes, depth, fan-out, suspects, events, rows, retries.
* The same fact is told by several paths (reasons and headline, diagnosis and
  triage, conditions and events), which must agree.

What makes each part correct:

* Walk: the tree is the sequential walk's; a resource is one node; the limits
  hold; *not capped* means that everything was inspected; requests and waste
  are bounded; it ends.
* Resolution: a served kind is not reported missing without cause, and
  re-discovery is bounded.
* Listing: nothing is dropped silently, nothing is listed twice, an outage
  surfaces promptly.
* Diagnosis: *healthy* is sound, the root cause is a deepest failure, reasons
  and headline agree and never hide a better explanation.
* Triage: the counts are honest, and it hides nothing that diagnosis would
  call a suspect.
* Packages: a listing that failed is never read as *no revisions*, and nothing
  that fails gets lost between the caps, neither a package, nor a revision behind
  a package that still says Ready, nor its events.
* OpenTofu errors: an error is shown once in a call, and its first line survives
  every limit.
* Redaction: exactly the places that are named are replaced, in a copy.
* Recorder: the file is what one atomic append per call would make of it, before
  the call is answered, whatever else runs, fails, closes or ends.

## 2. The modules

| Module | Models | Extends / instantiates |
|---|---|---|
| `Walk` | the depth-first loop of `build`: frames, limits, identity keys, error nodes; what a `Get` may answer | |
| `SequentialWalk` | the abstract walk: every child by one `Get`, when the loop comes to it | `Walk` |
| `TreeWalk` | the walk as it runs: caches, windows of goroutines, the join | `Walk`, instantiates `SequentialWalk` |
| `Discovery` | `Resolve` by several callers over one cache | |
| `Listing` | `DiscoverComposite`, `ListAll` and `withRetry` | |
| `Selection` | the loops that keep some elements of a slice: what is kept, and in which order | |
| `Classification` | verdicts, explanations, attribution: pure operators | `Selection` |
| `NativeReadiness` | the rules for native Kubernetes objects | `Classification` |
| `DecodedErrors` | the errors in payloads, and the lines that are shown of one | `Selection` |
| `Diagnosis` | the abstract `Diagnose`: events fetched in the loop | `Classification`, `DecodedErrors` |
| `Prefetch` | `Diagnose` as it runs: all events at once, then the loop | `Diagnosis` |
| `Triage` | `BuildUnhealthy` over projected objects | `Classification` |
| `Packages` | the package tools: two listings, rows, caps, events | `Classification` |
| `CallLog` | the abstract log: one append per call, before its answer | |
| `Recorder` | `recorded`, `record`, `Close`; the disk and the end of the process | instantiates `CallLog` |
| `Redaction` | the two redacting walks over documents, and what they should do by paths | |
| `RecordedCalls` | calls of `get_resource` through redaction and recorder | `Recorder`, `Redaction` |
| `Ranking` | lemmas about sorts and selections, for any finite set and strict order | `Selection` |
| `TreeWalkProofs` | theorems about the walk, sequential and parallel; the composition it builds; that it ends | `TreeWalk` |
| `DiscoveryProofs` | theorems about discovery | `Discovery` |
| `ListingProofs` | theorems about listing; that it ends | `Listing`, `Ranking` |
| `DiagnosisProofs` | theorems about diagnosis, its explanations and decoded errors | `Prefetch`, `NativeReadiness`, `Ranking` |
| `TriageProofs` | theorems about triage | `Triage`, `Ranking` |
| `PackagesProofs` | theorems about the package tools | `Packages`, `Ranking` |
| `RecorderProofs` | theorems about the recorder, its refinement among them; what the redacting walks do to every document | `RecordedCalls`, `Ranking` |
| `MC...` | small instances | |

**Walk.** `nodes` is the tree in the order nodes are made, `stack` the
activations of `build` with the index of the ref each one is at, `visited` the
identity keys, `pending` the `Get` that `fetchChild` waits for. One action per
branch of the loop: `Return`, `BudgetSpent`, `SkipMalformed`, `SkipVisited`,
`AttachUnresolved`, `Reach`, and `Attach` for the answer. `Resolve` may fail now
and then for the kinds in `cluster.flaky`. A cluster fixes what each `Get`
finds; once the context has ended a `Get` may answer with the context's error
instead. Names, versions and namespaces are strings that only equality tells
apart. A `Get` with its retries is one request.

**TreeWalk** adds a `childFetcher` per activation (`next`, `cache`, and `rounds`,
which only a property reads) and `workers`, the goroutines of the window that
is open. `get` is `ServeCached`, `OpenWindow` or `DirectGet`; a goroutine finds
the context ended (`WorkerSkip`) or starts and returns; `Join` is `wg.Wait` and
the filling of the cache. Within `window` every ref is resolved once more, and
may resolve differently from the loop.

**Discovery.** A call is at its REST mapping, its scan, its miss or its rescan;
each is one action, for `memCacheClient` locks itself per read. The cache is
external: a read fills it, or retries the groups that failed, or fails with the
server. Ambiguity is a possible answer, and one that never drops the cache. With
an apiVersion a call keeps the REST mapper's error and takes from the scan only
what it finds; `scanned` remembers, for the properties, what the scan met. That
the mapper looks whether the cache is fresh and takes its snapshot in one step is
an assumption: client-go checks `Fresh()` and resets separately, and the bound on
re-discovery rests on it.

**Listing.** `phase` tells whether the goroutine is between kinds, in a `List`
or waiting to retry one. Time is counted in quarters of a second, the unit of
`retryBaseDelay`. A note is the resource it names, why, and for which error.

**Classification, Diagnosis, Prefetch.** A condition has a type, a status and a
text that is absent, a transport flake or genuine; an event is a Warning or
not, reads like a composition error or not, and has a count and a time. A line
of text is what it comes from and is about; a text that speaks of no condition
and no event is one of `Words`. A node carries its verdict: in the run it is what
`NativeReadiness` gives the object, or none; a theorem that needs the rules says
so, the others hold for any verdict. A message or an event may carry payloads;
`Text` is what one decodes to and `LinesIn` the kinds of its lines;
`ExtractActionable` is the filter and the budget as the code has them. `Diagnosis` ranks, reports one suspect per step, shows the
decoded errors that no earlier suspect showed, and makes the summary; `Prefetch`
puts goroutines between the ranking and the loop. What TLC would compute again
in every state (`Shown`, `AllTrees` of `MCDiagnosis`) is a definition without
variables, which it evaluates once.

**Triage** reads one object per step, then ranks and caps. `Project` is what the
listing's projection leaves of an object; the properties compare the rows with
the objects as the server has them, and with `IsSuspect` of the diagnosis.

**Packages.** `phase` is where the handler is: the listing of the packages, that
of the revisions, their correlation, the loop over the packages (a row per step),
sorting and caps, the events (a row per step). Either listing may be undiscovered,
fail at any object with a note, or find the context ended: that is what `Listing`
shows of `ListAll`. A revision tells its package by label, by its owner's uid or
by its owner's name, as `parentIndex` reads them; the properties use the package
it really belongs to, which the code never sees. `RevisionsAssumption` is what
the code itself relies on (the comment of `parentIndex`): names are unique in a
kind, and the package manager puts no other package's name or uid on a revision;
either may be missing or outdated, so revisions without a parent occur.

**Recorder.** `pc` is where each call is between its start and its answer, `mu`
the holder of the lock, `w` the writer and `isOpen` the descriptor behind it, which
`Close` changes together. A write puts a piece of a record in the file and then
continues it; a disk that fails in between, or the end of the process, leaves the
piece. `Restart` is the end of the process at any point and a new one that opens
the same file to append. `CallLog` has no lock, no buffer and no halves: a call is
open, then its record is appended, lost or torn in one step, then it is answered.

**Redaction.** A document is a scalar, a map or a list, nested no deeper than
`MaxNesting`, as `encoding/json` has it. The walks are recursive functions on the
parts of a document, with one operator for what they do to a part; `WithheldExactly` and `MaskedExactly` say by paths, with
no recursion over cases, which places of a document must have been replaced and
that all others are as written. `RecordedCalls` runs them where the handler and
`recorded` do, so what one call withholds is checked while others write. A handler
returns the view of the object it reads, or an error; the record (`RecordOf`) has
the masked arguments in either case, and then the masked answer or the scrubbed text
of the error, never both.

## 3. The runs

| Run | Instance | Shows |
|---|---|---|
| `walk` | ten compositions, budget 6, depth 3, windows of 3, a cancellation anywhere | the ten properties of the walk, `RefinesSequential` and `Termination` among them |
| `discovery` | 2 callers, a CRD with a preferred and another version, outages of the server and of one version, interval of 1 tick | a miss has one of three excuses, re-discovery is bounded, a kind that stays served is in the end always found |
| `listing` | two pages, a cluster-scoped kind, two served versions, a subresource; permanent, transient, throttled failures; filter on and off | `AccountedFor`, `NoneTwice`, `SkippedForCause`, `PromptOutage`, `Termination` |
| `diagnosis` | every single object with up to 2 of 7 conditions, native objects under every rule, composites of 4 nodes of several kinds of health, errors of any five lines and errors that nodes mirror; at most 2 suspects, 2 shown events and 4 shown lines | the answer is sound, ranked, consistent; nothing is shown twice, no error loses its first line; fetching at once is fetching in the loop |
| `triage` | every listing of up to 4 of 6 objects, every query | counts and rows |
| `packages` | a package with up to 3 revisions, or three packages over the limit; either listing undiscovered, cut short or cancelled | `UnlistedIsNotNone`, `FailingPackageShown`, `FailingRevisionShown`, `EventsOrReason` |
| `recorder` | three calls at once, of which one fails and one cannot be encoded, or one call that reads a nested document or fails; a failing disk, `Close`, the end of the process | `RefinesLog`, `AnsweredIsLogged`, `ViewWithholds`, `LogMasks` |

The bounds are chosen for the case that matters, not for size. A budget of 6
with windows of 3 lets a window be cut by the budget, a second window open, and
an early sibling eat the budget of those fetched with it (`Greedy`); `Full` and
`Wide` meet the budget exactly and exceed it; `Chain` and `Deeper` do the same
for the depth. Two callers are what the discovery races need: one that scans and
one that drops. Three attempts are the code's own. More suspects than
`MaxSuspects` and more events than `DisplayEvents` occur, so that what the caps
leave out matters; 4 rows against limits of 1, 2 and 3 likewise. Two revision
rows and one detailed package, against three of each, cut where priority, ordinal
and limit disagree. Five lines against a budget of four, of which the first is
kept and two are the fallback, reach every case of the line filter. Two calls can
race for the lock; the third shows that one which never takes it disturbs none.

Five runs check one statement of the repository each and are expected to
violate it:

* `spare_namespace`: a cluster-scoped resource referred to with and without a
  namespace becomes two nodes, though the key is said to make dedup sound.
* `retried_afresh`: with two callers a miss may be reported from a stale scan
  because the rate limit refuses the retry that the comment promises.
* `degraded_group`: with an apiVersion the error of the scan is dropped for the
  REST mapper's (`client.go:234-238`), so a kind that is missing because its group
  could not be read is reported without naming the group. The same happens without
  an apiVersion when only the second scan met it.
* `unlisted_kinds`: a context that ends while a `List` waits to be retried leaves
  one note about that kind, and no word that the listing stopped.
* `unexplained_root`: a Pending root whose conditions are all True, none of them
  a health condition, is named and not explained.

`discovery` checks the strongest form that the code does satisfy:
`NoUnexcusedMiss` allows a miss of what was served only if the last scan met a
degraded server, whether or not the answer says so, or several kinds of that name
(with an apiVersion the mapper's not-found is reported instead), or if another
call dropped the cache in between, as in `retried_afresh`.

## 4. Fairness

Weak fairness of the program's own steps (`WalkStep`, `ListStep`, `CallerStep`,
`PrefetchNext`) stands for the Go scheduler running what can run, for every
request returning, at the latest at the request timeout that `Options` gives the
client, and for timers firing. Time passes in `Discovery` (`WF(Tick)`), since the
invalidation interval is measured on a clock. Nothing makes a context end, a CRD
appear, an outage begin or end, or a caller ask again. `Triage` is a loop over a list with no waiting, and so is `Packages`
but for the requests it makes in turn: they have no liveness property and assume
no fairness.

In `Recorder` a call's own steps are weakly fair: a handler ends because every
request of it has a timeout, and a write returns or fails. Its `Lock` is strongly
fair, since others may take the lock again and again: a Go mutex hands itself to
who has waited for a millisecond. Nothing makes a call start, the client hang up,
the recorder close, the disk fail or mend, or the process end. Deadlock is not checked where the system
stops: a walk, listing, diagnosis or triage that is done. In `Discovery` some
step is always possible, and its runs check it.

## 5. The proofs

Assumptions are only those on the constants, named where they are declared, which
TLC evaluates on every run: limits are positive, clusters are well-formed, trees
and listings are of the types their definitions say; every CRD has a version in
the preferred view (`ServerPreferredResources` shows one per resource); the API
server has each object on one page of one resource (`ServerAssumption`) and names
unique in a kind (`RevisionsAssumption`); of the tables of redaction, that the keys
which the walks look for by name do not end in `Wo` and that `name` and `key` are
not themselves called secret (`NamesAssumption`); and that a call's arguments, and
the object that its handler reads or the text of the error it meets, are documents,
and what it answers and writes of them is what the walks of `Redaction` make of them
(`HandlerAssumption`: the recorder by itself knows no documents). Two theorems have hypotheses of their own.
`TreeIsTheComposition` supposes a steady cluster, as said below.
`SuspectsExplained` supposes that the verdict on each node is that of the rule for
its kind (`RulesApplied`), as `ClassifyObject` makes it and the run has it; with
any other verdict a rule could find fault without saying which.

All safety properties of the passing runs are proved; liveness is at the end of
this section.

**The walk.** `WalkInv` is inductive for every step of `Walk`, whoever fetches:
types; `FramesInv` (every activation is of a node above the depth limit, its
index within that node's refs or just past them); `WithinLimits`;
`VisitedIsBuilt`; `UniqueNodes`; `PendingInv` (the child being fetched has no node
yet, and its ref was reached); `FollowedInv` (unless capped, every ref of a node
was followed, or its activation is on the stack and the refs before its index
were). `VisitedIsBuilt` is what `UniqueNodes` needs, since the code tests membership
in `visited`, never the tree; `FollowedInv` is what makes `Complete` inductive.
`CauseInv` is why a walk is capped: `CappedForCause` is about the order in which the
nodes were built, and rests on the nesting of the activations (`SpineInv`:
whatever was built after the node of an activation is below it, and its children
are of refs before its index) and on the child being fetched being that of the ref
at hand (`PendingIsRef`). A leaf at the depth limit, or a tree that ends at its
last node of the budget, has no such ref, so setting `Capped` there would violate
it. What it does not ask is whether the walk would have skipped the refs it was
kept from: that over-approximation is documented (`tree.go:59-62`). `FetchInv` adds the
fetchers: one per activation; a cache, and a goroutine that returned,
hold only answers that their own `Get` may give (`CacheExact`, `ResultsExact`);
a window is open only while a child is awaited. With it every step of
`TreeWalk` is a step of `Walk` or leaves its variables alone (`NextIsStep`).
`ParallelIsSequential` uses the same fact to show that serving from a cache is a
`Get` of the sequential walk: what was answered earlier could be answered now,
because a context never comes back to life.

**The composition.** `Complete` says that nothing was left out of what the walk
met, by the nodes it built. `TreeIsTheComposition` says what the tree is, from the
cluster alone: `Reachable` is the least set of identities that has the root and,
with each identity, those that the refs of its object name (`Children`,
`ObjectOf`). There is no loop, order, window or limit in that definition. One
half, that the walk builds nothing else, is inductive (`ReachedInv`: what was
visited is reachable, and a node has the refs of the object that its identity
stands for); the other half is that the nodes of a finished walk are closed under
`Children`, by `Complete`, and `Reachable` is the least such set. The hypotheses
are those without which the code does not do it. A walk that was capped says so. A
`Get` that the end of the context answered (`Interrupted`) leaves a node without
refs. And the cluster is to be `Steady`: a `Resolve` that fails now and then, a
kind that two versions scope differently, or a ref that does not resolve though its
kind is served under another version, makes it depend on which ref is met first
what an identity stands for, since the walk keeps the first answer for each.

**The walk ends.** `WalkIsFinite` gives each state a `Rank`, six numbers in
lexicographic order: the nodes that may still be made; whether a child is still to
be reached; the activations; the refs left to the one at work; whether it may open a
window before its next ref; and what is left to the goroutines of an open window.
Every step of the walk and of its goroutines lowers it, and the end of the context
leaves it as it is. The order has no endless descent (`NoEndlessDescent`), so a
cyclic composition cannot keep the walk going, and neither can a `Resolve` that
answers now this way and now that: the budget bounds the nodes, and between two
nodes a ref is left behind with each step. That some step can always be taken until
the walk is done, and is, rests on `ENABLED` and fairness; it is what `Termination`
adds, and TLC checks it.

**What the windows fetch** is bounded by `WindowsInv`. `HeldInv`: what a fetcher
holds, in its cache or in a goroutine, is the key of a ref that a window
considered, and an open window fetches the child that is awaited. `NewInv`, while
neither a flaky `Resolve` nor the end of the context disturbs it: an identity is
held once; a considered ref that the loop has not followed is held; and all that
an open window fetches is new but for the awaited child. So when the loop needs a
window of a fetcher, everything that fetcher holds was followed, the next window
is the only waste (`WasteBounded`), and it fetches nothing held already
(`FanOutBounded`). The walk may go down in between: the identities which an
ancestor holds in vain only become fewer, since `visited` only grows.
`RoundsInv`: every window so far was full, so that rounds times concurrency is no
more than what is held, which is as many fetchable children (`FullRounds`); or the
last one was short because the refs or the budget are used up by what was
considered, and then no other window of this fetcher can open (`Spent`) and it
costs one round more. `BoundedWaste` had to be restated: at a concurrency of 0,
which `buildTree` takes for *no prefetching* as it does 1, nothing is wasted,
yet nothing is *less than 0* either.

**Discovery.** `MissesExcused` needs what no answer shows. `CacheCovers`: a valid
snapshot has, or failed to read, all that was served before the last drop, which
`servedFor[c] > since` says on the model's clock. So a scan soon after a drop
cannot miss an old kind without meeting a failed list, and a call that did miss
one either may drop the cache itself or was overtaken (`MissedOK`). `RescanOK`:
whoever has dropped the cache sees only snapshots made later, so the second scan
needs an excuse of its own. A scan that fails otherwise and is answered by the
REST mapper's error was ambiguous or met a server that is down (`OtherError`). `RediscoveryBounded` holds because an invalid cache
and an interval that is over are worth one re-discovery each, and there are never
more than two of both and those already made (`BurstInv`).

**Listing.** `ListingInv`: the kinds are served resources, each once, of which
`DiscoverComposite` keeps the first version (`KindsOnce`); the page at hand is a
page of the kind at hand (`LoopInv`); the attempts and the waiting of this page
are within `withRetry`'s limits (`RetryInv`), each wait being capped whatever the
server suggests; and `ContentInv`: every kind before the one at hand was read to
its last page or has a note, of the one at hand the pages before the page at hand
were read, and of what the loop has not come to nothing was. Since an object is on
one page of one resource, it is listed once (`ListedOnce`), though a page is asked
for several times. `ListingIsFinite` is to the listing what `WalkIsFinite` is to the
walk: the kinds that are left, the pages of the one at hand, the attempts and whether
a request is out go down lexicographically with every step, however long an outage
lasts and whatever the server suggests.

**The diagnosis.** `PrefetchInLoop`: a goroutine's result is one that a lookup
for that very suspect may give (`OwnEvents`), and the loop runs only after the
join, so each of its steps is one of the in-loop diagnosis. `HealthySound`:
*healthy* is only set when the ranking is empty, the ranking is empty exactly
when there are no suspects (`RankingLength`), and a node that is no suspect is
fine (`NoSuspectIsFine`). The other theorems share `AnswerInv`: the ranking is
the one of `RankedSuspects`, and the report has its first entries, each with the
reasons, events and decoded errors that its object and a lookup of its own give
(`ReportInv`); the texts decoded so far are those that the suspects so far carry
(`OnceInv`); and the summary is of the first entry
(`SummaryInv`). `Ranking` turns the places that `RankedSuspects` computes
into a sort: no two elements share a place, none is left free. On top of it there
is a lemma for each explanation: `leadFirst` brings a genuine message to the
front, `trimEvents` keeps the qualifying event for any limit, `attribute` and the
headline choose alike, `extractActionable` and `applyBudget` keep the first error
line and the last one for any lines and budgets, a rule of `native.go` that finds
fault says which (`NativeExplains`).

**Triage.** `TallyIsRight`: reading an object adds it to the set of exactly one
bucket (`NextObject`), so each count is the size of its set and their sum is
`scanned`; ranking and capping touch neither. `TriageComplete`: while scanning
every wanted object that was read has its row (`RowsComplete`); the sort puts the
rows in the order of `RowBefore` (`RankedRowsSorted`), so that what the limit cuts
off is no more actionable than what stays (`RowsCapped`).

**Packages.** `IInv` of `PackagesProofs` has four parts. `ReadInv`: both listings
returned a beginning of what there is, and all of the revisions when they count as
listed; when not, discovery or a note tells why. `OrphansInv`: from the correlation
on, the orphans are exactly those a note names. So the revisions matched with a
package are its own (`MatchedAreIts`), which needs the package of each to be told
by a name that is unique. `RowsInv`: a row is sound, with its details or without;
in the loop every wanted package read has one with details; after the caps it has
one or the list is full of rows at least as actionable, and only rows after the
first `MaxDetailedPackages` are without, as many as a note says. The code sorts,
cuts and then compacts; had it compacted first, `RankAndCapStep` would not go
through, since the rows that the sort brings to the front could be bare.
`KeptFirst`: a revision that `capRevisionRows` leaves out comes after all that it
keeps, and it keeps as many as there is room for. `EventsInv`: the rows before the one at hand have the events
they need, the rest none, and the count of lookups is the number of rows that have
some.

**The recorder.** `IInv` of `RecorderProofs` is inductive: a call that is about
to write, or halfway through, is the one that holds the lock, and an open file is
behind the writer (`LockInv`); halfway through, the last entry of the file is its
piece (`HalfInv`), which is what lets `WriteEnds` complete it; any other piece is
one that a disk or the end of a process left (`PieceInv`); and a recorded call has
its line in the file, or a reason not to (`RecordedInv`). `AnswersAreLogged`
follows from the last. `RecorderIsLog` maps every initial state and every step
to `CallLog` or to a stutter: a call's record is appended there when its write
ends here, and a piece that a process leaves is appended when it ends. The
theorem is about `LogInit /\ [][LogNext]_logVars`; that what is open is settled
and answered, the fairness of `LogSpec`, is checked by TLC in `RefinesLog`.

**What is withheld.** `RedactsExactly` and `MasksExactly` are about the two walks on
any document: the result is the document with exactly the places replaced that the
definitions by paths name. They rest on what a document is. `DocumentPaths` and
`Unfold`: the paths of a document are the empty one and, behind each step, those of
the part there, and `At` follows them. That the recursive functions (`At`, the
paths by length, the two walks) exist and satisfy their equations is shown by the
prover's own means, without an induction theorem: the depths at which it fails
would have a least one (`UpToInduction`). The walk's result at a path is then found
by going down along it. For redaction the lemmas follow what the walk carries
(`ShownStep`, `CoveredStep`): whether it is below a provider's arguments, and what
the last three keys were, is all that decides about a place. For masking one step
is enough (`StepMasks`); a pair is headed by the name as it is *after* scrubbing,
because the code looks at what it has already masked. `ValuesInv` brings both to
the recorder: what a handler returned is the redaction of its object or its error,
what was encoded is the masking of the arguments and of that answer, or the
scrubbed text of that error (`TextMasks`: what the mask does to a document of one
string), and whatever line or piece the file has of a call is what that call
encoded.

| Theorem | Property |
|---|---|
| `WalkTypes`, `WalkLimits`, `WalkUnique`, `WalkComplete`, `WalkCapped` | the five invariants of the run `walk` of the same content |
| `FanOutBounded`, `WasteBounded`, `RoundsBounded` | `BoundedFanOut`, `BoundedWaste`, `BoundedRounds` |
| `WalkVisited` | `VisitedIsBuilt`, which no run checks by itself |
| `ParallelIsSequential` | `RefinesSequential` |
| `TreeIsTheComposition` | `TreeIsReachable`, which no run checks |
| `WalkIsFinite`, `ListingIsFinite` | the part of either `Termination` that is not fairness |
| `DiscoveryInvariant`, `MissesExcused`, `RediscoveryBounded` | the inductive invariant, `NoUnexcusedMiss`, `BoundedRediscovery` |
| `NothingDropped`, `ListedOnce`, `SkipsHaveCause`, `OutagesSurface` | `AccountedFor`, `NoneTwice`, `SkippedForCause`, `PromptOutage` |
| `PrefetchTyped`, `PrefetchInLoop`, `HealthySound` | `TypeInv`, `RefinesInLoop`, `HealthyIsSound` |
| `AnswerHolds`, `DeepestFirst`, `HeadlineMatches`, `FlakesLast`, `RecurringIsShown` | the inductive invariant, `DeepestFailureFirst`, `HeadlineMatchesReasons`, `FlakesNeverLead`, `RecurringShown` |
| `DecodesOnce`, `ErrorLinesShown`, `SuspectsExplained` | `DecodedOnce`, `ErrorLineShown`, `SuspectExplained` |
| `TallyIsRight`, `TriageComplete` | `CountsAddUp`, `NothingTriagedAway` |
| `PackagesTyped`, `UnlistedHonest`, `FailingPackagesShown`, `FailingRevisionsShown`, `EventsOrReasonHolds` | `TypeOK`, `UnlistedIsNotNone`, `FailingPackageShown`, `FailingRevisionShown`, `EventsOrReason` |
| `RecorderTypes`, `RecorderInvariant`, `AnswersAreLogged` | types, the inductive invariant, `AnsweredIsLogged` |
| `RecorderIsLog` | the safety part of `RefinesLog` |
| `ValuesInvariant`, `ViewsWithhold`, `LogsMask` | the inductive invariant, `ViewWithholds`, `LogMasks` |

Model-checked only: every liveness property (`Termination` of walk, listing and
diagnosis, `EventuallyVisible`, the fairness of `RefinesLog`), since liveness under
fairness and `ENABLED` are out of the prover's reach. No theorem says that the tables
of redaction are complete, or that what `IsDocument` excludes cannot come from the
API server; they are constants and an assumption.

## 6. What is not modelled

* Text: wording of notes and reasons, which substrings make a flake, which lines
  are noise, which keys and shapes are secret, base64 and gzip, the cut of a very
  long line. A model could only repeat the tables; what is done with their
  answers is modelled, and the tables are constants.
* Lifecycle labels (`lifecycle.go`): they compare an object's timestamps with the
  clock of this process, and no decision of the program reads them. `ageSince`
  shows a time in the future, and one it cannot parse, as an age of 0.
* Discovery for a listing (`DiscoverComposite`) as a request: that it fails (the
  tool ends with its error) or finds only a part (a note says so). The model's
  catalogs are what it returned.
* Startup, options, kubeconfig, transport, RBAC manifests, `expandPath` and the
  choice between stderr and a file: input and output.
* Continue tokens: whether a page repeats or omits an object that changed between
  two requests is the API server's promise, not this program's.
* The tree is not a snapshot of the cluster in the code. The model fixes each
  object for one walk, and lets a `Get` fail once the context has ended, a
  `Resolve` fail at any time, and an object be missing or forbidden.

## 7. The plan

Done: (1) `Walk`, `SequentialWalk`, `TreeWalk` and their proofs; (2) `Discovery`;
(3) `Listing`; (4) `Classification`, `Diagnosis`, `Prefetch`; (5) `Triage`;
(6) `Packages`; (7) `NativeReadiness` and `DecodedErrors` in the diagnosis;
(8) `CallLog`, `Recorder`, its refinement and proofs, `Redaction`;
(9) `DiscoveryProofs`.

(10) `ListingProofs`, `PackagesProofs`, and the proofs of the remaining safety of
walk, diagnosis and triage.

(11) `Redaction` by recursive functions, and the theorems about its walks and about
what answers and log show of them; `TreeIsTheComposition`; `WalkIsFinite` and
`ListingIsFinite`.

Next: `DiagnoseCall`, the walk followed by the diagnosis of the tree it built, so
that *healthy* speaks of every reachable object; provable from
`TreeIsTheComposition` and `HealthySound`.
