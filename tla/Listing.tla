------------------------------- MODULE Listing -------------------------------
(***************************************************************************)
(* Client.ListAll of internal/k8s/list.go with withRetry of retry.go:      *)
(* every kind that discovery stamps with a wanted category is paged into   *)
(* one result, while requests fail for good or for a moment, the server    *)
(* says how long to wait, and the caller's context ends at any time.       *)
(* Nothing ever fails the whole call; what was not read is to be noted.    *)
(***************************************************************************)
EXTENDS Naturals, Sequences, SequencesExt, Selection

CONSTANTS
  Catalogs,       \* discovery's answers: sequences of served resources
  Wanted,         \* the requested categories, in order of precedence
  Pages,          \* Pages[resource]: the set of objects of each page
  Failures,       \* [reason, transient, suggests]: how a request may fail
  NoSuggestion,   \* suggests: the server does not say how long to wait
  RetryAttempts,  \* retryAttempts, 3 in the code
  BaseDelay,      \* retryBaseDelay and maxRetryDelay, in quarter seconds:
  MaxDelay        \* 1 and 8 in the code

ASSUME RetryAssumption ==
  /\ RetryAttempts \in Nat \ {0} /\ BaseDelay \in Nat /\ MaxDelay \in Nat
  /\ NoSuggestion \notin Nat
  /\ \A e \in Failures : e.transient \in BOOLEAN /\ e.suggests \in Nat \cup {NoSuggestion}

\* One entry of discovery's answers.
Served == [resource : DOMAIN Pages, version : STRING, namespaced : BOOLEAN,
           sub : BOOLEAN, categories : SUBSET STRING]

\* The API server answers with one page at least, and has each object on one
\* page of one resource.
ASSUME ServerAssumption ==
  /\ \A c \in Catalogs : c \in Seq(Served)
  /\ \A r \in DOMAIN Pages :
       /\ Pages[r] \in Seq(Range(Pages[r])) /\ Pages[r] # <<>>
       /\ \A p \in 1..Len(Pages[r]) : IsFiniteSet(Pages[r][p])
  /\ \A r, s \in DOMAIN Pages : \A p \in 1..Len(Pages[r]), q \in 1..Len(Pages[s]) :
       Pages[r][p] \cap Pages[s][q] # {} => r = s /\ p = q

\* What a request returns when the context ended first; never retried.
ContextError == [reason |-> "context done", transient |-> FALSE, suggests |-> NoSuggestion]

VARIABLES
  kinds,      \* the kinds to list, from discovery
  namespace,  \* a namespace filter is set
  at,         \* [kind, page]: the List at hand
  phase,      \* where the goroutine is
  attempt,    \* of withRetry, with its delay
  delay,
  wait,       \* what it waits for after a failure, and the failure
  err,
  objects,    \* ListResult.Objects and Notes
  notes,
  cancelled,  \* ctx.Err() # nil
  doomed,     \* and that was so before the request, or the wait, began
  tries,      \* requests for the page at hand, and the quarters of a second
  waited      \* spent waiting between them (read by properties)

vars == <<kinds, namespace, at, phase, attempt, delay, wait, err, objects,
          notes, cancelled, doomed, tries, waited>>
retryVars == <<attempt, delay, wait, err, doomed, tries, waited>>

-----------------------------------------------------------------------------
(* Discovery: DiscoverComposite on the groups and resources read.          *)

\* matchCategory: the first wanted category that the resource is stamped with.
Category(r) ==
  LET hits == {i \in 1..Len(Wanted) : Wanted[i] \in r.categories}
  IN  IF hits = {} THEN "" ELSE Wanted[Min(hits)]

DiscoverComposite_EveryVersion(catalog) ==
  SelectSeq(catalog, LAMBDA r : ~r.sub /\ Category(r) # "")

\* In order: no subresources, and of the served versions the first.  (Discovery
\* that finds nothing ends the tool before the listing; that of a part adds a note
\* that no property here reads.)
DiscoverComposite(catalog) ==
  LET listed(i) == ~catalog[i].sub /\ Category(catalog[i]) # ""
      first(i)  == \A j \in 1..(i - 1) : listed(j) => catalog[j].resource # catalog[i].resource
  IN  Selected(catalog, {i \in 1..Len(catalog) : listed(i) /\ first(i)})

-----------------------------------------------------------------------------
Kind == kinds[at.kind]
PagesOf(k) == Pages[k.resource]

Init ==
  /\ \E c \in Catalogs : kinds = DiscoverComposite(c)
  /\ namespace \in BOOLEAN
  /\ at = [kind |-> 1, page |-> 1]
  /\ phase = "kinds"
  /\ attempt = 1 /\ delay = BaseDelay /\ wait = 0 /\ err = ContextError
  /\ objects = <<>> /\ notes = <<>>
  /\ cancelled = FALSE /\ doomed = FALSE
  /\ tries = 0 /\ waited = 0

-----------------------------------------------------------------------------
(* The loop over the kinds.                                                *)

Note(why, k, e) == [why |-> why, resource |-> k, err |-> e, tries |-> tries]

\* withRetry begins, on the page at hand: its first request is issued.
BeginPage(p) ==
  /\ at' = p
  /\ phase' = "listing"
  /\ attempt' = 1 /\ delay' = BaseDelay /\ wait' = 0 /\ err' = ContextError
  /\ doomed' = cancelled
  /\ tries' = 1 /\ waited' = 0

AllListed ==
  /\ phase = "kinds" /\ at.kind > Len(kinds)
  /\ phase' = "returned"
  /\ UNCHANGED <<kinds, namespace, at, objects, notes, cancelled, retryVars>>

\* The context ended: no List is issued for the kinds that are left.
Abort ==
  /\ phase = "kinds" /\ at.kind <= Len(kinds) /\ cancelled
  /\ notes' = Append(notes, Note("aborted", "", ContextError))
  /\ phase' = "returned"
  /\ UNCHANGED <<kinds, namespace, at, objects, cancelled, retryVars>>

\* A namespace cannot scope a cluster-scoped kind.
SkipClusterScoped ==
  /\ phase = "kinds" /\ at.kind <= Len(kinds) /\ ~cancelled
  /\ ~Kind.namespaced /\ namespace
  /\ notes' = Append(notes, Note("cluster-scoped", Kind.resource, ContextError))
  /\ at' = [kind |-> at.kind + 1, page |-> 1]
  /\ UNCHANGED <<kinds, namespace, phase, objects, cancelled, retryVars>>

ListKind ==
  /\ phase = "kinds" /\ at.kind <= Len(kinds) /\ ~cancelled
  /\ Kind.namespaced \/ ~namespace
  /\ BeginPage([kind |-> at.kind, page |-> 1])
  /\ UNCHANGED <<kinds, namespace, objects, notes, cancelled>>

-----------------------------------------------------------------------------
(* One page: withRetry around one List.                                    *)

Skip_Unnoted(e) ==
  /\ IF cancelled
     THEN phase' = "returned" /\ UNCHANGED at
     ELSE phase' = "kinds" /\ at' = [kind |-> at.kind + 1, page |-> 1]
  /\ UNCHANGED <<kinds, namespace, objects, notes, cancelled, retryVars>>

\* The page is abandoned with the kind's remaining pages; what was read stays.
Skip(e) ==
  /\ notes' = Append(notes, Note("skipped", Kind.resource, e))
  /\ IF cancelled
     THEN phase' = "returned" /\ UNCHANGED at
     ELSE phase' = "kinds" /\ at' = [kind |-> at.kind + 1, page |-> 1]
  /\ UNCHANGED <<kinds, namespace, objects, cancelled, retryVars>>

PageRead ==
  /\ phase = "listing" /\ ~doomed
  /\ objects' = objects \o SetToSeq(PagesOf(Kind)[at.page])
  /\ IF at.page = Len(PagesOf(Kind))
     THEN /\ phase' = "kinds" /\ at' = [kind |-> at.kind + 1, page |-> 1]
          /\ UNCHANGED retryVars
     ELSE BeginPage([at EXCEPT !.page = @ + 1])
  /\ UNCHANGED <<kinds, namespace, notes, cancelled>>

\* How the request may fail now.
FailuresNow ==
  (IF doomed THEN {} ELSE Failures) \cup (IF cancelled THEN {ContextError} ELSE {})

Retried_OneFewer(e) == e.transient /\ attempt + 1 < RetryAttempts

\* transientAPIError, while there are attempts left.
Retried(e) == e.transient /\ attempt < RetryAttempts

WaitFor_Uncapped(e) == IF e.suggests # NoSuggestion THEN e.suggests ELSE delay

\* The server knows better than the backoff, up to the cap.
WaitFor(e) ==
  LET asked == IF e.suggests # NoSuggestion THEN e.suggests ELSE delay
  IN  IF asked < MaxDelay THEN asked ELSE MaxDelay

GiveUp ==
  /\ phase = "listing"
  /\ \E e \in FailuresNow : ~Retried(e) /\ Skip(e)

BackOff ==
  /\ phase = "listing"
  /\ \E e \in FailuresNow :
       /\ Retried(e)
       /\ err' = e /\ wait' = WaitFor(e)
  /\ phase' = "waiting"
  /\ doomed' = cancelled
  /\ UNCHANGED <<kinds, namespace, at, attempt, delay, objects, notes, cancelled,
                 tries, waited>>

TryAgain_CountsFromOne ==
  /\ phase = "waiting"
  /\ doomed => wait = 0
  /\ BeginPage(at)
  /\ UNCHANGED <<kinds, namespace, objects, notes, cancelled>>

\* The timer fires.  Against a context that is done already it wins only when
\* there was nothing to wait for: then select may choose either.
TryAgain ==
  /\ phase = "waiting"
  /\ doomed => wait = 0
  /\ phase' = "listing"
  /\ attempt' = attempt + 1 /\ delay' = delay * 2 /\ doomed' = cancelled
  /\ tries' = tries + 1 /\ waited' = waited + wait
  /\ UNCHANGED <<kinds, namespace, at, wait, err, objects, notes, cancelled>>

\* The context is done: what is returned is what the server said last.
StopWaiting ==
  /\ phase = "waiting" /\ cancelled
  /\ Skip(err)

Cancel ==
  /\ phase # "returned" /\ ~cancelled
  /\ cancelled' = TRUE
  /\ UNCHANGED <<kinds, namespace, at, phase, objects, notes, retryVars>>

ListStep ==
  \/ AllListed \/ Abort \/ SkipClusterScoped \/ ListKind
  \/ PageRead \/ GiveUp \/ BackOff \/ TryAgain \/ StopWaiting

Next == ListStep \/ Cancel

\* Requests are answered, or time out, and timers fire; nothing makes the
\* context end.
Spec == Init /\ [][Next]_vars /\ WF_vars(ListStep)

-----------------------------------------------------------------------------
(* Properties.                                                             *)

Returned == phase = "returned"

ObjectsOf(k) == UNION Range(PagesOf(k))
Listed(k) == ObjectsOf(k) \subseteq Range(objects)
Noted(k) == \E n \in 1..Len(notes) : notes[n].resource = k.resource
\* A note that lets the reader know that the context ended: "listing aborted",
\* or a kind skipped for the context's own error.
Aborted == \E n \in 1..Len(notes) :
             notes[n].why \in {"aborted", "skipped"} /\ notes[n].err = ContextError

\* Nothing is dropped silently: when the call returns and its context is still
\* alive, every kind was read to its last page or a note names it.
AccountedFor ==
  (Returned /\ ~cancelled) => \A i \in 1..Len(kinds) : Listed(kinds[i]) \/ Noted(kinds[i])

\* Also when the context ended: a note names what was skipped, or tells that
\* the listing stopped early.
AlwaysAccountedFor ==
  Returned => \A i \in 1..Len(kinds) : Listed(kinds[i]) \/ Noted(kinds[i]) \/ Aborted

\* No object is listed twice, neither by a request that was repeated nor
\* through two served versions of its type; and what was read of a kind is its
\* first pages, with none left out.
NoneTwice ==
  /\ \A i, j \in 1..Len(objects) : objects[i] = objects[j] => i = j
  /\ \A k \in 1..Len(kinds) : \A p \in 1..Len(PagesOf(kinds[k])) :
       (PagesOf(kinds[k])[p] \cap Range(objects)) # {} =>
         \A q \in 1..p : PagesOf(kinds[k])[q] \subseteq Range(objects)

\* A blip leaves no trace: a page is given up only for a failure that retrying
\* cannot cure, after all the attempts, or because the context ended.
SkippedForCause ==
  \A n \in 1..Len(notes) :
    notes[n].why = "skipped" =>
      ~notes[n].err.transient \/ notes[n].tries = RetryAttempts \/ cancelled

\* An outage surfaces promptly: a page costs at most retryAttempts requests
\* and the capped waits between them, whatever the server suggests.
PromptOutage ==
  /\ tries <= RetryAttempts
  /\ waited <= (RetryAttempts - 1) * MaxDelay

\* Every listing returns.
Termination == <>Returned
=============================================================================
