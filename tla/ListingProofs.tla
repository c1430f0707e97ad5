----------------------------- MODULE ListingProofs -----------------------------
(***************************************************************************)
(* Theorems about Listing: for every answer of discovery, any pages and    *)
(* any failures, nothing is dropped silently, nothing is listed twice, a   *)
(* page is given up only for cause, an outage costs a bounded wait, and    *)
(* the call takes finitely many steps.                                     *)
(***************************************************************************)
EXTENDS Listing, Ranking, SequenceTheorems, WellFoundedInduction

-----------------------------------------------------------------------------
(* Discovery.                                                              *)

\* The kinds are served resources, each of them once.
KindsInv ==
  /\ kinds \in Seq(Served)
  /\ \A i, j \in 1..Len(kinds) : kinds[i].resource = kinds[j].resource => i = j

\* Of the served versions one is listed.
LEMMA KindsOnce ==
  ASSUME NEW c \in Catalogs
  PROVE  LET found == DiscoverComposite(c)
         IN  /\ found \in Seq(Served)
             /\ \A i, j \in 1..Len(found) : found[i].resource = found[j].resource => i = j
<1> DEFINE listed(i) == ~c[i].sub /\ Category(c[i]) # ""
           first(i) == \A j \in 1..(i - 1) : listed(j) => c[j].resource # c[i].resource
           P == {i \in 1..Len(c) : listed(i) /\ first(i)}
           found == Selected(c, P)
<1>1. DiscoverComposite(c) = found
  BY Zenon DEF DiscoverComposite
<1> HIDE DEF listed
<1>2. c \in Seq(Served) /\ Len(c) \in Nat
  BY ServerAssumption
<1>3. P \in SUBSET (1..Len(c)) /\ P \in SUBSET Nat
  OBVIOUS
<1>4. \A i, j \in P : i < j => c[i].resource # c[j].resource
  <2> SUFFICES ASSUME NEW i \in P, NEW j \in P, i < j PROVE c[i].resource # c[j].resource
    OBVIOUS
  <2>1. i \in 1..(j - 1) /\ listed(i) /\ first(j)
    BY <1>3
  <2> QED BY <2>1
<1> HIDE DEF P
<1>5. IsFiniteSet(P)
  <2>1. IsFiniteSet(1..Len(c))
    BY <1>2, FS_Interval
  <2> QED BY <1>3, <2>1, FS_Subset
<1>6. /\ found \in Seq(Served)
      /\ \A n \in 1..Len(found) : InOrder(P)[n] \in P /\ found[n] = c[InOrder(P)[n]]
  BY <1>2, <1>3, SelectedKeeps
<1>7. Len(found) = Cardinality(P) /\ \A m, n \in 1..Cardinality(P) : m < n => InOrder(P)[m] < InOrder(P)[n]
  <2>1. Cardinality(P) \in Nat
    BY <1>3, <1>5, InOrderSorts
  <2>2. found = [n \in 1..Cardinality(P) |-> c[InOrder(P)[n]]]
    BY DEF Selected
  <2>3. Len(found) = Cardinality(P)
    BY <1>6, <2>1, <2>2
  <2> QED BY <1>3, <1>5, <2>3, InOrderSorts
<1> HIDE DEF found
<1>8. ASSUME NEW i \in 1..Len(found), NEW j \in 1..Len(found), found[i].resource = found[j].resource
      PROVE  i = j
  <2>1. ~(i < j) /\ ~(j < i)
    BY <1>4, <1>6, <1>7, <1>8
  <2> QED BY <2>1, <1>6
<1> QED BY <1>1, <1>6, <1>8

\* The elements of a finite set as a sequence: all of them, each of them once.
LEMMA SequenceOfSet ==
  ASSUME NEW S, IsFiniteSet(S)
  PROVE  /\ SetToSeq(S) \in Seq(S) /\ Range(SetToSeq(S)) = S
         /\ \A i, j \in 1..Len(SetToSeq(S)) : SetToSeq(S)[i] = SetToSeq(S)[j] => i = j
<1> DEFINE n == Cardinality(S)
           T == 1..n
<1>1. n \in Nat /\ ExistsBijection(T, S)
  BY FS_CardinalityType
<1>2. IsFiniteSet(T) /\ Cardinality(T) = n
  BY <1>1, FS_Interval
<1>3. \E f \in [T -> S] : IsInjective(f)
  BY <1>1 DEF ExistsBijection, Bijection, Injection
<1> DEFINE s == CHOOSE f \in [T -> S] : IsInjective(f)
<1>4. SetToSeq(S) = s
  BY DEF SetToSeq
<1>5. s \in [T -> S] /\ IsInjective(s)
  BY <1>3
<1> HIDE DEF s
<1>6. s \in Injection(T, S)
  BY <1>5 DEF Injection, IsInjective
<1> HIDE DEF T, n
<1>7. s \in Surjection(T, S)
  BY <1>2, <1>6, FS_Injection DEF n
<1>8. Range(s) = S
  BY <1>5, <1>7 DEF Surjection, Range
<1> USE DEF T
<1>9. s \in Seq(S) /\ Len(s) = n
  BY <1>1, <1>5
<1> QED BY <1>4, <1>5, <1>8, <1>9 DEF IsInjective


-----------------------------------------------------------------------------
(* The loop and withRetry, without what is read.                           *)

AtPage == phase \in {"listing", "waiting"}

\* The page at hand, when there is one.
LoopInv ==
  /\ KindsInv
  /\ phase \in {"kinds", "listing", "waiting", "returned"}
  /\ at \in [kind : Nat \ {0}, page : Nat \ {0}] /\ cancelled \in BOOLEAN
  /\ phase = "kinds" => at.page = 1
  /\ AtPage => at.kind \in 1..Len(kinds) /\ at.page \in 1..Len(PagesOf(Kind))
  /\ Returned => cancelled \/ at.kind > Len(kinds)
  /\ Len(notes) \in Nat

\* What the retries cost so far, and what is waited for.
RetryInv ==
  /\ tries \in 0..RetryAttempts /\ delay \in Nat /\ wait \in 0..MaxDelay
  /\ waited \in Nat /\ waited <= (RetryAttempts - 1) * MaxDelay
  /\ AtPage => attempt = tries /\ tries >= 1 /\ waited <= (tries - 1) * MaxDelay
  /\ phase = "waiting" => attempt < RetryAttempts

\* A note comes after those that were there.
LEMMA NoteAdded ==
  ASSUME NEW s, Len(s) \in Nat, NEW x
  PROVE  /\ Len(Append(s, x)) = Len(s) + 1 /\ Append(s, x)[Len(s) + 1] = x
         /\ \A n \in 1..Len(s) : Append(s, x)[n] = s[n]
OBVIOUS

\* A kind has pages.
LEMMA PagesAreFinite ==
  ASSUME NEW k \in Served
  PROVE  /\ Len(PagesOf(k)) \in Nat \ {0} /\ DOMAIN PagesOf(k) = 1..Len(PagesOf(k))
         /\ \A p \in 1..Len(PagesOf(k)) : IsFiniteSet(PagesOf(k)[p])
<1> DEFINE pages == Pages[k.resource]
<1>1. k.resource \in DOMAIN Pages
  BY DEF Served
<1>2. /\ pages \in Seq(Range(pages)) /\ pages # <<>>
      /\ \A p \in 1..Len(pages) : IsFiniteSet(pages[p])
  BY <1>1, ServerAssumption
<1> DEFINE R == Range(pages)
<1>3. pages \in Seq(R)
  BY <1>2
<1> HIDE DEF pages, R
<1>4. Len(pages) \in Nat \ {0} /\ DOMAIN pages = 1..Len(pages)
  BY <1>2, <1>3
<1> QED BY <1>2, <1>4 DEF PagesOf, pages

\* Another page, or the next kind.
LEMMA PageType ==
  ASSUME LoopInv, at.kind \in 1..Len(kinds)
  PROVE  /\ Kind \in Served /\ Len(PagesOf(Kind)) \in Nat \ {0}
         /\ IsFiniteSet(PagesOf(Kind)[at.page]) \/ at.page \notin 1..Len(PagesOf(Kind))
<1>1. Kind \in Served
  BY DEF LoopInv, KindsInv, Kind
<1> QED BY <1>1, PagesAreFinite

\* The loop goes through the kinds and their pages.
LEMMA LoopStep == LoopInv /\ [Next]_vars => LoopInv'
<1> SUFFICES ASSUME LoopInv, [Next]_vars PROVE LoopInv'
  OBVIOUS
<1> DEFINE onward == [kind |-> at.kind + 1, page |-> 1]
<1>1. CASE AllListed
  BY <1>1 DEF AllListed, LoopInv, KindsInv, AtPage, Returned, retryVars
<1>2. CASE Abort
  <2>1. /\ kinds' = kinds /\ phase' = "returned" /\ at' = at /\ cancelled /\ cancelled' = cancelled
        /\ \E x : notes' = Append(notes, x)
    BY <1>2, Zenon DEF Abort
  <2>2. Len(notes') \in Nat
    BY <2>1, NoteAdded DEF LoopInv
  <2>3. /\ kinds' = kinds /\ phase' = "returned" /\ at' = at /\ cancelled /\ cancelled' = cancelled
    BY <2>1
  <2> QED BY <2>2, <2>3 DEF LoopInv, KindsInv, AtPage, Returned
<1>3. CASE SkipClusterScoped
  <2>1. /\ kinds' = kinds /\ phase' = "kinds" /\ at' = onward /\ cancelled' = cancelled
        /\ notes' = Append(notes, Note("cluster-scoped", Kind.resource, ContextError))
    BY <1>3 DEF SkipClusterScoped
  <2> QED BY <2>1 DEF LoopInv, KindsInv, AtPage, Returned
<1>4. CASE ListKind
  <2>1. /\ kinds' = kinds /\ phase' = "listing" /\ at' = [kind |-> at.kind, page |-> 1]
        /\ cancelled' = cancelled /\ notes' = notes /\ at.kind \in 1..Len(kinds)
    BY <1>4 DEF ListKind, BeginPage, LoopInv, KindsInv
  <2>2. Kind' = Kind /\ PagesOf(Kind)' = PagesOf(Kind) /\ Len(PagesOf(Kind)) \in Nat \ {0}
    BY <2>1, PageType DEF Kind, PagesOf
  <2> QED BY <2>1, <2>2 DEF LoopInv, KindsInv, AtPage, Returned
<1>5. CASE PageRead
  <2>1. /\ kinds' = kinds /\ cancelled' = cancelled /\ notes' = notes /\ phase = "listing"
        /\ IF at.page = Len(PagesOf(Kind))
           THEN phase' = "kinds" /\ at' = onward
           ELSE phase' = "listing" /\ at' = [at EXCEPT !.page = @ + 1]
    BY <1>5 DEF PageRead, BeginPage
  <2>2. at.kind \in 1..Len(kinds) /\ at.page \in 1..Len(PagesOf(Kind)) /\ Len(PagesOf(Kind)) \in Nat
    BY <2>1, PageType DEF LoopInv, AtPage
  <2>3. CASE at.page = Len(PagesOf(Kind))
    <3>1. phase' = "kinds" /\ at' = onward
      BY <2>1, <2>3
    <3> QED BY <2>1, <3>1 DEF LoopInv, KindsInv, AtPage, Returned
  <2>4. CASE at.page # Len(PagesOf(Kind))
    <3>1. phase' = "listing" /\ at' = [at EXCEPT !.page = @ + 1]
      BY <2>1, <2>4
    <3>2. at' = [kind |-> at.kind, page |-> at.page + 1]
      BY <3>1 DEF LoopInv
    <3> QED BY <2>1, <2>2, <2>4, <3>1, <3>2 DEF LoopInv, KindsInv, AtPage, Returned, Kind
  <2> QED BY <2>3, <2>4
<1>6. ASSUME NEW e, Skip(e), AtPage PROVE LoopInv'
  <2>1. /\ kinds' = kinds /\ cancelled' = cancelled
        /\ notes' = Append(notes, Note("skipped", Kind.resource, e))
        /\ IF cancelled THEN phase' = "returned" /\ at' = at
           ELSE phase' = "kinds" /\ at' = onward
    BY <1>6 DEF Skip
  <2>2. Len(notes') \in Nat
    BY <2>1 DEF LoopInv
  <2> QED BY <2>1, <2>2 DEF LoopInv, KindsInv, AtPage, Returned
<1>7. CASE GiveUp \/ StopWaiting
  BY <1>6, <1>7 DEF GiveUp, StopWaiting, AtPage
<1>8. CASE BackOff \/ TryAgain \/ UNCHANGED vars
  <2>1. /\ UNCHANGED <<kinds, at, notes, cancelled>>
        /\ phase' = phase \/ (phase \in {"listing", "waiting"} /\ phase' \in {"listing", "waiting"})
    BY <1>8 DEF BackOff, TryAgain, vars
  <2>2. PagesOf(Kind)' = PagesOf(Kind)
    BY <2>1 DEF Kind, PagesOf
  <2> QED BY <2>1, <2>2 DEF LoopInv, KindsInv, AtPage, Returned
<1>9. CASE Cancel
  <2>1. UNCHANGED <<kinds, at, phase, notes>> /\ cancelled' = TRUE
    BY <1>9 DEF Cancel
  <2>2. PagesOf(Kind)' = PagesOf(Kind)
    BY <2>1 DEF Kind, PagesOf
  <2> QED BY <2>1, <2>2 DEF LoopInv, KindsInv, AtPage, Returned
<1> QED BY <1>1, <1>2, <1>3, <1>4, <1>5, <1>7, <1>8, <1>9 DEF Next, ListStep


\* The context's own error is final and says nothing about waiting.
LEMMA ContextErrorFinal ==
  ContextError.transient = FALSE /\ ContextError.suggests = NoSuggestion
BY Zenon DEF ContextError

\* The retries of a page are counted, and each wait is capped.
LEMMA WaitCapped ==
  ASSUME NEW e \in Failures \cup {ContextError}, delay \in Nat
  PROVE  WaitFor(e) \in 0..MaxDelay
<1>1. e.suggests \in Nat \/ e.suggests = NoSuggestion
  BY RetryAssumption, ContextErrorFinal
<1> QED BY <1>1, RetryAssumption DEF WaitFor

\* Withdrawing costs nothing, another attempt one request and one wait.
LEMMA RetryStep == LoopInv /\ RetryInv /\ [Next]_vars => RetryInv'
<1> SUFFICES ASSUME LoopInv, RetryInv, [Next]_vars PROVE RetryInv'
  OBVIOUS
<1> USE RetryAssumption
<1> DEFINE most == (RetryAttempts - 1) * MaxDelay
<1>1. RetryAttempts \in Nat \ {0} /\ MaxDelay \in Nat /\ most \in Nat /\ BaseDelay \in Nat
  OBVIOUS
<1>2. ASSUME UNCHANGED retryVars, phase' \in {"kinds", "returned"} PROVE RetryInv'
  BY <1>2 DEF RetryInv, retryVars, AtPage
<1>3. ASSUME NEW p, BeginPage(p) PROVE RetryInv'
  <2>1. /\ phase' = "listing" /\ attempt' = 1 /\ delay' = BaseDelay /\ wait' = 0
        /\ tries' = 1 /\ waited' = 0
    BY <1>3 DEF BeginPage
  <2>2. (tries' - 1) * MaxDelay = 0
    BY <2>1, <1>1
  <2> QED BY <1>1, <2>1, <2>2 DEF RetryInv, AtPage
<1>4. CASE AllListed
  BY <1>2, <1>4 DEF AllListed
<1>5. CASE Abort
  <2>1. UNCHANGED retryVars /\ phase' = "returned"
    BY <1>5, Zenon DEF Abort
  <2> QED BY <1>2, <2>1
<1>6. CASE SkipClusterScoped
  <2>1. UNCHANGED retryVars /\ phase = "kinds" /\ phase' = phase
    BY <1>6 DEF SkipClusterScoped
  <2> QED BY <1>2, <2>1
<1>7. CASE ListKind
  BY <1>3, <1>7 DEF ListKind
<1>8. CASE PageRead
  <2>1. (UNCHANGED retryVars /\ phase' = "kinds") \/ \E p : BeginPage(p)
    BY <1>8 DEF PageRead
  <2> QED BY <1>2, <1>3, <2>1
<1>9. CASE GiveUp \/ StopWaiting
  <2>1. UNCHANGED retryVars /\ phase' \in {"kinds", "returned"}
    BY <1>9 DEF GiveUp, StopWaiting, Skip
  <2> QED BY <1>2, <2>1
<1>10. CASE BackOff
  <2>1. PICK e \in FailuresNow : Retried(e) /\ wait' = WaitFor(e)
    BY <1>10 DEF BackOff
  <2>2. /\ phase = "listing" /\ phase' = "waiting"
        /\ UNCHANGED <<attempt, delay, tries, waited>>
    BY <1>10 DEF BackOff
  <2>3. wait' \in 0..MaxDelay
    BY <2>1, WaitCapped DEF FailuresNow, RetryInv
  <2>4. attempt < RetryAttempts
    BY <2>1 DEF Retried
  <2> HIDE RetryAssumption
  <2> QED BY <2>2, <2>3, <2>4 DEF RetryInv, AtPage
<1>11. CASE TryAgain
  <2>1. /\ phase = "waiting" /\ phase' = "listing" /\ wait' = wait
        /\ attempt' = attempt + 1 /\ delay' = delay * 2
        /\ tries' = tries + 1 /\ waited' = waited + wait
    BY <1>11 DEF TryAgain
  <2>2. /\ attempt = tries /\ tries \in 1..RetryAttempts /\ attempt < RetryAttempts
        /\ waited \in Nat /\ waited <= (tries - 1) * MaxDelay /\ wait \in 0..MaxDelay
        /\ delay \in Nat
    BY <2>1, <1>1 DEF RetryInv, AtPage
  <2>3. (tries - 1) * MaxDelay + MaxDelay = (tries' - 1) * MaxDelay
    BY <2>1, <2>2, <1>1
  <2>4. waited' <= (tries' - 1) * MaxDelay /\ waited' \in Nat
    BY <2>1, <2>2, <2>3, <1>1
  <2>5. (tries' - 1) * MaxDelay <= most
    BY <2>1, <2>2, <1>1
  <2>6. waited' <= most
    <3>1. (tries' - 1) * MaxDelay \in Int
      BY <2>1, <2>2, <1>1
    <3> HIDE DEF most
    <3> QED BY <2>4, <2>5, <3>1, <1>1
  <2>7. delay' \in Nat
    BY <2>1, <2>2
  <2> QED BY <2>1, <2>2, <2>4, <2>6, <2>7, <1>1 DEF RetryInv, AtPage
<1>12. CASE Cancel
  <2>1. UNCHANGED <<phase, retryVars>>
    BY <1>12 DEF Cancel
  <2> QED BY <2>1 DEF RetryInv, AtPage, retryVars
<1>13. CASE UNCHANGED vars
  BY <1>13 DEF RetryInv, AtPage, vars
<1> QED BY <1>4, <1>5, <1>6, <1>7, <1>8, <1>9, <1>10, <1>11, <1>12, <1>13 DEF Next, ListStep

\* A note about a skipped page has its cause.
LEMMA CauseStep ==
  LoopInv /\ RetryInv /\ SkippedForCause /\ [Next]_vars => SkippedForCause'
<1> SUFFICES ASSUME LoopInv, RetryInv, SkippedForCause, [Next]_vars PROVE SkippedForCause'
  OBVIOUS
<1>1. Len(notes) \in Nat
  BY DEF LoopInv
<1>2. ASSUME UNCHANGED notes, cancelled => cancelled' PROVE SkippedForCause'
  BY <1>2 DEF SkippedForCause
<1>3. ASSUME NEW x, notes' = Append(notes, x), cancelled' = cancelled,
             x.why = "skipped" => ~x.err.transient \/ x.tries = RetryAttempts \/ cancelled
      PROVE  SkippedForCause'
  <2>1. /\ Len(notes') = Len(notes) + 1 /\ notes'[Len(notes) + 1] = x
        /\ \A n \in 1..Len(notes) : notes'[n] = notes[n]
    BY <1>1, <1>3, NoteAdded
  <2> SUFFICES ASSUME NEW n \in 1..Len(notes'), notes'[n].why = "skipped"
               PROVE  ~notes'[n].err.transient \/ notes'[n].tries = RetryAttempts \/ cancelled'
    BY DEF SkippedForCause
  <2>2. CASE n \in 1..Len(notes)
    BY <1>3, <2>1, <2>2 DEF SkippedForCause
  <2>3. CASE n = Len(notes) + 1
    BY <1>3, <2>1, <2>3
  <2> QED BY <1>1, <2>1, <2>2, <2>3
<1>4. CASE Abort
  <2>1. PICK x : notes' = Append(notes, x) /\ x.why = "aborted" /\ cancelled' = cancelled
    BY <1>4, Zenon DEF Abort, Note
  <2> QED BY <1>3, <2>1
<1>5. CASE SkipClusterScoped
  BY <1>3, <1>5 DEF SkipClusterScoped, Note
<1>6. CASE GiveUp
  <2>1. PICK e \in FailuresNow : ~Retried(e) /\ Skip(e)
    BY <1>6 DEF GiveUp
  <2>2. phase = "listing" /\ e.transient \in BOOLEAN
    BY <1>6, RetryAssumption, ContextErrorFinal DEF GiveUp, FailuresNow
  <2>3. ~e.transient \/ tries = RetryAttempts
    BY <2>1, <2>2, RetryAssumption DEF Retried, RetryInv, AtPage
  <2> QED BY <1>3, <2>1, <2>3 DEF Skip, Note
<1>7. CASE StopWaiting
  BY <1>3, <1>7 DEF StopWaiting, Skip, Note
<1>8. CASE AllListed \/ ListKind \/ PageRead \/ BackOff \/ TryAgain \/ Cancel \/ UNCHANGED vars
  <2>1. UNCHANGED notes /\ (cancelled => cancelled')
    BY <1>8 DEF AllListed, ListKind, PageRead, BackOff, TryAgain, Cancel, vars
  <2> QED BY <1>2, <2>1
<1> QED BY <1>4, <1>5, <1>6, <1>7, <1>8 DEF Next, ListStep


-----------------------------------------------------------------------------
(* What is read.                                                           *)

PageAt(k, p) == PagesOf(kinds[k])[p]

\* The pages that the loop has not come to.
Unread(k, p) == at.kind < k \/ (at.kind = k /\ at.page <= p)

\* The pages are read in order and each of them once, and what is left out of
\* a kind that is done is noted.
ContentInv ==
  /\ objects \in Seq(Range(objects))
  /\ NoneTwice
  /\ \A k \in 1..Len(kinds) : \A p \in 1..Len(PagesOf(kinds[k])) :
       Unread(k, p) => PageAt(k, p) \cap Range(objects) = {}
  /\ AtPage => \A q \in 1..(at.page - 1) : PageAt(at.kind, q) \subseteq Range(objects)
  /\ \A k \in 1..Len(kinds) : k < at.kind => Listed(kinds[k]) \/ Noted(kinds[k])

\* An object is on one page of one kind.
LEMMA PagesApart ==
  ASSUME KindsInv, NEW k \in 1..Len(kinds), NEW l \in 1..Len(kinds),
         NEW p \in 1..Len(PagesOf(kinds[k])), NEW q \in 1..Len(PagesOf(kinds[l])),
         PageAt(k, p) \cap PageAt(l, q) # {}
  PROVE  k = l /\ p = q
<1>1. kinds[k] \in Served /\ kinds[l] \in Served
  BY DEF KindsInv
<1> DEFINE r == kinds[k].resource
           s == kinds[l].resource
<1>2. r \in DOMAIN Pages /\ s \in DOMAIN Pages
  BY <1>1 DEF Served
<1>3. p \in 1..Len(Pages[r]) /\ q \in 1..Len(Pages[s]) /\ Pages[r][p] \cap Pages[s][q] # {}
  BY DEF PageAt, PagesOf
<1>4. r = s /\ p = q
  BY <1>2, <1>3, ServerAssumption
<1> QED BY <1>4 DEF KindsInv

\* What a page adds to the result.
LEMMA PageAdded ==
  ASSUME NEW S, IsFiniteSet(S), objects \in Seq(Range(objects)),
         \A i, j \in 1..Len(objects) : objects[i] = objects[j] => i = j,
         S \cap Range(objects) = {}, objects' = objects \o SetToSeq(S)
  PROVE  /\ Range(objects') = Range(objects) \cup S
         /\ objects' \in Seq(Range(objects'))
         /\ \A i, j \in 1..Len(objects') : objects'[i] = objects'[j] => i = j
<1> DEFINE old == objects
           new == SetToSeq(S)
           all == objects'
           R == Range(old)
           m == Len(old)
<1>1. /\ new \in Seq(S) /\ Range(new) = S
      /\ \A i, j \in 1..Len(new) : new[i] = new[j] => i = j
  BY SequenceOfSet
<1>2. old \in Seq(R) /\ all = old \o new
  OBVIOUS
<1> HIDE DEF old, new, R, all
<1>3. old \in Seq(R \cup S) /\ new \in Seq(R \cup S)
  BY <1>1, <1>2
<1>4. m \in Nat /\ Len(new) \in Nat /\ DOMAIN old = 1..m /\ DOMAIN new = 1..Len(new)
  BY <1>3 DEF m
<1> HIDE DEF m
<1>5. /\ all \in Seq(R \cup S) /\ Len(all) = m + Len(new) /\ DOMAIN all = 1..Len(all)
      /\ \A i \in 1..Len(all) : all[i] = IF i <= m THEN old[i] ELSE new[i - m]
  BY <1>2, <1>3 DEF m
<1>6. /\ \A i \in 1..m : old[i] \in R
      /\ \A x \in R : \E i \in 1..m : old[i] = x
  BY <1>4 DEF R, Range
<1>7. /\ \A i \in 1..Len(new) : new[i] \in S
      /\ \A x \in S : \E i \in 1..Len(new) : new[i] = x
  BY <1>1, <1>4 DEF Range
<1>8. /\ \A i \in 1..m : i \in 1..Len(all) /\ all[i] = old[i]
      /\ \A i \in 1..Len(new) : m + i \in 1..Len(all) /\ all[m + i] = new[i]
      /\ \A i \in 1..Len(all) : i \in 1..m \/ i - m \in 1..Len(new)
  <2> DEFINE n == Len(new)
             t == Len(all)
  <2>1. m \in Nat /\ n \in Nat /\ t = m + n
    BY <1>4, <1>5
  <2> HIDE DEF n, t
  <2>2. /\ \A i \in 1..m : i \in 1..t /\ i <= m
        /\ \A i \in 1..n : m + i \in 1..t /\ ~(m + i <= m) /\ (m + i) - m = i
        /\ \A i \in 1..t : i \in 1..m \/ i - m \in 1..n
    BY <2>1
  <2>3. \A i \in 1..t : all[i] = IF i <= m THEN old[i] ELSE new[i - m]
    BY <1>5 DEF t
  <2>4. \A i \in 1..m : i \in 1..t /\ all[i] = old[i]
    BY <2>2, <2>3
  <2>5. ASSUME NEW i \in 1..n PROVE m + i \in 1..t /\ all[m + i] = new[i]
    BY <2>2, <2>3, <2>5
  <2> QED BY <2>2, <2>4, <2>5 DEF n, t
<1>9. Range(all) = R \cup S
  <2>1. ASSUME NEW x \in Range(all) PROVE x \in R \cup S
    BY <1>5, <2>1 DEF Range
  <2>2. ASSUME NEW x \in R PROVE x \in Range(all)
    BY <1>5, <1>6, <1>8 DEF Range
  <2>3. ASSUME NEW x \in S PROVE x \in Range(all)
    BY <1>5, <1>7, <1>8 DEF Range
  <2> QED BY <2>1, <2>2, <2>3
<1>10. ASSUME NEW i \in 1..Len(all), NEW j \in 1..Len(all), all[i] = all[j] PROVE i = j
  <2>1. CASE i \in 1..m /\ j \in 1..m
    BY <1>8, <1>10, <2>1 DEF old, m
  <2>2. CASE i - m \in 1..Len(new) /\ j - m \in 1..Len(new)
    <3>1. all[i] = new[i - m] /\ all[j] = new[j - m]
      BY <1>4, <1>5, <2>2
    <3>2. i - m = j - m
      BY <1>1, <1>10, <2>2, <3>1
    <3> QED BY <1>4, <3>2
  <2>3. ASSUME NEW u \in 1..m, NEW v, v - m \in 1..Len(new), v \in 1..Len(all) PROVE all[u] # all[v]
    <3>1. all[v] = new[v - m] /\ all[u] = old[u]
      BY <1>4, <1>5, <1>8, <2>3
    <3>2. R \cap S = {}
      BY DEF R, old
    <3> QED BY <1>6, <1>7, <2>3, <3>1, <3>2
  <2> QED BY <1>8, <1>10, <2>1, <2>2, <2>3
<1> QED BY <1>5, <1>9, <1>10 DEF all, R, old

\* A page that is read is the next of its kind.
LEMMA PageReadContent ==
  LoopInv /\ ContentInv /\ PageRead => ContentInv'
<1> SUFFICES ASSUME LoopInv, ContentInv, PageRead PROVE ContentInv'
  OBVIOUS
<1> DEFINE K == at.kind
           P == at.page
           S == PageAt(K, P)
           size(k) == Len(PagesOf(kinds[k]))
           R == Range(objects)
<1>1. /\ phase = "listing" /\ kinds' = kinds /\ notes' = notes
      /\ objects' = objects \o SetToSeq(S)
      /\ IF P = size(K)
         THEN phase' = "kinds" /\ at' = [kind |-> K + 1, page |-> 1]
         ELSE phase' = "listing" /\ at' = [at EXCEPT !.page = @ + 1]
  BY DEF PageRead, BeginPage, PageAt, Kind
<1>2. K \in 1..Len(kinds) /\ P \in 1..size(K) /\ AtPage /\ KindsInv
  BY <1>1 DEF LoopInv, AtPage, Kind
<1>3. kinds[K] \in Served
  BY <1>2 DEF KindsInv
<1>4. size(K) \in Nat \ {0} /\ IsFiniteSet(S) /\ DOMAIN PagesOf(kinds[K]) = 1..size(K)
  BY <1>2, <1>3, PagesAreFinite DEF PageAt
<1>5. \A k \in 1..Len(kinds) : \A p \in 1..size(k) : PageAt(k, p)' = PageAt(k, p)
  BY <1>1 DEF PageAt, PagesOf
<1>6. S \cap R = {}
  BY <1>2 DEF ContentInv, Unread, LoopInv
<1>7. /\ Range(objects') = R \cup S /\ objects' \in Seq(Range(objects'))
      /\ \A i, j \in 1..Len(objects') : objects'[i] = objects'[j] => i = j
  BY <1>1, <1>4, <1>6, PageAdded DEF ContentInv, NoneTwice
<1>8. at' = IF P = size(K) THEN [kind |-> K + 1, page |-> 1] ELSE [kind |-> K, page |-> P + 1]
  BY <1>1 DEF LoopInv
<1>9. \A k \in 1..Len(kinds) : \A p \in 1..size(k) :
        /\ Unread(k, p)' => Unread(k, p) /\ ~(k = K /\ p = P)
  BY <1>2, <1>4, <1>8 DEF Unread, LoopInv
<1>10. \A k \in 1..Len(kinds) : \A p \in 1..size(k) :
         PageAt(k, p) \cap S # {} => k = K /\ p = P
  BY <1>2, PagesApart, SMTT(30)
<1>11. \A q \in 1..(P - 1) : PageAt(K, q) \subseteq R
  BY <1>2 DEF ContentInv
<1> HIDE DEF R, S
<1>12. \A q \in 1..P : PageAt(K, q) \subseteq R \cup S
  BY <1>2, <1>4, <1>11 DEF S
<1>13. ASSUME NEW k \in 1..Len(kinds), NEW p \in 1..size(k), Unread(k, p)'
       PROVE  PageAt(k, p) \cap (R \cup S) = {}
  BY <1>9, <1>10, <1>13 DEF ContentInv, R
<1>14. ASSUME NEW k \in 1..Len(kinds), NEW p \in 1..size(k), PageAt(k, p) \cap (R \cup S) # {},
              NEW q \in 1..p
       PROVE  PageAt(k, q) \subseteq R \cup S
  <2>1. CASE PageAt(k, p) \cap S # {}
    BY <1>10, <1>12, <2>1
  <2>2. CASE PageAt(k, p) \cap R # {}
    BY <2>2 DEF ContentInv, NoneTwice, PageAt, R
  <2> QED BY <1>14, <2>1, <2>2
<1>15. ASSUME phase' = "listing", NEW q \in 1..(at'.page - 1)
       PROVE  at'.kind = K /\ PageAt(K, q) \subseteq R \cup S
  <2>1. at' = [kind |-> K, page |-> P + 1]
    BY <1>1, <1>8, <1>15
  <2>2. q \in 1..P
    BY <1>2, <2>1
  <2> QED BY <1>12, <2>1, <2>2
<1>16. ASSUME NEW k \in 1..Len(kinds), k < at'.kind
       PROVE  ObjectsOf(kinds[k]) \subseteq R \cup S \/ Noted(kinds[k])
  <2>1. CASE k < K
    BY <2>1 DEF ContentInv, Listed, R
  <2>2. CASE ~(k < K)
    <3>1. k = K /\ P = size(K)
      BY <1>2, <1>8, <1>16, <2>2
    <3>2. \A q \in DOMAIN PagesOf(kinds[K]) : PageAt(K, q) \subseteq R \cup S
      BY <1>4, <1>12, <3>1
    <3> QED BY <3>1, <3>2 DEF ObjectsOf, Range, PageAt
  <2> QED BY <2>1, <2>2
<1> QED
  <2>1. NoneTwice'
    <3>1. \A k \in 1..Len(kinds') : PagesOf(kinds'[k]) = PagesOf(kinds[k])
      BY <1>1
    <3> QED BY <1>1, <1>7, <1>14 DEF NoneTwice, PageAt
  <2>2. \A k \in 1..Len(kinds') : \A p \in 1..Len(PagesOf(kinds'[k])) :
          Unread(k, p)' => PageAt(k, p)' \cap Range(objects') = {}
    BY <1>1, <1>5, <1>7, <1>13
  <2>3. AtPage' => \A q \in 1..(at'.page - 1) : PageAt(at.kind, q)' \subseteq Range(objects')
    BY <1>1, <1>7, <1>15 DEF AtPage, PageAt
  <2>4. \A k \in 1..Len(kinds') : k < at'.kind => Listed(kinds[k])' \/ Noted(kinds[k])'
    BY <1>1, <1>7, <1>16 DEF Listed, Noted, ObjectsOf, PagesOf
  <2> QED BY <1>7, <2>1, <2>2, <2>3, <2>4 DEF ContentInv


\* A step that reads nothing: it stays, or goes on from a kind that is noted.
LEMMA ContentKept ==
  ASSUME LoopInv, ContentInv, UNCHANGED <<kinds, objects>>,
         notes' = notes \/ \E x : notes' = Append(notes, x),
         \/ at' = at
         \/ /\ at' = [kind |-> at.kind + 1, page |-> 1]
            /\ \E n \in 1..Len(notes') : notes'[n].resource = Kind.resource,
         AtPage' => at'.page = 1 \/ (at' = at /\ AtPage)
  PROVE  ContentInv'
<1>1. \A k \in 1..Len(kinds) : Noted(kinds[k]) => Noted(kinds[k])'
  <2> SUFFICES ASSUME NEW k \in 1..Len(kinds), Noted(kinds[k]) PROVE Noted(kinds[k])'
    OBVIOUS
  <2>1. PICK n \in 1..Len(notes) : notes[n].resource = kinds[k].resource
    BY DEF Noted
  <2>2. n \in 1..Len(notes') /\ notes'[n] = notes[n]
    BY NoteAdded DEF LoopInv
  <2> QED BY <2>1, <2>2 DEF Noted
<1>2. \A k : \A p : Unread(k, p)' => Unread(k, p) \/ k \notin 1..Len(kinds)
  BY DEF Unread, LoopInv
<1>3. NoneTwice' /\ \A k, p : PageAt(k, p)' = PageAt(k, p)
  BY DEF ContentInv, NoneTwice, PageAt, PagesOf
<1>4. \A k \in 1..Len(kinds') : \A p \in 1..Len(PagesOf(kinds'[k])) :
        Unread(k, p)' => PageAt(k, p)' \cap Range(objects') = {}
  BY <1>2, <1>3 DEF ContentInv
<1>5. AtPage' => \A q \in 1..(at'.page - 1) : PageAt(at.kind, q)' \subseteq Range(objects')
  <2>1. CASE at'.page = 1
    BY <2>1
  <2>2. CASE at' = at /\ AtPage
    BY <2>2 DEF ContentInv, PageAt, PagesOf
  <2> QED BY <2>1, <2>2
<1>6. ASSUME NEW k \in 1..Len(kinds), k < at'.kind PROVE Listed(kinds[k])' \/ Noted(kinds[k])'
  <2>1. CASE k < at.kind
    BY <1>1, <2>1 DEF ContentInv, Listed, ObjectsOf, PagesOf
  <2>2. CASE ~(k < at.kind)
    <3>1. k = at.kind /\ \E n \in 1..Len(notes') : notes'[n].resource = Kind.resource
      BY <1>6, <2>2 DEF LoopInv
    <3> QED BY <3>1 DEF Kind, Noted
  <2> QED BY <2>1, <2>2
<1> QED BY <1>3, <1>4, <1>5, <1>6 DEF ContentInv

\* What is read stays, and what is left out is noted.
LEMMA ContentStep == LoopInv /\ ContentInv /\ [Next]_vars => ContentInv'
<1> SUFFICES ASSUME LoopInv, ContentInv, [Next]_vars PROVE ContentInv'
  OBVIOUS
<1>1. CASE PageRead
  BY <1>1, PageReadContent
<1>2. ASSUME NEW w, NEW e, notes' = Append(notes, Note(w, Kind.resource, e))
      PROVE  \E n \in 1..Len(notes') : notes'[n].resource = Kind.resource
  <2>1. Note(w, Kind.resource, e).resource = Kind.resource
    BY DEF Note
  <2>2. Len(notes) \in Nat
    BY DEF LoopInv
  <2> QED BY <1>2, <2>1, <2>2, NoteAdded
<1>3. CASE Abort
  <2>1. /\ UNCHANGED <<kinds, objects, at>> /\ \E x : notes' = Append(notes, x)
        /\ ~AtPage'
    BY <1>3, Zenon DEF Abort, AtPage
  <2> QED BY <2>1, ContentKept
<1>4. CASE SkipClusterScoped
  <2>1. /\ UNCHANGED <<kinds, objects>> /\ at' = [kind |-> at.kind + 1, page |-> 1]
        /\ notes' = Append(notes, Note("cluster-scoped", Kind.resource, ContextError))
    BY <1>4 DEF SkipClusterScoped
  <2> QED BY <1>2, <2>1, ContentKept
<1>5. ASSUME NEW e, AtPage, Skip(e) PROVE ContentInv'
  <2>1. /\ UNCHANGED <<kinds, objects>> /\ notes' = Append(notes, Note("skipped", Kind.resource, e))
        /\ ~AtPage' /\ (at' = at \/ at' = [kind |-> at.kind + 1, page |-> 1])
    BY <1>5 DEF Skip, AtPage
  <2> QED BY <1>2, <2>1, ContentKept
<1>6. CASE GiveUp \/ StopWaiting
  BY <1>5, <1>6 DEF GiveUp, StopWaiting, AtPage
<1>7. CASE ListKind
  <2>1. /\ UNCHANGED <<kinds, objects, notes>> /\ phase = "kinds"
        /\ at' = [kind |-> at.kind, page |-> 1]
    BY <1>7 DEF ListKind, BeginPage
  <2>2. at' = at
    BY <2>1 DEF LoopInv
  <2> QED BY <2>1, <2>2, ContentKept
<1>8. CASE AllListed \/ BackOff \/ TryAgain \/ Cancel \/ UNCHANGED vars
  <2>1. UNCHANGED <<kinds, objects, notes, at>> /\ (AtPage' => AtPage)
    BY <1>8 DEF AllListed, BackOff, TryAgain, Cancel, AtPage, vars
  <2> QED BY <2>1, ContentKept
<1> QED BY <1>1, <1>3, <1>4, <1>6, <1>7, <1>8 DEF Next, ListStep

-----------------------------------------------------------------------------
(* The theorems.                                                           *)

ListingInv == LoopInv /\ RetryInv /\ SkippedForCause /\ ContentInv

\* The listing starts with its invariant,
LEMMA ListingInit == Init => ListingInv
<1> SUFFICES ASSUME Init PROVE ListingInv
  OBVIOUS
<1>1. /\ objects = <<>> /\ notes = <<>> /\ at = [kind |-> 1, page |-> 1] /\ phase = "kinds"
      /\ cancelled = FALSE /\ tries = 0 /\ waited = 0 /\ wait = 0 /\ delay = BaseDelay
  BY Zenon DEF Init
<1>2. KindsInv
  <2>1. PICK c \in Catalogs : kinds = DiscoverComposite(c)
    BY Zenon DEF Init
  <2> QED BY <2>1, KindsOnce DEF KindsInv
<1>3. Len(notes) = 0 /\ Len(objects) = 0 /\ Range(objects) = {} /\ objects \in Seq({})
  BY <1>1 DEF Range
<1>4. LoopInv
  <2>1. at.kind = 1 /\ at.page = 1 /\ at \in [kind : Nat \ {0}, page : Nat \ {0}]
    BY <1>1
  <2>2. ~AtPage /\ ~Returned /\ phase \in {"kinds", "listing", "waiting", "returned"}
    BY <1>1 DEF AtPage, Returned
  <2>3. Len(notes) \in Nat /\ cancelled \in BOOLEAN
    BY <1>1, <1>3
  <2> QED BY <1>2, <2>1, <2>2, <2>3 DEF LoopInv
<1>5. RetryInv
  <2>1. (RetryAttempts - 1) * MaxDelay \in Nat
    BY RetryAssumption
  <2> QED BY <1>1, <2>1, RetryAssumption DEF RetryInv, AtPage
<1>6. SkippedForCause
  BY <1>3 DEF SkippedForCause
<1>7. ContentInv
  BY <1>1, <1>2, <1>3 DEF ContentInv, NoneTwice, AtPage, Unread, KindsInv
<1> QED BY <1>4, <1>5, <1>6, <1>7 DEF ListingInv

\* and keeps it.
LEMMA ListingAlways == Spec => []ListingInv
<1>1. ListingInv /\ [Next]_vars => ListingInv'
  BY LoopStep, RetryStep, CauseStep, ContentStep DEF ListingInv
<1> QED BY ListingInit, <1>1, PTL DEF Spec

\* Nothing is dropped silently: when ListAll returns and its context is alive,
\* every kind that discovery found was read to its last page or a note names it.
THEOREM NothingDropped == Spec => []AccountedFor
<1>1. ListingInv => AccountedFor
  BY DEF ListingInv, LoopInv, KindsInv, ContentInv, AccountedFor
<1> QED BY <1>1, ListingAlways, PTL

\* No object is listed twice, whatever is repeated and whichever versions are
\* served, and what was read of a kind is its first pages.
THEOREM ListedOnce == Spec => []NoneTwice
<1>1. ListingInv => NoneTwice
  BY DEF ListingInv, ContentInv
<1> QED BY <1>1, ListingAlways, PTL

\* withRetry gives a page up only for a failure that retrying cannot cure,
\* after all its attempts, or because the context ended.
THEOREM SkipsHaveCause == Spec => []SkippedForCause
<1>1. ListingInv => SkippedForCause
  BY DEF ListingInv
<1> QED BY <1>1, ListingAlways, PTL

\* A page costs at most retryAttempts requests and the capped waits between
\* them, whatever the server suggests.
THEOREM OutagesSurface == Spec => []PromptOutage
<1>1. ListingInv => PromptOutage
  <2> DEFINE most == (RetryAttempts - 1) * MaxDelay
  <2>1. RetryInv => tries \in 0..RetryAttempts /\ waited <= most
    BY DEF RetryInv
  <2>2. RetryInv => tries <= RetryAttempts
    BY <2>1, RetryAssumption
  <2> QED BY <2>1, <2>2 DEF ListingInv, PromptOutage
<1> QED BY <1>1, ListingAlways, PTL
-----------------------------------------------------------------------------
(* The listing ends: its steps go down in an order without endless         *)
(* descents, whatever the requests return and the server suggests.         *)

\* The loop stops behind the last kind.
LoopBounded == at.kind <= Len(kinds) + 1

\* The kinds that are left; whether one is still to be begun; its pages that are
\* left; the attempts that are left to the page; and whether a request is out.
Rank ==
  <<IF Returned THEN 0 ELSE Len(kinds) + 2 - at.kind,
    IF AtPage THEN 0 ELSE 1,
    IF AtPage THEN Len(PagesOf(Kind)) - at.page ELSE 0,
    IF AtPage THEN RetryAttempts - attempt ELSE 0,
    IF phase = "listing" THEN 1 ELSE 0>>

Ranks == [1..5 -> Nat]

\* The lexicographic order of ranks.
Below == {p \in Nat \X Nat : p[1] < p[2]}
Lower == LexProductOrdering(Below, Nat, 5)

\* There is no endless descent in it.
LEMMA NoEndlessDescent == IsWellFoundedOn(Lower, Ranks)
<1>1. OpToRel(<, Nat) = Below
  BY DEF OpToRel, Below
<1>2. IsWellFoundedOn(Below, Nat)
  BY <1>1, NatLessThanWellFounded
<1>3. 5 \in Nat
  OBVIOUS
<1> QED BY <1>2, <1>3, WFLexProductOrdering DEF Lower, Ranks

\* Five naturals are a rank.
LEMMA RankOfFive ==
  ASSUME NEW a \in Nat, NEW b \in Nat, NEW c \in Nat, NEW d \in Nat, NEW e \in Nat
  PROVE  <<a, b, c, d, e>> \in Ranks
BY DEF Ranks

\* A rank is lower when its first number that differs is.
LEMMA LowerAt ==
  ASSUME NEW r \in Ranks, NEW s \in Ranks, NEW j \in 1..5, r[j] < s[j],
         \A i \in 1..(j - 1) : r[i] = s[i]
  PROVE  <<r, s>> \in Lower
<1>1. r[j] \in Nat /\ s[j] \in Nat
  BY DEF Ranks
<1>2. <<r[j], s[j]>> \in Below
  BY <1>1 DEF Below
<1> QED BY <1>2 DEF Lower, LexProductOrdering, Ranks

\* The rank is one, by the bounds of the loops.
LEMMA RankType == ASSUME LoopInv, RetryInv, LoopBounded PROVE Rank \in Ranks
<1>1. Len(kinds) \in Nat /\ at.kind \in Nat /\ at.page \in Nat
  BY DEF LoopInv, KindsInv
<1>2. (IF Returned THEN 0 ELSE Len(kinds) + 2 - at.kind) \in Nat
  BY <1>1 DEF LoopBounded
<1>3. (IF AtPage THEN Len(PagesOf(Kind)) - at.page ELSE 0) \in Nat
  BY <1>1, PageType DEF LoopInv
<1>4. (IF AtPage THEN RetryAttempts - attempt ELSE 0) \in Nat
  BY RetryAssumption DEF RetryInv
<1> QED BY <1>2, <1>3, <1>4, RankOfFive DEF Rank

\* The next kind, or the end.
LEMMA KindDone ==
  ASSUME LoopInv, LoopBounded, Rank \in Ranks, Rank' \in Ranks, kinds' = kinds, ~Returned,
         \/ phase' = "returned"
         \/ phase' = "kinds" /\ at' = [kind |-> at.kind + 1, page |-> 1]
  PROVE  <<Rank', Rank>> \in Lower
<1>1. Len(kinds) \in Nat /\ at.kind \in Nat
  BY DEF LoopInv, KindsInv
<1>2. Rank[1] = Len(kinds) + 2 - at.kind
  BY DEF Rank
<1>3. Rank'[1] = 0 \/ Rank'[1] = Len(kinds) + 2 - (at.kind + 1)
  <2>1. CASE phase' = "returned"
    BY <2>1 DEF Rank, Returned
  <2>2. CASE phase' = "kinds" /\ at' = [kind |-> at.kind + 1, page |-> 1]
    BY <2>2 DEF Rank, Returned
  <2> QED BY <2>1, <2>2
<1>4. Rank'[1] < Rank[1]
  BY <1>1, <1>2, <1>3 DEF LoopBounded
<1> QED BY <1>4, LowerAt

\* A step of the listing goes down.
LEMMA StepDescends ==
  ASSUME LoopInv, RetryInv, LoopBounded, Rank \in Ranks, Rank' \in Ranks, ListStep
  PROVE  <<Rank', Rank>> \in Lower
<1>1. ASSUME NEW e, Skip(e), AtPage PROVE <<Rank', Rank>> \in Lower
  BY <1>1, KindDone DEF Skip, AtPage, Returned
<1>2. CASE AllListed \/ Abort \/ SkipClusterScoped
  BY <1>2, KindDone DEF AllListed, Abort, SkipClusterScoped, Returned
<1>3. CASE ListKind
  <2>1. /\ phase = "kinds" /\ phase' = "listing" /\ kinds' = kinds
        /\ at'.kind = at.kind
    BY <1>3 DEF ListKind, BeginPage
  <2>2. ~Returned /\ ~Returned' /\ ~AtPage /\ AtPage'
    BY <2>1 DEF Returned, AtPage
  <2>3. Rank'[1] = Rank[1] /\ Rank'[2] = 0 /\ Rank[2] = 1
    BY <2>1, <2>2 DEF Rank
  <2> QED BY <2>3, LowerAt
<1>4. CASE PageRead
  <2>1. /\ phase = "listing" /\ kinds' = kinds
        /\ \/ phase' = "kinds" /\ at' = [kind |-> at.kind + 1, page |-> 1]
           \/ phase' = "listing" /\ at' = [at EXCEPT !.page = @ + 1]
    BY <1>4 DEF PageRead, BeginPage
  <2>2. CASE phase' = "kinds" /\ at' = [kind |-> at.kind + 1, page |-> 1]
    BY <2>1, <2>2, KindDone DEF Returned
  <2>3. CASE phase' = "listing" /\ at' = [at EXCEPT !.page = @ + 1]
    <3>1. at'.kind = at.kind /\ at'.page = at.page + 1 /\ at.page \in Nat
      BY <2>3 DEF LoopInv
    <3>2. ~Returned /\ ~Returned' /\ AtPage /\ AtPage'
      BY <2>1, <2>3 DEF Returned, AtPage
    <3>3. PagesOf(Kind)' = PagesOf(Kind) /\ Len(PagesOf(Kind)) \in Nat
      BY <2>1, <3>1, <3>2, PageType DEF Kind, PagesOf, LoopInv
    <3>4. Rank'[1] = Rank[1] /\ Rank'[2] = Rank[2]
      BY <2>1, <3>1, <3>2 DEF Rank
    <3>5. Rank[3] = Len(PagesOf(Kind)) - at.page /\ Rank'[3] = Len(PagesOf(Kind)) - (at.page + 1)
      BY <3>1, <3>2, <3>3 DEF Rank
    <3>6. Rank'[3] < Rank[3]
      BY <3>1, <3>3, <3>5
    <3> QED BY <3>4, <3>6, LowerAt
  <2> QED BY <2>1, <2>2, <2>3
<1>5. CASE GiveUp \/ StopWaiting
  BY <1>1, <1>5 DEF GiveUp, StopWaiting, AtPage
<1>6. ASSUME AtPage, AtPage', UNCHANGED <<kinds, at>>
      PROVE  /\ Rank'[1] = Rank[1] /\ Rank'[2] = Rank[2] /\ Rank'[3] = Rank[3]
             /\ Rank[4] = RetryAttempts - attempt /\ Rank'[4] = RetryAttempts - attempt'
  <2>1. ~Returned /\ ~Returned'
    BY <1>6 DEF Returned, AtPage
  <2>2. PagesOf(Kind)' = PagesOf(Kind)
    BY <1>6 DEF Kind, PagesOf
  <2> QED BY <1>6, <2>1, <2>2 DEF Rank
<1>7. CASE BackOff
  <2>1. /\ phase = "listing" /\ phase' = "waiting" /\ UNCHANGED <<kinds, at>> /\ attempt' = attempt
    BY <1>7 DEF BackOff
  <2>2. Rank[5] = 1 /\ Rank'[5] = 0
    BY <2>1 DEF Rank
  <2> QED BY <1>6, <2>1, <2>2, LowerAt DEF AtPage
<1>8. CASE TryAgain
  <2>1. /\ phase = "waiting" /\ phase' = "listing" /\ UNCHANGED <<kinds, at>>
        /\ attempt' = attempt + 1
    BY <1>8 DEF TryAgain
  <2>2. attempt \in Nat
    BY <2>1 DEF RetryInv, AtPage
  <2>3. RetryAttempts - (attempt + 1) < RetryAttempts - attempt
    BY <2>2, RetryAssumption
  <2>4. /\ Rank'[1] = Rank[1] /\ Rank'[2] = Rank[2] /\ Rank'[3] = Rank[3] /\ Rank'[4] < Rank[4]
    BY <1>6, <2>1, <2>3 DEF AtPage
  <2> QED BY <2>4, LowerAt
<1> QED BY <1>2, <1>3, <1>4, <1>5, <1>7, <1>8 DEF ListStep

\* The loop stays within its bounds.
LEMMA BoundedStep == LoopInv /\ LoopBounded /\ [Next]_vars => LoopBounded'
<1> SUFFICES ASSUME LoopInv, LoopBounded, [Next]_vars PROVE LoopBounded'
  OBVIOUS
<1>1. Len(kinds) \in Nat /\ at.kind \in Nat
  BY DEF LoopInv, KindsInv
<1>2. ASSUME kinds' = kinds, at'.kind = at.kind \/ (at'.kind = at.kind + 1 /\ at.kind <= Len(kinds))
      PROVE LoopBounded'
  BY <1>1, <1>2 DEF LoopBounded
<1>3. ASSUME NEW e, Skip(e), AtPage PROVE LoopBounded'
  BY <1>2, <1>3 DEF Skip, LoopInv
<1>4. CASE PageRead
  <2>1. /\ phase = "listing" /\ kinds' = kinds
        /\ at' = [kind |-> at.kind + 1, page |-> 1] \/ at' = [at EXCEPT !.page = @ + 1]
    BY <1>4 DEF PageRead, BeginPage
  <2>2. at.kind <= Len(kinds)
    BY <1>1, <2>1 DEF LoopInv, AtPage
  <2>3. at'.kind = at.kind + 1 \/ at'.kind = at.kind
    BY <2>1 DEF LoopInv
  <2> QED BY <1>2, <2>1, <2>2, <2>3
<1>5. CASE AllListed \/ Abort \/ ListKind
  <2>1. kinds' = kinds /\ (at' = at \/ at' = [kind |-> at.kind, page |-> 1])
    BY <1>5, Zenon DEF AllListed, Abort, ListKind, BeginPage
  <2>2. at'.kind = at.kind
    BY <2>1
  <2> QED BY <1>2, <2>1, <2>2
<1>6. CASE SkipClusterScoped
  BY <1>2, <1>6 DEF SkipClusterScoped
<1>7. CASE GiveUp \/ StopWaiting
  BY <1>3, <1>7 DEF GiveUp, StopWaiting, AtPage
<1>8. CASE BackOff \/ TryAgain \/ Cancel \/ UNCHANGED vars
  BY <1>2, <1>8 DEF BackOff, TryAgain, Cancel, vars
<1> QED BY <1>4, <1>5, <1>6, <1>7, <1>8 DEF Next, ListStep

\* What lowers the rank: every step of the listing.  The end of the context is no
\* step of it, and leaves it as it is.
ListingDescends ==
  /\ ListStep => <<Rank', Rank>> \in Lower
  /\ Cancel => Rank' = Rank

\* In every behaviour the rank is a rank and goes down with each step of ListAll
\* and withRetry, and so, Lower having no endless descents, a listing takes
\* finitely many steps, however long an outage lasts.
THEOREM ListingIsFinite ==
  /\ IsWellFoundedOn(Lower, Ranks)
  /\ Spec => [](Rank \in Ranks) /\ [][ListingDescends]_vars
<1> DEFINE BInv == ListingInv /\ LoopBounded
<1>1. Init => LoopBounded
  <2>1. ASSUME Init PROVE LoopBounded
    <3>1. LoopInv /\ at.kind = 1
      BY <2>1, ListingInit DEF ListingInv, Init
    <3> QED BY <3>1 DEF LoopBounded, LoopInv, KindsInv
  <2> QED BY <2>1
<1>2. ListingInv /\ LoopBounded /\ [Next]_vars => LoopBounded'
  BY BoundedStep DEF ListingInv
<1>3. Spec => []BInv
  BY <1>1, <1>2, ListingAlways, PTL DEF Spec
<1>4. BInv => Rank \in Ranks
  BY RankType DEF ListingInv
<1>5. ASSUME BInv, BInv', Next PROVE ListingDescends
  <2>1. Rank \in Ranks /\ Rank' \in Ranks
    <3>1. BInv' => (Rank \in Ranks)'
      BY <1>4, PTL
    <3> QED BY <1>4, <1>5, <3>1
  <2>2. ASSUME ListStep PROVE <<Rank', Rank>> \in Lower
    BY <1>5, <2>1, <2>2, StepDescends DEF ListingInv
  <2>3. ASSUME Cancel PROVE Rank' = Rank
    BY <2>3 DEF Cancel, Rank, Returned, AtPage, Kind, PagesOf, retryVars
  <2> QED BY <2>2, <2>3 DEF ListingDescends
<1>6. BInv /\ BInv' /\ [Next]_vars => [ListingDescends]_vars
  BY <1>5
<1>7. Spec => [](Rank \in Ranks) /\ [][ListingDescends]_vars
  BY <1>3, <1>4, <1>6, PTL DEF Spec
<1> QED BY <1>7, NoEndlessDescent
=============================================================================
