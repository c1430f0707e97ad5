-------------------------------- MODULE Prefetch --------------------------------
(***************************************************************************)
(* Diagnose as it runs: prefetchEvents of internal/xp/diagnose.go fetches  *)
(* the events of all the suspects that will be reported at once, one       *)
(* goroutine each, and joins them before the loop begins.                  *)
(***************************************************************************)
EXTENDS Diagnosis

VARIABLES
  fetching,   \* the goroutines that have not returned, by suspect index
  out         \* what the others returned

vars == <<tree, phase, suspects, reported, summary, fetching, out>>

TypeInv ==
  /\ TypeOK
  /\ fetching \subseteq 1..Reported
  /\ DOMAIN out = 1..Reported
  /\ \A i \in 1..Reported : out[i] \in Seq(Event)

PrefetchInit == Init /\ fetching = {} /\ out = <<>>

RankAndSpawn_All ==
  /\ Rank
  /\ fetching' = 1..Len(suspects')
  /\ out' = [i \in 1..Len(suspects') |-> <<>>]

\* rankedSuspects, and the goroutines of prefetchEvents.
RankAndSpawn ==
  /\ Rank
  /\ LET n == IF Len(suspects') < MaxSuspects THEN Len(suspects') ELSE MaxSuspects
     IN  /\ fetching' = 1..n
         /\ out' = [i \in 1..n |-> <<>>]

EventsReturned_InOrder(i) ==
  /\ i \in fetching
  /\ \E events \in Lookup(suspects[i]) :
       out' = [out EXCEPT ![Reported - Cardinality(fetching) + 1] = events]
  /\ fetching' = fetching \ {i}
  /\ UNCHANGED diagnosisVars

EventsReturned_ErrorNotDone(i) ==
  /\ i \in fetching
  /\ \E events \in Lookup(suspects[i]) :
       /\ out' = [out EXCEPT ![i] = events]
       /\ fetching' = IF events = <<>> THEN fetching ELSE fetching \ {i}
  /\ UNCHANGED diagnosisVars

\* The goroutine of suspect i: what it got goes to out[i].
EventsReturned(i) ==
  /\ i \in fetching
  /\ \E events \in Lookup(suspects[i]) : out' = [out EXCEPT ![i] = events]
  /\ fetching' = fetching \ {i}
  /\ UNCHANGED diagnosisVars

\* wg.Wait is over, and the loop reports the next suspect.
ReportPrefetched ==
  /\ fetching = {} /\ Len(reported) < Reported
  /\ Report(out[Len(reported) + 1])
  /\ UNCHANGED <<fetching, out>>

SummariseJoined ==
  /\ fetching = {}
  /\ Summarise
  /\ UNCHANGED <<fetching, out>>

PrefetchNext ==
  \/ RankAndSpawn
  \/ \E i \in 1..Reported : EventsReturned(i)
  \/ ReportPrefetched
  \/ SummariseJoined

\* The goroutines run, and every request returns or times out.
Spec == PrefetchInit /\ [][PrefetchNext]_vars /\ WF_vars(PrefetchNext)

-----------------------------------------------------------------------------
(* Properties.                                                             *)

\* Fetching at once changes nothing but the waiting: step by step the answer
\* is one that fetching in the loop gives, each suspect with its own events.
RefinesInLoop == Safety

\* Every diagnosis ends, with no goroutine left behind.
Termination == <>[](Done /\ fetching = {})
=============================================================================
