------------------------------- MODULE Diagnosis -------------------------------
(***************************************************************************)
(* Diagnose of internal/xp/diagnose.go on a tree that was walked: rank the *)
(* suspects, fetch the events of the first of them, explain each, decode   *)
(* the errors it carries and that none before it did, and name the root    *)
(* cause.  Here the events of a suspect are fetched when the loop     *)
(* comes to it, as the comment on prefetchEvents recalls; this is the      *)
(* reference that the concurrent fetch of Prefetch implements.             *)
(***************************************************************************)
EXTENDS Classification, DecodedErrors, FiniteSets

CONSTANTS
  MaxSuspects,   \* maxSuspects, 10 in the code
  Trees          \* [nodes, capped]: what BuildTree may return

(***************************************************************************)
(* A tree is its nodes in the order of Flatten.  A node has                *)
(*   depth, deleting, paused - as in Node; deleting when deletionTime # "";*)
(*   error  - its object could not be read: no conditions, uid or events;  *)
(*   native - its API group is one of Kubernetes' own;                     *)
(*   conds  - its status conditions, in the order they were written;       *)
(*   rule   - the verdict of nativeReadiness;                              *)
(*   events - what the API server has on it, oldest first.                 *)
(***************************************************************************)
Node == [depth : Nat, deleting : BOOLEAN, paused : BOOLEAN, error : BOOLEAN,
         native : BOOLEAN, conds : Seq(Condition), rule : Verdict, events : Seq(Event)]

Unread(n) == n.conds = <<>> /\ n.events = <<>> /\ n.rule = Declined

ASSUME SuspectsAssumption == MaxSuspects \in Nat \ {0}
ASSUME TreesAssumption ==
  \A t \in Trees :
    /\ t.capped \in BOOLEAN
    /\ t.nodes \in Seq(Node) /\ t.nodes # <<>>
    /\ \A i \in 1..Len(t.nodes) : t.nodes[i].error => Unread(t.nodes[i])

VARIABLES
  tree,       \* chosen once
  phase,      \* where Diagnose is
  suspects,   \* the ranked suspects, by their index in the tree
  reported,   \* d.Suspects
  summary     \* the parts of d.Summary, and d.Healthy

diagnosisVars == <<tree, phase, suspects, reported, summary>>

Suspect == [node : Nat \ {0}, reasons : Seq(Line), decoded : Seq(DecodedError),
            events : Seq(Event), full : Seq(Event)]

\* root: the node named as the likely root cause, 0 for none; cause: the line
\* that explains it and recurring the event it points at, sequences of one or
\* none; caveat: the walk was capped.
Summary == [healthy : BOOLEAN, root : Nat, cause : Seq(Line), recurring : Seq(Event),
            unassessed : Nat, caveat : BOOLEAN]
NoSummary == [healthy |-> FALSE, root |-> 0, cause |-> <<>>, recurring |-> <<>>,
              unassessed |-> 0, caveat |-> FALSE]

Nodes == tree.nodes

TypeOK ==
  /\ tree \in Trees
  /\ phase \in {"ranking", "reporting", "done"}
  /\ suspects \in Seq(1..Len(Nodes))
  /\ reported \in Seq(Suspect)
  /\ summary \in Summary

Init ==
  /\ tree \in Trees
  /\ phase = "ranking"
  /\ suspects = <<>>
  /\ reported = <<>>
  /\ summary = NoSummary

-----------------------------------------------------------------------------
(* rankedSuspects.                                                         *)

RankTier(n) == CASE State(n) = "Blocked" -> 0
                 [] State(n) = "Pending" -> 1
                 [] OTHER -> 2

Before_DepthFirst(i, j) ==
  \/ Nodes[i].depth > Nodes[j].depth
  \/ Nodes[i].depth = Nodes[j].depth /\ i < j

\* By tier, then deepest first, then as the tree has them: a stable sort.
Before(i, j) ==
  \/ RankTier(Nodes[i]) < RankTier(Nodes[j])
  \/ /\ RankTier(Nodes[i]) = RankTier(Nodes[j])
     /\ \/ Nodes[i].depth > Nodes[j].depth
        \/ Nodes[i].depth = Nodes[j].depth /\ i < j

Failures == {i \in 1..Len(Nodes) : IsSuspect(Nodes[i])}

\* The place of a suspect is given by how many come before it.
Place(i) == Cardinality({j \in Failures : Before(j, i)}) + 1

RankedSuspects ==
  [p \in 1..Cardinality(Failures) |-> CHOOSE i \in Failures : Place(i) = p]

\* How many suspects are reported.
Reported == IF Len(suspects) < MaxSuspects THEN Len(suspects) ELSE MaxSuspects

Unassessed == Cardinality({i \in 1..Len(Nodes) : State(Nodes[i]) = "Unknown"})

\* Healthy needs the whole tree; without suspects the summary is made at once.
Rank ==
  /\ phase = "ranking"
  /\ suspects' = RankedSuspects
  /\ phase' = IF suspects' = <<>> THEN "done" ELSE "reporting"
  /\ summary' = IF suspects' # <<>> THEN summary
                ELSE [NoSummary EXCEPT !.healthy = ~tree.capped,
                                       !.unassessed = Unassessed,
                                       !.caveat = tree.capped]
  /\ UNCHANGED <<tree, reported>>

-----------------------------------------------------------------------------
(* buildSuspect and the summary.                                           *)

Reasons(n, condMsgs, events) ==
  LET said   == ReasonsWithEvent(condMsgs, events)
      lines  == IF said = <<>> THEN BareStateMessages(n) ELSE said
  IN  (IF n.paused THEN <<PausedReason>> ELSE <<>>)
      \o (IF n.error THEN <<Unreachable>> ELSE <<>>) \o lines

\* The texts decoded for the suspects before.
Seen == UNION {{reported[s].decoded[k].text : k \in 1..Len(reported[s].decoded)} :
                 s \in 1..Len(reported)}

\* condMsgs are the suspect's messages, led by a genuine one; full is what was
\* fetched, and only the trimmed events are part of the answer.
BuildSuspect(i, condMsgs, events) ==
  [node |-> i, reasons |-> Reasons(Nodes[i], condMsgs, events),
   decoded |-> DecodeTFErrors(condMsgs, events, Seen),
   events |-> TrimEvents(events), full |-> events]

\* The next suspect is reported, with these events.
Report(events) ==
  /\ phase = "reporting" /\ Len(reported) < Reported
  /\ LET i == suspects[Len(reported) + 1]
     IN  \E condMsgs \in {LeadFirst(CauseMessages(Nodes[i]))} :
           reported' = Append(reported, BuildSuspect(i, condMsgs, events))
  /\ UNCHANGED <<tree, phase, suspects, summary>>

\* Client.Events: a failed lookup yields none.
Lookup(i) == {Nodes[i].events, <<>>}

RootCauseMessage_FirstCondition(n, events) == First(CauseMessages(n))

RootCauseMessage(n, events) ==
  LET said == Attribute(CauseMessages(n), events)
  IN  IF said # <<>> THEN said
      ELSE IF n.error THEN <<Unreachable>> ELSE First(BareStateMessages(n))

\* The headline is made from the root's full events.
Summarise ==
  LET root   == suspects[1]
      events == reported[1].full
  IN  /\ phase = "reporting" /\ Len(reported) = Reported
      /\ summary' = [NoSummary EXCEPT
           !.root = root,
           !.cause = RootCauseMessage(Nodes[root], events),
           !.recurring = IF FromEvent(CauseMessages(Nodes[root]), events) THEN <<>>
                         ELSE QualifyingEvent(events),
           !.caveat = tree.capped]
      /\ phase' = "done"
      /\ UNCHANGED <<tree, suspects, reported>>

FetchAndReport ==
  /\ phase = "reporting" /\ Len(reported) < Reported
  /\ \E events \in Lookup(suspects[Len(reported) + 1]) : Report(events)

Next == Rank \/ FetchAndReport \/ Summarise

Safety == Init /\ [][Next]_diagnosisVars

-----------------------------------------------------------------------------
(* Properties of the answer, whoever fetches the events.                   *)

Done == phase = "done"

\* The conditions of an object, or the rule for its kind, leave nothing to
\* worry about; or it is a native one that says nothing of its readiness.
Fine(n) ==
  LET said == {ByType(n.conds, type) : type \in {"Ready", "Synced", "Healthy"}}
  IN  /\ ~n.error /\ ~n.deleting
      /\ \/ n.rule.state = "Ready"
         \/ /\ n.rule.state = "declined" /\ said \cap {"False", "Unknown"} = {}
            /\ "True" \in said \/ n.native

\* Healthy is never said of a tree that was not walked to its end or in which
\* something fails, hangs, is being deleted or could not be read.  (A native
\* object that says nothing of its health is not assessed, and may be in it.)
HealthyIsSound ==
  (Done /\ summary.healthy) =>
    ~tree.capped /\ \A i \in 1..Len(Nodes) : Fine(Nodes[i])

\* A blocked resource is left out of the report only when the report is full
\* of blocked resources that are at least as deep, and the one that is named
\* the root cause is the deepest of the blocked ones.
DeepestFailureFirst ==
  Done =>
    \A i \in 1..Len(Nodes) :
      State(Nodes[i]) = "Blocked" =>
        /\ \/ \E s \in 1..Len(reported) : reported[s].node = i
           \/ /\ Len(reported) = MaxSuspects
              /\ \A s \in 1..Len(reported) :
                   LET n == Nodes[reported[s].node]
                   IN  State(n) = "Blocked" /\ n.depth >= Nodes[i].depth
        /\ State(Nodes[summary.root]) = "Blocked"
        /\ Nodes[summary.root].depth >= Nodes[i].depth

\* The first reason of a suspect that is not about its being paused.
Leading(s) ==
  LET others == {i \in 1..Len(s.reasons) : s.reasons[i].from # "paused"}
  IN  IF others = {} THEN <<>> ELSE <<s.reasons[Min(others)]>>

\* The headline's cause is the leading reason of the first suspect.
HeadlineMatchesReasons ==
  (Done /\ reported # <<>>) =>
    /\ summary.root = reported[1].node
    /\ summary.cause = Leading(reported[1])

\* A transport flake leads only where there is nothing better: no genuine
\* message, and no composition error that keeps recurring.
FlakesNeverLead ==
  \A s \in 1..Len(reported) :
    LET msgs == CauseMessages(Nodes[reported[s].node])
        flake(l) == l # <<>> /\ l[1].noise
    IN  flake(Leading(reported[s])) =>
          /\ \A i \in 1..Len(msgs) : msgs[i].noise
          /\ \A i \in 1..Len(reported[s].full) : ~IsQualifyingEvent(reported[s].full[i])

\* When composition errors keep recurring on a reported suspect, one of them (not
\* each, there may be more than are displayed) is shown to the reader: among its
\* events and its reasons, and for the root cause in the headline.
RecurringShown ==
  \A s \in 1..Len(reported) :
    \A i \in 1..Len(reported[s].full) :
      IsQualifyingEvent(reported[s].full[i]) =>
        /\ \E e \in 1..Len(reported[s].events) : IsQualifyingEvent(reported[s].events[e])
        /\ \E l \in 1..Len(reported[s].reasons) : reported[s].reasons[l].from = "event"
        /\ (Done /\ s = 1) => \/ summary.recurring # <<>>
                              \/ summary.cause[1].from = "event"

\* The texts that a suspect carries and that are more than blank lines.
Carried(s) ==
  LET hints == Range(HintsOf(CauseMessages(Nodes[s.node])) \o HintsOf(s.full))
  IN  {t \in {Text(h) : h \in hints \cap Hints} : Range(LinesIn(t)) \ {"blank"} # {}}

\* The same error mirrors from condition to event and up the composites: in the
\* whole report it is shown once, on the first suspect that carries it, though
\* a hundred payloads may spell it; and no suspect shows another's.
DecodedOnce ==
  \A s \in 1..Len(reported) :
    LET texts == [k \in 1..Len(reported[s].decoded) |-> reported[s].decoded[k].text]
        before == UNION {Carried(reported[r]) : r \in 1..(s - 1)}
    IN  /\ IsInjective(texts)
        /\ Range(texts) = Carried(reported[s]) \ before

\* However long what an error decodes to, and however much of it is logs, the
\* entry begins with the error, ends with the last line that is not a log, is
\* within the budget, and every line that is lost in between is a log or counted.
ErrorLineShown ==
  \A s \in 1..Len(reported) : \A k \in 1..Len(reported[s].decoded) :
    LET lines  == LinesIn(reported[s].decoded[k].text)
        shown  == reported[s].decoded[k].shown
        errors == {i \in 1..Len(lines) : lines[i] = "error"}
        plain  == {i \in 1..Len(lines) : lines[i] \in {"error", "plain"}}
        lost   == {i \in shown[1]..shown[Len(shown)] : lines[i] # "log"} \ Range(shown)
    IN  /\ Len(shown) \in 1..MaxActionableLines
        /\ errors # {} => lines[shown[1]] = "error" /\ \A e \in errors : shown[1] <= e
        /\ plain # {} => \A i \in plain : i <= shown[Len(shown)]
        /\ IF errors = {} THEN lost \cap plain = {}
           ELSE lost = {} \/ -Cardinality(lost) \in Range(shown)

\* A suspect is never a bare name.  Its reasons are empty only when it is being
\* deleted and nothing else is wrong with it, or when its conditions, none of
\* which is a failing one, just do not say Ready; a rule for a native kind
\* that finds fault always says which.
SuspectExplained ==
  \A s \in 1..Len(reported) :
    LET n == Nodes[reported[s].node]
    IN  reported[s].reasons = <<>> =>
          \/ n.deleting /\ State(n) \in {"Ready", "Unknown"}
          \/ /\ n.rule = Declined /\ ~n.native
             /\ n.conds # <<>> /\ \A i \in 1..Len(n.conds) : ~Failing(n.conds[i])

\* The headline never names a root cause that is failing and says nothing
\* about it.
RootExplained ==
  (Done /\ summary.root # 0 /\ State(Nodes[summary.root]) \in {"Blocked", "Pending"})
    => summary.cause # <<>>
=============================================================================
