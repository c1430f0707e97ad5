---------------------------- MODULE Classification ----------------------------
(***************************************************************************)
(* What the objects of a tree say about themselves: the verdicts of        *)
(* internal/xp/conditions.go, the explanations of diagnose.go and the      *)
(* choice between conditions and recurring events of attribute.go.         *)
(*                                                                         *)
(* Texts are abstracted to what the code asks of them.  Of a condition it  *)
(* asks whether there is any text and whether it reads like a transport    *)
(* flake; of an event whether it is a Warning, how often it recurred and   *)
(* whether it reads like a composition error; and of both which payloads   *)
(* of provider-terraform are in them.                                      *)
(***************************************************************************)
EXTENDS Naturals, Sequences, SequencesExt, Selection

CONSTANTS
  RecurrenceThreshold,   \* recurrenceThreshold, 10 in the code
  DisplayEvents          \* displayEvents, 5 in the code

ASSUME AttributionAssumption ==
  RecurrenceThreshold \in Nat \ {0} /\ DisplayEvents \in Nat \ {0}

\* text: "" when the condition has neither reason nor message, "deadline" when
\* its reason is ProgressDeadlineExceeded.
Condition == [type : STRING, status : STRING, text : {"", "noise", "genuine", "deadline"},
              hints : Seq(Nat)]

\* last orders events; a Count is that of the API's aggregation.
Event == [reason : STRING, warning : BOOLEAN, composition : BOOLEAN,
          count : Nat, last : Nat, hints : Seq(Nat)]

\* What a line is about that speaks of no condition and no event.
Words == {"object", "conditions", "completion", "phase", "readiness"}

\* A line of Reasons or of the summary: what it comes from and is about.
Line == [from : {"condition", "rule", "event", "bare", "unreachable", "paused"},
         about : STRING \cup Words, noise : BOOLEAN, hints : Seq(Nat)]

\* One that an object gives for itself, by a condition or by the rule for its kind.
Cause == {line \in Line : line.from \in {"condition", "rule"}}

\* nativeVerdict; Declined leaves the verdict to Classify.
Verdict == [state : {"Ready", "Pending", "Blocked", "declined"}, reasons : Seq(Cause)]
Declined == [state |-> "declined", reasons |-> <<>>]

First(s) == IF s = <<>> THEN <<>> ELSE <<Head(s)>>

-----------------------------------------------------------------------------
(* Verdicts.                                                               *)

\* The first condition of a type counts.
ByType(cs, type) ==
  LET hits == {i \in 1..Len(cs) : cs[i].type = type}
  IN  IF hits = {} THEN "" ELSE cs[Min(hits)].status

\* Silence is not assessed on a native object, and not ready yet on another.
Classify(native, cs) ==
  LET present == {ByType(cs, type) : type \in {"Ready", "Synced", "Healthy"}}
  IN  IF "False" \in present THEN "Blocked"
      ELSE IF "Unknown" \in present THEN "Pending"
      ELSE IF "True" \in present THEN "Ready"
      ELSE IF native THEN "Unknown" ELSE "Pending"

\* ClassifyObject, and the node of an object that could not be read.
State(n) ==
  IF n.error THEN "Pending"
  ELSE IF n.rule.state # "declined" THEN n.rule.state
  ELSE Classify(n.native, n.conds)

IsSuspect_ByState(n) == State(n) \notin {"Ready", "Unknown"}

\* stateRank: the most actionable rows first.
StateRank(state) == CASE state = "Blocked" -> 0
                      [] state = "Pending" -> 1
                      [] OTHER -> 2

\* Everything that is not ready, and everything being deleted.
IsSuspect(n) == State(n) \notin {"Ready", "Unknown"} \/ n.deleting

-----------------------------------------------------------------------------
(* Explanations.                                                           *)

Failing(c) == c.status \in {"False", "Unknown"}

ConditionLine(c) ==
  [from |-> "condition", about |-> c.type, noise |-> c.text = "noise", hints |-> c.hints]
Plainly(from, about) == [from |-> from, about |-> about, noise |-> FALSE, hints |-> <<>>]
BareLine(c) == Plainly("bare", c.type)
NoConditions == Plainly("bare", "conditions")
Unreachable == Plainly("unreachable", "object")
PausedReason == Plainly("paused", "object")
EventLine(e) == Plainly("event", e.reason)

LinesOf(cs, Render(_)) == [i \in 1..Len(cs) |-> Render(cs[i])]

\* Failing conditions that have something to say.
BlockingMessages(cs) ==
  LinesOf(Selected(cs, {i \in 1..Len(cs) : Failing(cs[i]) /\ cs[i].text # ""}), ConditionLine)

\* The native rule's own explanation is the fallback.
CauseMessages(n) ==
  LET blocking == BlockingMessages(n.conds)
  IN  IF blocking # <<>> THEN blocking ELSE n.rule.reasons

\* The last resort, when conditions and events have said nothing.
BareStateMessages(n) ==
  LET bare    == {i \in 1..Len(n.conds) : Failing(n.conds[i])}
      failing == LinesOf(Selected(n.conds, bare), BareLine)
  IN  IF n.error \/ State(n) \notin {"Blocked", "Pending"} THEN <<>>
      ELSE IF failing # <<>> THEN failing
      ELSE IF n.conds = <<>> /\ State(n) = "Pending" THEN <<NoConditions>>
      ELSE <<>>

-----------------------------------------------------------------------------
(* Attribution.                                                            *)

LeadFirst_AsWritten(msgs) == msgs

\* The first genuine message leads; all noise, or none, stays as it is.
LeadFirst(msgs) ==
  LET genuine == {i \in 1..Len(msgs) : ~msgs[i].noise}
      first   == Min(genuine)
  IN  IF genuine = {} THEN msgs ELSE <<msgs[first]>> \o RemoveAt(msgs, first)

IsQualifyingEvent(e) == e.warning /\ e.composition /\ e.count >= RecurrenceThreshold

\* The qualifying event that recurred most, then the latest, then the first:
\* a sequence of one, or of none.
QualifyingEvent(events) ==
  LET hits == {i \in 1..Len(events) : IsQualifyingEvent(events[i])}
      beats(i, j) == \/ events[i].count > events[j].count
                     \/ /\ events[i].count = events[j].count
                        /\ \/ events[i].last > events[j].last
                           \/ events[i].last = events[j].last /\ i <= j
  IN  IF hits = {} THEN <<>>
      ELSE <<events[CHOOSE i \in hits : \A j \in hits : beats(i, j)]>>

\* The recurring event wins when there is no condition message or all of them
\* are noise.
FromEvent(msgs, events) ==
  /\ QualifyingEvent(events) # <<>>
  /\ msgs = <<>> \/ Head(LeadFirst(msgs)).noise

\* attribute: the one line that explains, in a sequence; <<>> for none.
Attribute(msgs, events) ==
  IF FromEvent(msgs, events) THEN <<EventLine(QualifyingEvent(events)[1])>>
  ELSE First(LeadFirst(msgs))

ReasonsWithEvent(msgs, events) ==
  LET line == EventLine(QualifyingEvent(events)[1])
  IN  IF QualifyingEvent(events) = <<>> \/ Contains(msgs, line) THEN msgs
      ELSE IF FromEvent(msgs, events) THEN <<line>> \o msgs
      ELSE Append(msgs, line)

TrimEvents_NewestOnly(events) ==
  IF Len(events) <= DisplayEvents THEN events
  ELSE SubSeq(events, Len(events) - DisplayEvents + 1, Len(events))

\* The newest events, with the qualifying one in front if it is not of them.
TrimEvents(events) ==
  LET newest == SubSeq(events, Len(events) - DisplayEvents + 1, Len(events))
      q      == QualifyingEvent(events)
  IN  IF Len(events) <= DisplayEvents THEN events
      ELSE IF q # <<>> /\ ~Contains(newest, q[1]) THEN q \o newest ELSE newest
=============================================================================
