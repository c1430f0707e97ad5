---------------------------- MODULE DiagnosisProofs ----------------------------
(***************************************************************************)
(* Theorems about Diagnose with its concurrent fetch: for every set of     *)
(* trees and every limit, the answer is one that fetching in the loop      *)
(* gives, Healthy is sound, the deepest failure comes first, and what the  *)
(* report says of each suspect is complete and in order.  The lemmas about *)
(* what explains a suspect come first: the verdicts, messages and          *)
(* attribution of Classification, and the errors that DecodedErrors shows. *)
(***************************************************************************)
EXTENDS Prefetch, NativeReadiness, Ranking, SequenceTheorems

-----------------------------------------------------------------------------
(* What the conditions say.                                                *)

\* What failing conditions say are causes, and without one they say nothing.
LEMMA ConditionsSay ==
  ASSUME NEW cs \in Seq(Condition)
  PROVE  /\ BlockingMessages(cs) \in Seq(Cause)
         /\ (\A i \in 1..Len(cs) : ~Failing(cs[i])) => BlockingMessages(cs) = <<>>
<1> DEFINE P == {i \in 1..Len(cs) : Failing(cs[i]) /\ cs[i].text # ""}
           said == Selected(cs, P)
<1>1. said \in Seq(Condition) /\ (said = <<>> <=> P = {})
  <2>1. P \in SUBSET (1..Len(cs))
    OBVIOUS
  <2> HIDE DEF P
  <2> QED BY <2>1, SelectedKeeps
<1>2. BlockingMessages(cs) = [i \in 1..Len(said) |-> ConditionLine(said[i])]
  BY DEF BlockingMessages, LinesOf
<1>3. ASSUME NEW c \in Condition PROVE ConditionLine(c) \in Cause
  <2>1. c.type \in STRING /\ c.hints \in Seq(Nat)
    BY DEF Condition
  <2> QED BY <2>1 DEF ConditionLine, Cause, Line
<1>4. (\A i \in 1..Len(cs) : ~Failing(cs[i])) => P = {}
  OBVIOUS
<1> HIDE DEF P, said
<1>5. \A i \in 1..Len(said) : ConditionLine(said[i]) \in Cause
  BY <1>1, <1>3
<1>6. Len(said) \in Nat
  BY <1>1
<1> HIDE <1>3
<1> QED BY <1>1, <1>2, <1>4, <1>5, <1>6

\* What an object says for itself are causes.
LEMMA CausesTyped ==
  ASSUME NEW n, n.conds \in Seq(Condition), n.rule \in Verdict
  PROVE  CauseMessages(n) \in Seq(Cause)
BY ConditionsSay DEF CauseMessages, Verdict

\* A line with nothing to decode in it is a line.
LEMMA PlainlyTyped ==
  ASSUME NEW from \in {"condition", "rule", "event", "bare", "unreachable", "paused"},
         NEW about \in STRING \cup Words
  PROVE  /\ Plainly(from, about) \in Line
         /\ Plainly(from, about).from = from /\ ~Plainly(from, about).noise
<1>1. <<>> \in Seq(Nat)
  OBVIOUS
<1>2. \A hints \in Seq(Nat) :
        [from |-> from, about |-> about, noise |-> FALSE, hints |-> hints] \in Line
  BY DEF Line
<1> QED BY <1>1, <1>2 DEF Plainly

\* The lines that stand for no condition are no noise.
LEMMA LinesTyped ==
  /\ Unreachable \in Line /\ Unreachable.from = "unreachable" /\ ~Unreachable.noise
  /\ PausedReason \in Line /\ PausedReason.from = "paused" /\ ~PausedReason.noise
  /\ \A e \in Event : EventLine(e) \in Line /\ EventLine(e).from = "event" /\ ~EventLine(e).noise
<1>1. "object" \in Words
  BY DEF Words
<1>2. \A e \in Event : e.reason \in STRING
  BY DEF Event
<1> QED BY <1>1, <1>2, PlainlyTyped DEF Unreachable, PausedReason, EventLine

\* Bare states are listed as such, and are no noise.
LEMMA BareTyped ==
  ASSUME NEW n, n.conds \in Seq(Condition)
  PROVE  BareStateMessages(n) \in Seq({line \in Line : line.from = "bare" /\ ~line.noise})
<1> DEFINE P == {i \in 1..Len(n.conds) : Failing(n.conds[i])}
           bare == Selected(n.conds, P)
           B == {line \in Line : line.from = "bare" /\ ~line.noise}
           failing == [i \in 1..Len(bare) |-> BareLine(bare[i])]
<1>1. bare \in Seq(Condition)
  BY SelectedKeeps
<1>2. ASSUME NEW c \in Condition PROVE BareLine(c) \in B
  <2>1. c.type \in STRING
    BY DEF Condition
  <2> QED BY <2>1, PlainlyTyped DEF BareLine
<1>3. <<NoConditions>> \in Seq(B) /\ <<>> \in Seq(B)
  <2>1. NoConditions \in B
    <3>1. "conditions" \in Words
      BY DEF Words
    <3>2. NoConditions \in Line /\ NoConditions.from = "bare" /\ ~NoConditions.noise
      BY <3>1, PlainlyTyped DEF NoConditions
    <3> QED BY <3>2
  <2> HIDE DEF B
  <2> QED BY <2>1
<1>4. failing \in Seq(B)
  <2> HIDE DEF bare, B
  <2>1. Len(bare) \in Nat /\ \A i \in 1..Len(bare) : BareLine(bare[i]) \in B
    BY <1>1, <1>2
  <2> HIDE <1>2
  <2> QED BY <2>1
<1>5. BareStateMessages(n) \in {<<>>, failing, <<NoConditions>>}
  BY DEF BareStateMessages, LinesOf
<1> HIDE DEF B, failing
<1> QED BY <1>3, <1>4, <1>5 DEF B

\* A failing condition is never passed over, and a wait without one is told only
\* of an object that has no conditions at all.
LEMMA BareSaysNothing ==
  ASSUME NEW n, n.conds \in Seq(Condition), BareStateMessages(n) = <<>>, ~n.error
  PROVE  \/ State(n) \notin {"Blocked", "Pending"}
         \/ /\ \A i \in 1..Len(n.conds) : ~Failing(n.conds[i])
            /\ State(n) = "Pending" => n.conds # <<>>
<1> DEFINE P == {i \in 1..Len(n.conds) : Failing(n.conds[i])}
           bare == Selected(n.conds, P)
           failing == [i \in 1..Len(bare) |-> BareLine(bare[i])]
<1>1. bare \in Seq(Condition) /\ (bare = <<>> <=> P = {})
  BY SelectedKeeps
<1> HIDE DEF P, bare
<1>2. failing = <<>> <=> bare = <<>>
  BY <1>1
<1>3. State(n) \in {"Blocked", "Pending"} =>
        failing = <<>> /\ ~(n.conds = <<>> /\ State(n) = "Pending")
  <2>1. <<NoConditions>> # <<>>
    OBVIOUS
  <2>2. BareStateMessages(n) =
          IF n.error \/ State(n) \notin {"Blocked", "Pending"} THEN <<>>
          ELSE IF failing # <<>> THEN failing
          ELSE IF n.conds = <<>> /\ State(n) = "Pending" THEN <<NoConditions>>
          ELSE <<>>
    BY DEF BareStateMessages, LinesOf, bare, P
  <2> HIDE DEF failing
  <2> QED BY <2>1, <2>2
<1> QED BY <1>1, <1>2, <1>3 DEF P

\* The status of a type that is present is that of one of the conditions.
LEMMA ByTypeIsOne ==
  ASSUME NEW cs \in Seq(Condition), NEW t
  PROVE  \/ ByType(cs, t) = ""
         \/ \E i \in 1..Len(cs) : cs[i].type = t /\ cs[i].status = ByType(cs, t)
<1> DEFINE hits == {i \in 1..Len(cs) : cs[i].type = t}
<1>1. ByType(cs, t) = IF hits = {} THEN "" ELSE cs[Min(hits)].status
  BY DEF ByType
<1>2. hits \in SUBSET Nat
  <2> HIDE DEF hits
  <2>1. Len(cs) \in Nat
    OBVIOUS
  <2>2. \A i \in 1..Len(cs) : i \in Nat
    BY <2>1
  <2> QED BY <2>2 DEF hits
<1> HIDE DEF hits
<1>3. CASE hits = {}
  BY <1>1, <1>3
<1>4. CASE hits # {}
  <2>1. Min(hits) \in hits
    BY <1>2, <1>4, MinLeast
  <2>2. Min(hits) \in 1..Len(cs) /\ cs[Min(hits)].type = t
    BY <2>1 DEF hits
  <2> QED BY <1>1, <1>4, <2>2
<1> QED BY <1>3, <1>4

\* Of failing conditions only it is said that they block or wait.
LEMMA ClassifyFailing ==
  ASSUME NEW cs \in Seq(Condition), NEW native,
         \A i \in 1..Len(cs) : ~Failing(cs[i])
  PROVE  /\ Classify(native, cs) # "Blocked"
         /\ Classify(native, cs) = "Pending" => ~native
<1> DEFINE present == {ByType(cs, type) : type \in {"Ready", "Synced", "Healthy"}}
<1>1. "False" \notin present /\ "Unknown" \notin present
  <2>1. ASSUME NEW t, ByType(cs, t) \in {"False", "Unknown"} PROVE FALSE
    <3>1. ByType(cs, t) # ""
      BY <2>1
    <3>2. PICK i \in 1..Len(cs) : cs[i].status = ByType(cs, t)
      BY <3>1, ByTypeIsOne, Zenon
    <3> QED BY <2>1, <3>2 DEF Failing
  <2> QED BY <2>1
<1> QED BY <1>1 DEF Classify

-----------------------------------------------------------------------------
(* Attribution.                                                            *)

\* The messages are only reordered, and noise leads only when all are noise.
LEMMA LeadFirstReorders ==
  ASSUME NEW S, NEW msgs \in Seq(S)
  PROVE  /\ LeadFirst(msgs) \in Seq(S) /\ Len(LeadFirst(msgs)) = Len(msgs)
         /\ \A i \in 1..Len(msgs) : \E j \in 1..Len(msgs) : LeadFirst(msgs)[j] = msgs[i]
         /\ \A j \in 1..Len(msgs) : \E i \in 1..Len(msgs) : LeadFirst(msgs)[j] = msgs[i]
         /\ (Len(msgs) # 0 /\ LeadFirst(msgs)[1].noise) => \A i \in 1..Len(msgs) : msgs[i].noise
<1> DEFINE genuine == {i \in 1..Len(msgs) : ~msgs[i].noise}
           first == Min(genuine)
           lead == LeadFirst(msgs)
<1>1. Len(msgs) \in Nat /\ \A i \in 1..Len(msgs) : msgs[i] \in S
  OBVIOUS
<1>2. CASE genuine = {}
  <2>1. lead = msgs
    BY <1>2 DEF LeadFirst
  <2>2. \A i \in 1..Len(msgs) : msgs[i].noise
    BY <1>2
  <2> HIDE DEF lead
  <2>3. \A i \in 1..Len(msgs) : \E j \in 1..Len(msgs) : lead[j] = msgs[i]
    BY <2>1
  <2>4. \A j \in 1..Len(msgs) : \E i \in 1..Len(msgs) : lead[j] = msgs[i]
    BY <2>1
  <2> QED BY <2>1, <2>2, <2>3, <2>4 DEF lead
<1>3. CASE genuine # {}
  <2> DEFINE before == SubSeq(msgs, 1, first - 1)
             after == SubSeq(msgs, first + 1, Len(msgs))
             rest == before \o after
             N == Len(msgs)
  <2>1. genuine \in SUBSET Nat
    BY <1>1
  <2>2. first \in genuine
    BY <1>3, <2>1, MinLeast
  <2>3. first \in 1..N /\ ~msgs[first].noise /\ N \in Nat
    BY <1>1, <2>2
  <2>4. lead = <<msgs[first]>> \o rest
    BY <1>3 DEF LeadFirst, RemoveAt
  <2> HIDE DEF first, lead, genuine, N
  <2>5. before \in Seq(S) /\ Len(before) = first - 1
        /\ \A i \in 1..(first - 1) : before[i] = msgs[i]
    <3>1. \A i \in 1..(first - 1) : msgs[i] \in S
      BY <1>1, <2>3 DEF N
    <3> QED BY <2>3, <3>1, SubSeqProperties
  <2>6. after \in Seq(S) /\ Len(after) = N - first
        /\ \A i \in 1..(N - first) : after[i] = msgs[first + i]
    <3>1. \A i \in (first + 1)..N : msgs[i] \in S
      BY <1>1, <2>3 DEF N
    <3> QED BY <2>3, <3>1, SubSeqProperties DEF N
  <2> HIDE DEF before, after
  <2>7. rest \in Seq(S) /\ Len(rest) = N - 1
        /\ \A i \in 1..(N - 1) : rest[i] = IF i < first THEN msgs[i] ELSE msgs[i + 1]
    <3>1. /\ rest \in Seq(S) /\ Len(rest) = Len(before) + Len(after)
          /\ \A i \in 1..(Len(before) + Len(after)) :
               rest[i] = IF i <= Len(before) THEN before[i] ELSE after[i - Len(before)]
      BY <2>5, <2>6, ConcatProperties
    <3>2. Len(before) + Len(after) = N - 1
      BY <2>3, <2>5, <2>6
    <3> HIDE DEF rest
    <3>3. ASSUME NEW i \in 1..(N - 1)
          PROVE  rest[i] = IF i < first THEN msgs[i] ELSE msgs[i + 1]
      <4>1. CASE i < first
        <5>1. i <= Len(before) /\ i \in 1..(first - 1)
          BY <2>3, <2>5, <4>1
        <5> QED BY <2>5, <3>1, <3>2, <4>1, <5>1
      <4>2. CASE ~(i < first)
        <5>1. ~(i <= Len(before)) /\ i - (first - 1) \in 1..(N - first)
              /\ first + (i - (first - 1)) = i + 1
          BY <2>3, <2>5, <4>2
        <5> QED BY <2>5, <2>6, <3>1, <3>2, <4>2, <5>1
      <4> QED BY <4>1, <4>2
    <3> QED BY <3>1, <3>2, <3>3
  <2> HIDE DEF rest
  <2>8. <<msgs[first]>> \in Seq(S) /\ Len(<<msgs[first]>>) = 1 /\ <<msgs[first]>>[1] = msgs[first]
    BY <1>1, <2>3 DEF N
  <2>9. lead \in Seq(S) /\ Len(lead) = N /\ lead[1] = msgs[first]
        /\ \A i \in 2..N : lead[i] = IF i - 1 < first THEN msgs[i - 1] ELSE msgs[i]
    <3> DEFINE one == <<msgs[first]>>
    <3>1. one \in Seq(S) /\ Len(one) = 1 /\ one[1] = msgs[first]
      BY <2>8
    <3> HIDE DEF one
    <3>2. /\ one \o rest \in Seq(S) /\ Len(one \o rest) = Len(one) + Len(rest)
          /\ \A i \in 1..(Len(one) + Len(rest)) :
               (one \o rest)[i] = IF i <= Len(one) THEN one[i] ELSE rest[i - Len(one)]
      BY <2>7, <3>1, ConcatProperties, ZenonT(40)
    <3>3. lead = one \o rest
      BY <2>4 DEF one
    <3>4. 1 + Len(rest) = N
      BY <2>3, <2>7
    <3>5. ASSUME NEW i \in 2..N
          PROVE  lead[i] = IF i - 1 < first THEN msgs[i - 1] ELSE msgs[i]
      <4>1. i \in 1..(1 + Len(rest)) /\ ~(i <= 1) /\ i - 1 \in 1..(N - 1) /\ (i - 1) + 1 = i
        BY <2>3, <3>4
      <4>2. lead[i] = rest[i - 1]
        BY <3>1, <3>2, <3>3, <4>1
      <4> QED BY <2>7, <4>1, <4>2
    <3>6. lead[1] = msgs[first]
      BY <2>3, <3>1, <3>2, <3>3, <3>4
    <3> QED BY <3>1, <3>2, <3>3, <3>4, <3>5, <3>6
  <2>10. \A i \in 1..N : \E j \in 1..N : lead[j] = msgs[i]
    <3> SUFFICES ASSUME NEW i \in 1..N PROVE \E j \in 1..N : lead[j] = msgs[i]
      OBVIOUS
    <3>1. CASE i = first
      BY <2>3, <2>9, <3>1
    <3>2. CASE i < first
      <4>1. i + 1 \in 2..N /\ (i + 1) - 1 = i /\ i + 1 \in 1..N
        BY <2>3, <3>2
      <4> QED BY <2>9, <3>2, <4>1
    <3>3. CASE i > first
      <4>1. i \in 2..N /\ ~(i - 1 < first)
        BY <2>3, <3>3
      <4> QED BY <2>9, <4>1
    <3> QED BY <2>3, <3>1, <3>2, <3>3
  <2>11. \A j \in 1..N : \E i \in 1..N : lead[j] = msgs[i]
    <3> SUFFICES ASSUME NEW j \in 1..N PROVE \E i \in 1..N : lead[j] = msgs[i]
      OBVIOUS
    <3>1. CASE j = 1
      BY <2>3, <2>9, <3>1
    <3>2. CASE j # 1
      <4>1. j \in 2..N /\ j - 1 \in 1..N
        BY <2>3, <3>2
      <4> QED BY <2>9, <4>1
    <3> QED BY <3>1, <3>2
  <2> QED BY <2>3, <2>9, <2>10, <2>11 DEF lead, N
<1> QED BY <1>2, <1>3

\* The qualifying event is one that qualifies, and there is none only when none
\* does.
LEMMA QualifyingIsBest ==
  ASSUME NEW events \in Seq(Event)
  PROVE  \/ /\ QualifyingEvent(events) = <<>>
            /\ \A i \in 1..Len(events) : ~IsQualifyingEvent(events[i])
         \/ \E i \in 1..Len(events) :
              IsQualifyingEvent(events[i]) /\ QualifyingEvent(events) = <<events[i]>>
<1> DEFINE hits == {i \in 1..Len(events) : IsQualifyingEvent(events[i])}
           over(i, j) == \/ events[i].count > events[j].count
                         \/ /\ events[i].count = events[j].count
                            /\ \/ events[i].last > events[j].last
                               \/ events[i].last = events[j].last /\ i <= j
           best == CHOOSE i \in hits : \A j \in hits : over(i, j)
           R == {pair \in hits \X hits : over(pair[1], pair[2]) /\ pair[1] # pair[2]}
<1>1. QualifyingEvent(events) = IF hits = {} THEN <<>> ELSE <<events[best]>>
  BY DEF QualifyingEvent
<1>2. /\ Len(events) \in Nat
      /\ \A i \in hits : i \in Nat /\ events[i].count \in Nat /\ events[i].last \in Nat
  <2>1. Len(events) \in Nat /\ \A i \in 1..Len(events) : events[i] \in Event
    OBVIOUS
  <2>2. \A e \in Event : e.count \in Nat /\ e.last \in Nat
    BY DEF Event
  <2> QED BY <2>1, <2>2
<1>3. IsFiniteSet(hits)
  <2>1. IsFiniteSet(1..Len(events))
    BY <1>2, FS_Interval
  <2> QED BY <2>1, FS_Subset
<1>4. StrictOrder(hits, R)
  <2>1. \A i, j \in hits : <<i, j>> \in R <=> over(i, j) /\ i # j
    OBVIOUS
  <2> HIDE DEF hits, R
  <2>2. \A i, j \in hits : i # j => over(i, j) \/ over(j, i)
    BY <1>2
  <2>3. \A i, j \in hits : over(i, j) /\ i # j => ~over(j, i)
    BY <1>2
  <2>4. \A i, j, k \in hits : over(i, j) /\ over(j, k) => over(i, k)
    BY <1>2
  <2> HIDE DEF over
  <2>5. \A i, j, k \in hits : <<i, j>> \in R /\ <<j, k>> \in R => <<i, k>> \in R
    BY <2>1, <2>3, <2>4
  <2> QED BY <2>1, <2>2, <2>5 DEF StrictOrder
<1>5. CASE hits # {}
  <2>1. Cardinality(hits) \in Nat /\ Cardinality(hits) # 0
    BY <1>3, <1>5, FS_CardinalityType, FS_EmptySet
  <2>2. 0 \in 0..(Cardinality(hits) - 1)
    BY <2>1
  <2> HIDE DEF hits, R
  <2>3. PICK x \in hits : Cardinality(BeforeIn(hits, R, x)) = 0
    BY <1>3, <1>4, <2>2, PlaceTaken
  <2>4. IsFiniteSet(BeforeIn(hits, R, x))
    BY <1>3, BeforeFinite
  <2>5. BeforeIn(hits, R, x) = {}
    BY <2>3, <2>4, FS_EmptySet
  <2>6. \A j \in hits : j # x => over(x, j)
    <3>1. \A j \in hits : <<j, x>> \notin R
      BY <2>5 DEF BeforeIn
    <3>2. \A j \in hits : j # x => <<x, j>> \in R
      BY <1>4, <3>1 DEF StrictOrder
    <3> HIDE DEF over
    <3> QED BY <3>2 DEF R
  <2>7. over(x, x)
    BY <1>2
  <2> HIDE DEF over
  <2>8. \E i \in hits : \A j \in hits : over(i, j)
    BY <2>6, <2>7
  <2>9. best \in hits
    BY <2>8
  <2> HIDE DEF best
  <2> QED BY <1>1, <1>5, <2>9 DEF hits
<1>6. CASE hits = {}
  BY <1>1, <1>6
<1> QED BY <1>5, <1>6


\* No event: nothing recurs.
LEMMA NothingQualifies == QualifyingEvent(<<>>) = <<>>
<1>1. {i \in 1..Len(<<>>) : IsQualifyingEvent(<<>>[i])} = {}
  OBVIOUS
<1> QED BY <1>1 DEF QualifyingEvent

\* Whether the event wins does not depend on the order of the messages.
LEMMA FromEventLed ==
  ASSUME NEW msgs \in Seq(Line), NEW events
  PROVE  /\ FromEvent(msgs, events) <=> /\ QualifyingEvent(events) # <<>>
                                        /\ \A i \in 1..Len(msgs) : msgs[i].noise
         /\ FromEvent(LeadFirst(msgs), events) <=> FromEvent(msgs, events)
<1> DEFINE lead == LeadFirst(msgs)
           allNoise(s) == \A i \in 1..Len(s) : s[i].noise
<1>1. ASSUME NEW s \in Seq(Line)
      PROVE  (s = <<>> \/ Head(LeadFirst(s)).noise) <=> allNoise(s)
  <2>1. Len(s) \in Nat /\ (s = <<>> <=> Len(s) = 0)
    OBVIOUS
  <2>2. CASE s = <<>>
    BY <2>1, <2>2
  <2>3. CASE s # <<>>
    <3>1. LeadFirst(s) \in Seq(Line) /\ Len(LeadFirst(s)) # 0 /\ 1 \in 1..Len(s)
      BY <2>1, <2>3, LeadFirstReorders
    <3>2. Head(LeadFirst(s)) = LeadFirst(s)[1]
      BY <3>1
    <3>3. LeadFirst(s)[1].noise => allNoise(s)
      BY <2>1, <2>3, LeadFirstReorders
    <3>4. PICK i \in 1..Len(s) : LeadFirst(s)[1] = s[i]
      BY <3>1, LeadFirstReorders
    <3> QED BY <2>3, <3>2, <3>3, <3>4
  <2> QED BY <2>2, <2>3
<1>2. lead \in Seq(Line) /\ (allNoise(lead) <=> allNoise(msgs))
  <2>1. lead \in Seq(Line) /\ Len(lead) = Len(msgs)
    BY LeadFirstReorders
  <2>2. /\ \A i \in 1..Len(msgs) : \E j \in 1..Len(msgs) : lead[j] = msgs[i]
        /\ \A j \in 1..Len(msgs) : \E i \in 1..Len(msgs) : lead[j] = msgs[i]
    BY LeadFirstReorders
  <2> HIDE DEF lead
  <2> QED BY <2>1, <2>2
<1>3. FromEvent(msgs, events) <=> QualifyingEvent(events) # <<>> /\ allNoise(msgs)
  BY <1>1 DEF FromEvent
<1>4. FromEvent(lead, events) <=> QualifyingEvent(events) # <<>> /\ allNoise(lead)
  BY <1>1, <1>2 DEF FromEvent
<1> QED BY <1>2, <1>3, <1>4

\* What leads the reasons is what the headline takes: a genuine message, or the
\* recurring event, or noise when there is nothing else.
LEMMA SaidLeads ==
  ASSUME NEW msgs \in Seq(Cause), NEW events \in Seq(Event)
  PROVE  LET said == ReasonsWithEvent(LeadFirst(msgs), events)
         IN  /\ said \in Seq(Line)
             /\ First(said) = Attribute(msgs, events)
             /\ said # <<>> => said[1].from \in {"condition", "rule", "event"}
             /\ said # <<>> /\ said[1].noise =>
                  /\ \A i \in 1..Len(msgs) : msgs[i].noise
                  /\ \A i \in 1..Len(events) : ~IsQualifyingEvent(events[i])
             /\ (\E i \in 1..Len(events) : IsQualifyingEvent(events[i])) =>
                  \E l \in 1..Len(said) : said[l].from = "event"
<1> DEFINE lead == LeadFirst(msgs)
           q == QualifyingEvent(events)
           line == EventLine(q[1])
           said == ReasonsWithEvent(lead, events)
<1>1. msgs \in Seq(Line) /\ Cause \subseteq Line /\ \A c \in Cause : c.from \in {"condition", "rule"}
  <2>1. Cause \subseteq Line /\ \A c \in Cause : c.from \in {"condition", "rule"}
    BY DEF Cause
  <2> QED BY <2>1, SeqMonotonic
<1>2. /\ lead \in Seq(Cause) /\ lead \in Seq(Line) /\ Len(lead) = Len(msgs)
      /\ (Len(msgs) # 0 /\ lead[1].noise) => \A i \in 1..Len(msgs) : msgs[i].noise
  <2>1. lead \in Seq(Cause) /\ Len(lead) = Len(msgs)
    BY LeadFirstReorders
  <2>2. lead \in Seq(Line)
    BY <1>1, <2>1, SeqMonotonic
  <2> QED BY <2>1, <2>2, LeadFirstReorders
<1>3. /\ FromEvent(msgs, events) <=> q # <<>> /\ \A i \in 1..Len(msgs) : msgs[i].noise
      /\ FromEvent(lead, events) <=> FromEvent(msgs, events)
  BY <1>1, FromEventLed
<1>4. CASE q = <<>>
  <2>1. said = lead
    BY <1>4 DEF ReasonsWithEvent
  <2>2. Attribute(msgs, events) = First(lead)
    BY <1>3, <1>4 DEF Attribute
  <2>3. \A i \in 1..Len(events) : ~IsQualifyingEvent(events[i])
    <3>1. \A e : <<e>> # <<>>
      OBVIOUS
    <3> QED BY <1>4, <3>1, QualifyingIsBest
  <2> HIDE DEF lead, said
  <2>4. lead # <<>> => Len(msgs) # 0 /\ lead[1] \in Cause
    BY <1>2
  <2>5. lead # <<>> => lead[1].from \in {"condition", "rule"}
    BY <1>1, <2>4
  <2>6. lead # <<>> /\ lead[1].noise => \A i \in 1..Len(msgs) : msgs[i].noise
    BY <1>2, <2>4
  <2> QED BY <1>2, <2>1, <2>2, <2>3, <2>5, <2>6 DEF said, lead
<1>5. CASE q # <<>>
  <2>1. PICK e \in 1..Len(events) : q = <<events[e]>>
    BY <1>5, QualifyingIsBest
  <2>2. q[1] \in Event
    BY <2>1
  <2>3. line \in Line /\ line.from = "event" /\ ~line.noise
    BY <2>2, LinesTyped
  <2> HIDE DEF lead, q, line
  <2>4. ~Contains(lead, line)
    <3>1. \A j \in 1..Len(lead) : lead[j] \in Cause
      BY <1>2
    <3>2. \A j \in 1..Len(lead) : lead[j].from # "event"
      BY <1>1, <3>1
    <3> QED BY <2>3, <3>2 DEF Contains
  <2>5. said = IF FromEvent(lead, events) THEN <<line>> \o lead ELSE Append(lead, line)
    BY <1>5, <2>4 DEF ReasonsWithEvent, line, q
  <2>6. Attribute(msgs, events) = IF FromEvent(msgs, events) THEN <<line>> ELSE First(lead)
    BY DEF Attribute, line, q, lead
  <2>7. CASE FromEvent(msgs, events)
    <3>1. said = <<line>> \o lead
      BY <1>3, <2>5, <2>7
    <3>2. <<line>> \in Seq(Line) /\ Len(<<line>>) = 1 /\ <<line>>[1] = line
      BY <2>3
    <3>3. said \in Seq(Line) /\ Len(said) = 1 + Len(lead) /\ said[1] = line
      <4> HIDE DEF said
      <4>1. /\ <<line>> \o lead \in Seq(Line)
            /\ Len(<<line>> \o lead) = Len(<<line>>) + Len(lead)
            /\ \A i \in 1..(Len(<<line>>) + Len(lead)) :
                 (<<line>> \o lead)[i] = IF i <= Len(<<line>>) THEN <<line>>[i]
                                         ELSE lead[i - Len(<<line>>)]
        BY <1>2, <3>2, ConcatProperties
      <4>2. Len(lead) \in Nat
        BY <1>2
      <4> QED BY <3>1, <3>2, <4>1, <4>2
    <3> HIDE DEF said
    <3>4. said # <<>> /\ Head(said) = line /\ 1 \in 1..Len(said)
      <4>1. Len(lead) \in Nat
        BY <1>2
      <4> QED BY <3>3, <4>1
    <3>5. First(said) = <<line>>
      BY <3>4 DEF First
    <3> QED BY <2>3, <2>6, <2>7, <3>3, <3>4, <3>5 DEF said, lead
  <2>8. CASE ~FromEvent(msgs, events)
    <3>1. said = Append(lead, line)
      BY <1>3, <2>5, <2>8
    <3>2. ~(\A j \in 1..Len(msgs) : msgs[j].noise)
      BY <1>3, <1>5, <2>8
    <3>3. Len(msgs) # 0 /\ Len(lead) \in Nat
      BY <1>2, <3>2
    <3>4. ~lead[1].noise
      BY <1>2, <3>2, <3>3
    <3> HIDE DEF said
    <3>5. /\ said \in Seq(Line) /\ Len(said) = Len(lead) + 1 /\ said[Len(said)] = line
          /\ said[1] = lead[1]
      BY <1>2, <2>3, <3>1, <3>3, AppendProperties
    <3>6. said # <<>> /\ lead # <<>> /\ Head(said) = Head(lead) /\ Len(said) \in 1..Len(said)
      BY <1>2, <3>3, <3>5
    <3>7. First(said) = First(lead)
      BY <3>6 DEF First
    <3>8. lead[1].from \in {"condition", "rule"}
      <4>1. lead[1] \in Cause
        BY <1>2, <3>3
      <4> QED BY <1>1, <4>1
    <3> QED BY <2>3, <2>6, <2>8, <3>4, <3>5, <3>6, <3>7, <3>8 DEF said, lead
  <2> QED BY <2>7, <2>8
<1> QED BY <1>4, <1>5


\* Trimming keeps a recurring composition error in view.
LEMMA TrimKeeps ==
  ASSUME NEW events \in Seq(Event)
  PROVE  /\ TrimEvents(events) \in Seq(Event)
         /\ (\E i \in 1..Len(events) : IsQualifyingEvent(events[i])) =>
              \E e \in 1..Len(TrimEvents(events)) : IsQualifyingEvent(TrimEvents(events)[e])
<1> DEFINE newest == SubSeq(events, Len(events) - DisplayEvents + 1, Len(events))
           q == QualifyingEvent(events)
           trimmed == TrimEvents(events)
<1>1. Len(events) \in Nat /\ DisplayEvents \in Nat \ {0}
      /\ \A i \in 1..Len(events) : events[i] \in Event
  BY AttributionAssumption
<1>2. CASE Len(events) <= DisplayEvents
  BY <1>2 DEF TrimEvents
<1>3. CASE ~(Len(events) <= DisplayEvents)
  <2>1. newest \in Seq(Event)
    <3>1. /\ Len(events) - DisplayEvents + 1 \in Int /\ Len(events) \in Int
          /\ \A i \in (Len(events) - DisplayEvents + 1)..Len(events) : i \in 1..Len(events)
      BY <1>1, <1>3
    <3>2. \A i \in (Len(events) - DisplayEvents + 1)..Len(events) : events[i] \in Event
      BY <1>1, <3>1
    <3> QED BY <3>1, <3>2, SubSeqProperties
  <2>2. trimmed = IF q # <<>> /\ ~Contains(newest, q[1]) THEN q \o newest ELSE newest
    BY <1>3 DEF TrimEvents
  <2> HIDE DEF newest, trimmed, q
  <2>3. CASE q = <<>>
    <3>1. \A i \in 1..Len(events) : ~IsQualifyingEvent(events[i])
      <4>1. \A e : <<e>> # <<>>
        OBVIOUS
      <4> QED BY <2>3, <4>1, QualifyingIsBest DEF q
    <3> QED BY <2>1, <2>2, <2>3, <3>1 DEF trimmed
  <2>4. CASE q # <<>>
    <3>1. PICK i \in 1..Len(events) : IsQualifyingEvent(events[i]) /\ q = <<events[i]>>
      BY <2>4, QualifyingIsBest DEF q
    <3>2. q \in Seq(Event) /\ Len(q) = 1 /\ q[1] = events[i]
      BY <1>1, <3>1
    <3>3. CASE Contains(newest, q[1])
      <4>1. PICK e \in 1..Len(newest) : newest[e] = q[1]
        BY <3>3 DEF Contains
      <4>2. trimmed = newest
        BY <2>2, <3>3
      <4> QED BY <2>1, <3>1, <3>2, <4>1, <4>2 DEF trimmed
    <3>4. CASE ~Contains(newest, q[1])
      <4>1. trimmed = q \o newest
        BY <2>2, <2>4, <3>4
      <4>2. /\ q \o newest \in Seq(Event) /\ Len(q \o newest) = Len(q) + Len(newest)
            /\ \A j \in 1..(Len(q) + Len(newest)) :
                 (q \o newest)[j] = IF j <= Len(q) THEN q[j] ELSE newest[j - Len(q)]
        BY <2>1, <3>2, ConcatProperties
      <4>3. Len(newest) \in Nat
        BY <2>1
      <4>4. 1 \in 1..Len(trimmed) /\ trimmed[1] = events[i] /\ trimmed \in Seq(Event)
        BY <3>2, <4>1, <4>2, <4>3
      <4> QED BY <3>1, <4>4 DEF trimmed
    <3> QED BY <3>3, <3>4
  <2> QED BY <2>3, <2>4
<1> QED BY <1>2, <1>3

-----------------------------------------------------------------------------
(* What is shown of a decoded error.                                       *)

\* LastN keeps the end of a sequence.
LEMMA LastNKeeps ==
  ASSUME NEW S, NEW s \in Seq(S), NEW n \in Nat \ {0}
  PROVE  /\ LastN(s, n) \in Seq(S)
         /\ Len(LastN(s, n)) = IF Len(s) <= n THEN Len(s) ELSE n
         /\ \A k \in 1..Len(LastN(s, n)) : LastN(s, n)[k] = s[Len(s) - Len(LastN(s, n)) + k]
<1>1. Len(s) \in Nat /\ \A i \in 1..Len(s) : s[i] \in S
  OBVIOUS
<1>2. CASE Len(s) <= n
  BY <1>1, <1>2 DEF LastN
<1>3. CASE ~(Len(s) <= n)
  <2> DEFINE m == Len(s) - n + 1
             r == SubSeq(s, m, Len(s))
  <2>1. LastN(s, n) = r
    BY <1>3 DEF LastN
  <2>2. m \in Int /\ Len(s) \in Int /\ m <= Len(s) /\ Len(s) - m + 1 = n
        /\ \A i \in m..Len(s) : i \in 1..Len(s)
    BY <1>1, <1>3
  <2>3. \A i \in m..Len(s) : s[i] \in S
    BY <1>1, <2>2
  <2>4. r \in Seq(S) /\ Len(r) = n /\ \A i \in 1..(Len(s) - m + 1) : r[i] = s[m + i - 1]
    <3> HIDE DEF m
    <3> QED BY <2>2, <2>3, SubSeqProperties
  <2> HIDE DEF r
  <2>5. \A k \in 1..n : m + k - 1 = Len(s) - n + k
    BY <1>1
  <2>6. \A k \in 1..n : r[k] = s[Len(s) - n + k]
    BY <2>2, <2>4, <2>5
  <2> QED BY <1>3, <2>1, <2>4, <2>6
<1> QED BY <1>2, <1>3

\* r is s from a to b, which are its first and last element that is no blank.
TrimmedTo(S, s, blanks, r, a, b) ==
  /\ a \in 1..Len(s) /\ b \in 1..Len(s)
  /\ s[a] \notin blanks /\ s[b] \notin blanks /\ a <= b
  /\ \A i \in 1..Len(s) : s[i] \notin blanks => a <= i /\ i <= b
  /\ r \in Seq(S) /\ Len(r) = b - a + 1
  /\ \A k \in 1..(b - a + 1) : r[k] = s[a + k - 1]

\* Trimming blank ends leaves nothing only when there is nothing but blanks.
LEMMA TrimKeepsSolid ==
  ASSUME NEW S, NEW s \in Seq(S), NEW blanks
  PROVE  \/ /\ TrimBlankEnds(s, blanks) = <<>>
            /\ \A i \in 1..Len(s) : s[i] \in blanks
         \/ \E a, b : TrimmedTo(S, s, blanks, TrimBlankEnds(s, blanks), a, b)
<1> DEFINE solid == {i \in 1..Len(s) : s[i] \notin blanks}
           a == Min(solid)
           b == Max(solid)
<1>1. TrimBlankEnds(s, blanks) = IF solid = {} THEN <<>> ELSE SubSeq(s, a, b)
  BY DEF TrimBlankEnds
<1>2. Len(s) \in Nat /\ \A i \in 1..Len(s) : s[i] \in S
  OBVIOUS
<1>3. CASE solid = {}
  BY <1>1, <1>3
<1>4. CASE solid # {}
  <2>1. solid \in SUBSET Nat /\ solid \in SUBSET (0..Len(s))
    BY <1>2
  <2> HIDE DEF solid
  <2>2. a \in solid /\ (\A i \in solid : a <= i) /\ b \in solid /\ \A i \in solid : i <= b
    BY <1>2, <1>4, <2>1, MinLeast, MaxGreatest
  <2> HIDE DEF a, b
  <2>3. a \in 1..Len(s) /\ b \in 1..Len(s) /\ s[a] \notin blanks /\ s[b] \notin blanks
    BY <2>2 DEF solid
  <2>4. a <= b
    BY <2>2
  <2>5. \A i \in 1..Len(s) : s[i] \notin blanks => a <= i /\ i <= b
    BY <2>2 DEF solid
  <2>6. \A i \in a..b : s[i] \in S
    BY <1>2, <2>3
  <2>7. /\ SubSeq(s, a, b) \in Seq(S) /\ Len(SubSeq(s, a, b)) = b - a + 1
        /\ \A k \in 1..(b - a + 1) : SubSeq(s, a, b)[k] = s[a + k - 1]
    BY <2>3, <2>4, <2>6, SubSeqProperties
  <2>8. TrimmedTo(S, s, blanks, TrimBlankEnds(s, blanks), a, b)
    BY <1>1, <1>4, <2>3, <2>4, <2>5, <2>7 DEF TrimmedTo
  <2> QED BY <2>8
<1> QED BY <1>3, <1>4

\* The budget keeps both ends, and counts what it takes from between.
LEMMA BudgetKeepsEnds ==
  ASSUME NEW s \in Seq(Int)
  PROVE  LET r == ApplyBudget(s)
             last == MaxActionableLines - KeepFirst - 1
             omitted == Len(s) - KeepFirst - last
         IN  /\ r \in Seq(Int) /\ Len(r) <= MaxActionableLines
             /\ \/ r = s
                \/ /\ Len(s) > MaxActionableLines /\ Len(r) = MaxActionableLines
                   /\ \A k \in 1..KeepFirst : r[k] = s[k]
                   /\ r[KeepFirst + 1] = -omitted
                   /\ \A k \in 1..last : r[KeepFirst + 1 + k] = s[KeepFirst + omitted + k]
<1> DEFINE last == MaxActionableLines - KeepFirst - 1
           omitted == Len(s) - KeepFirst - last
           head == SubSeq(s, 1, KeepFirst)
           tail == LastN(s, last)
           r == ApplyBudget(s)
<1>1. /\ Len(s) \in Nat /\ KeepFirst \in Nat \ {0} /\ MaxActionableLines \in Nat
      /\ last \in Nat \ {0} /\ \A i \in 1..Len(s) : s[i] \in Int
  BY ActionableAssumption
<1>2. CASE Len(s) <= MaxActionableLines
  BY <1>2 DEF ApplyBudget
<1>3. CASE ~(Len(s) <= MaxActionableLines)
  <2>1. r = (head \o <<-omitted>>) \o tail
    BY <1>3 DEF ApplyBudget
  <2>2. omitted \in Int /\ last < Len(s) /\ KeepFirst < Len(s) /\ Len(s) - last = KeepFirst + omitted
        /\ KeepFirst + 1 + last = MaxActionableLines
    BY <1>1, <1>3
  <2>3. head \in Seq(Int) /\ Len(head) = KeepFirst /\ \A k \in 1..KeepFirst : head[k] = s[k]
    <3>1. \A i \in 1..KeepFirst : s[i] \in Int
      BY <1>1, <2>2
    <3>2. /\ head \in Seq(Int) /\ Len(head) = KeepFirst - 1 + 1
          /\ \A k \in 1..(KeepFirst - 1 + 1) : head[k] = s[1 + k - 1]
      BY <1>1, <3>1, SubSeqProperties
    <3> QED BY <1>1, <3>2
  <2>4. tail \in Seq(Int) /\ Len(tail) = last /\ \A k \in 1..last : tail[k] = s[KeepFirst + omitted + k]
    <3> HIDE DEF last, omitted
    <3>1. /\ tail \in Seq(Int) /\ Len(tail) = IF Len(s) <= last THEN Len(s) ELSE last
          /\ \A k \in 1..Len(tail) : tail[k] = s[Len(s) - Len(tail) + k]
      BY <1>1, LastNKeeps
    <3>2. Len(tail) = last
      BY <1>1, <2>2, <3>1
    <3> QED BY <2>2, <3>1, <3>2
  <2> HIDE DEF head, tail, omitted, last
  <2> DEFINE one == <<-omitted>>
             front == head \o one
  <2>5. one \in Seq(Int) /\ Len(one) = 1 /\ one[1] = -omitted
    BY <2>2
  <2> HIDE DEF one
  <2>6. /\ front \in Seq(Int) /\ Len(front) = Len(head) + Len(one)
        /\ \A k \in 1..(Len(head) + Len(one)) :
             front[k] = IF k <= Len(head) THEN head[k] ELSE one[k - Len(head)]
    BY <2>3, <2>5, ConcatProperties
  <2> HIDE DEF front
  <2>7. /\ Len(front) = KeepFirst + 1 /\ front[KeepFirst + 1] = -omitted
        /\ \A k \in 1..KeepFirst : front[k] = s[k]
    <3>1. Len(front) = KeepFirst + 1
      BY <2>3, <2>5, <2>6
    <3>2. front[KeepFirst + 1] = one[1]
      <4>1. KeepFirst + 1 \in 1..(Len(head) + Len(one)) /\ ~(KeepFirst + 1 <= Len(head))
            /\ (KeepFirst + 1) - Len(head) = 1
        BY <1>1, <2>3, <2>5
      <4> QED BY <2>6, <4>1
    <3>3. ASSUME NEW k \in 1..KeepFirst PROVE front[k] = s[k]
      <4>1. k \in 1..(Len(head) + Len(one)) /\ k <= Len(head)
        BY <1>1, <2>3, <2>5
      <4> QED BY <2>3, <2>6, <4>1
    <3> QED BY <2>5, <3>1, <3>2, <3>3
  <2>8. /\ front \o tail \in Seq(Int) /\ Len(front \o tail) = Len(front) + Len(tail)
        /\ \A k \in 1..(Len(front) + Len(tail)) :
             (front \o tail)[k] = IF k <= Len(front) THEN front[k] ELSE tail[k - Len(front)]
    BY <2>4, <2>6, ConcatProperties, SMTT(30)
  <2>9. r = front \o tail
    BY <2>1 DEF front, one
  <2> HIDE DEF r
  <2>10. Len(r) = MaxActionableLines /\ r \in Seq(Int)
    BY <2>2, <2>4, <2>7, <2>8, <2>9
  <2>11. ASSUME NEW k \in 1..(KeepFirst + 1) PROVE r[k] = front[k]
    <3>1. k \in 1..(Len(front) + Len(tail)) /\ k <= Len(front)
      BY <1>1, <2>4, <2>7
    <3> QED BY <2>8, <2>9, <3>1
  <2>12. ASSUME NEW k \in 1..last PROVE r[KeepFirst + 1 + k] = s[KeepFirst + omitted + k]
    <3>1. KeepFirst + 1 + k \in 1..(Len(front) + Len(tail)) /\ ~(KeepFirst + 1 + k <= Len(front))
          /\ (KeepFirst + 1 + k) - Len(front) = k
      BY <1>1, <2>4, <2>7
    <3> QED BY <2>4, <2>8, <2>9, <3>1
  <2>13. r[KeepFirst + 1] = -omitted /\ \A k \in 1..KeepFirst : r[k] = s[k]
    <3>1. KeepFirst + 1 \in 1..(KeepFirst + 1) /\ \A k \in 1..KeepFirst : k \in 1..(KeepFirst + 1)
      BY <1>1
    <3> QED BY <2>7, <2>11, <3>1
  <2>14. Len(s) > MaxActionableLines /\ Len(r) <= MaxActionableLines
    BY <1>1, <1>3, <2>10
  <2> QED BY <2>10, <2>12, <2>13, <2>14 DEF r, omitted, last
<1> QED BY <1>2, <1>3


\* Of an error with an error line: from the first one on, everything but logs,
\* to the last that is not blank, but for what the budget takes and counts.
LEMMA ErrorsShown ==
  ASSUME NEW lines \in Lines,
         NEW error \in 1..Len(lines), lines[error] = "error"
  PROVE  LET shown == ExtractActionable(lines)
             lost  == {i \in shown[1]..shown[Len(shown)] : lines[i] # "log"} \ Range(shown)
         IN  /\ shown \in Seq(Int) /\ Len(shown) \in 1..MaxActionableLines
             /\ lines[shown[1]] = "error"
             /\ \A i \in 1..Len(lines) : lines[i] = "error" => shown[1] <= i
             /\ \A i \in 1..Len(lines) : lines[i] \in {"error", "plain"} => i <= shown[Len(shown)]
             /\ lost = {} \/ -Cardinality(lost) \in Range(shown)
<1> DEFINE errors == {i \in 1..Len(lines) : lines[i] = "error"}
           logs   == {i \in 1..Len(lines) : lines[i] = "log"}
           blanks == {i \in 1..Len(lines) : lines[i] = "blank"}
           P == {i \in (1..Len(lines)) \ logs : \E e \in errors : e <= i}
           all == InOrder(P)
           N == Cardinality(P)
           s == TrimBlankEnds(all, blanks)
           shown == ExtractActionable(lines)
           lost == {i \in shown[1]..shown[Len(shown)] : lines[i] # "log"} \ Range(shown)
           first == Min(errors)
<1>1. shown = ApplyBudget(s)
  <2>1. errors # {}
    OBVIOUS
  <2> QED BY <2>1 DEF ExtractActionable
<1>2. Len(lines) \in Nat /\ \A i \in 1..Len(lines) : lines[i] \in {"error", "log", "plain", "blank"}
  BY DEF Lines
<1>3. /\ first \in 1..Len(lines) /\ lines[first] = "error"
      /\ \A i \in 1..Len(lines) : lines[i] = "error" => first <= i
  <2>1. errors \in SUBSET Nat /\ errors # {}
    BY <1>2
  <2>2. first \in errors /\ \A i \in errors : first <= i
    <3> HIDE DEF errors
    <3> QED BY <2>1, MinLeast
  <2> HIDE DEF first
  <2> QED BY <2>2
<1>4. \A i : i \in P <=> i \in 1..Len(lines) /\ lines[i] # "log" /\ first <= i
  <2> HIDE DEF first
  <2>1. ASSUME NEW i \in P PROVE first <= i
    <3>1. PICK e \in errors : e <= i
      OBVIOUS
    <3> QED BY <1>2, <1>3, <3>1
  <2>2. ASSUME NEW i \in 1..Len(lines), lines[i] # "log", first <= i PROVE i \in P
    <3>1. first \in errors
      BY <1>3
    <3> QED BY <2>2, <3>1
  <2> QED BY <2>1, <2>2
<1>5. /\ N \in Nat /\ all \in [1..N -> P]
      /\ \A i \in P : \E n \in 1..N : all[n] = i
      /\ \A m, n \in 1..N : m < n => all[m] < all[n]
  <2>1. IsFiniteSet(1..Len(lines))
    BY <1>2, FS_Interval
  <2>2. P \in SUBSET (1..Len(lines)) /\ P \in SUBSET Nat
    BY <1>2
  <2> HIDE DEF P
  <2>3. IsFiniteSet(P)
    BY <2>1, <2>2, FS_Subset
  <2> QED BY <2>2, <2>3, InOrderSorts
<1> HIDE DEF first, errors, logs, P, all, N, s, shown, lost
<1>6. all \in Seq(Int) /\ Len(all) = N /\ \A n \in 1..N : all[n] \in P /\ all[n] \in 1..Len(lines)
  <2>1. \A n \in 1..N : all[n] \in P /\ all[n] \in 1..Len(lines) /\ all[n] \in Int
    BY <1>2, <1>4, <1>5
  <2>2. all \in [1..N -> Int]
    BY <1>5, <2>1
  <2> QED BY <1>5, <2>1, <2>2
<1>7. 1 \in 1..N /\ all[1] = first
  <2>1. first \in P
    BY <1>2, <1>3, <1>4
  <2>2. PICK n \in 1..N : all[n] = first
    BY <1>5, <2>1
  <2>3. 1 \in 1..N
    BY <1>5, <2>2
  <2>4. first <= all[1]
    BY <1>4, <1>6, <2>3
  <2>5. n = 1
    <3>1. n # 1 => all[1] < all[n]
      BY <1>5, <2>3
    <3> QED BY <1>2, <1>3, <1>6, <2>2, <2>3, <2>4, <3>1
  <2> QED BY <2>2, <2>3, <2>5
<1>8. first \notin blanks /\ \A i \in 1..Len(lines) : i \notin blanks <=> lines[i] # "blank"
  BY <1>3
<1> HIDE DEF blanks
<1>9. PICK b \in 1..N :
        /\ \A k \in 1..N : all[k] \notin blanks => k <= b
        /\ s \in Seq(Int) /\ Len(s) = b /\ \A k \in 1..b : s[k] = all[k]
  <2>1. ~\A i \in 1..Len(all) : all[i] \in blanks
    BY <1>6, <1>7, <1>8
  <2>2. PICK a, b : TrimmedTo(Int, all, blanks, s, a, b)
    <3>1. all \in Seq(Int)
      BY <1>6
    <3> QED BY <2>1, <3>1, TrimKeepsSolid DEF s
  <2>3. /\ a \in 1..N /\ b \in 1..N /\ a <= b
        /\ \A i \in 1..N : all[i] \notin blanks => a <= i /\ i <= b
        /\ s \in Seq(Int) /\ Len(s) = b - a + 1
        /\ \A k \in 1..(b - a + 1) : s[k] = all[a + k - 1]
    BY <1>6, <2>2 DEF TrimmedTo
  <2>4. a = 1
    BY <1>5, <1>7, <1>8, <2>3
  <2>5. b - a + 1 = b /\ \A k \in 1..b : a + k - 1 = k
    BY <1>5, <2>3, <2>4
  <2>6. /\ \A k \in 1..N : all[k] \notin blanks => k <= b
        /\ s \in Seq(Int) /\ Len(s) = b /\ \A k \in 1..b : s[k] = all[k]
    BY <2>3, <2>5
  <2> QED BY <2>3, <2>6
<1>10. \A i \in 1..Len(lines) : lines[i] \in {"error", "plain"} => i <= s[b]
  <2> SUFFICES ASSUME NEW i \in 1..Len(lines), lines[i] \in {"error", "plain"} PROVE i <= s[b]
    OBVIOUS
  <2>1. s[b] = all[b] /\ all[b] \in 1..Len(lines) /\ first <= all[b] /\ b \in Nat
    BY <1>4, <1>5, <1>6, <1>9
  <2>2. CASE first <= i
    <3>1. i \in P
      BY <1>4, <2>2
    <3>2. PICK k \in 1..N : all[k] = i
      BY <1>5, <3>1
    <3>3. k <= b
      BY <1>8, <1>9, <3>2
    <3>4. k = b \/ all[k] < all[b]
      BY <1>5, <3>3
    <3> QED BY <1>2, <2>1, <3>2, <3>4
  <2>3. CASE ~(first <= i)
    BY <1>2, <1>3, <2>1, <2>3
  <2> QED BY <2>2, <2>3
\* The lines in between are the elements of s.
<1>11. \A i : i \in s[1]..s[b] /\ lines[i] # "log" <=> \E k \in 1..b : s[k] = i
  <2>1. s[1] = first /\ s[b] = all[b] /\ b \in Nat /\ all[b] \in 1..Len(lines) /\ 1 \in 1..b
    BY <1>5, <1>6, <1>7, <1>9
  <2>2. ASSUME NEW i \in s[1]..s[b], lines[i] # "log" PROVE \E k \in 1..b : s[k] = i
    <3>1. i \in 1..Len(lines) /\ first <= i /\ i <= all[b]
      BY <1>2, <1>3, <2>1, <2>2
    <3>2. i \in P
      BY <1>4, <2>2, <3>1
    <3>3. PICK k \in 1..N : all[k] = i
      BY <1>5, <3>2
    <3>4. k <= b
      <4>1. b < k => all[b] < all[k]
        BY <1>5
      <4> QED BY <1>2, <1>5, <2>1, <3>1, <3>3, <4>1
    <3>5. k \in 1..b
      BY <1>5, <3>4
    <3> QED BY <1>9, <3>3, <3>5
  <2>3. ASSUME NEW k \in 1..b PROVE s[k] \in s[1]..s[b] /\ lines[s[k]] # "log"
    <3>1. k \in 1..N /\ s[k] = all[k]
      BY <1>5, <1>9
    <3>2. all[k] \in P /\ all[k] \in 1..Len(lines) /\ lines[all[k]] # "log" /\ first <= all[k]
      BY <1>4, <1>6, <3>1
    <3>3. k = b \/ all[k] < all[b]
      BY <1>5, <3>1
    <3>4. all[k] <= all[b]
      BY <1>2, <2>1, <3>2, <3>3
    <3> QED BY <1>2, <1>3, <2>1, <3>1, <3>2, <3>4
  <2> QED BY <2>2, <2>3
<1>12. \A k, m \in 1..b : s[k] = s[m] => k = m
  <2> SUFFICES ASSUME NEW k \in 1..b, NEW m \in 1..b, s[k] = s[m] PROVE k = m
    OBVIOUS
  <2>1. k \in 1..N /\ m \in 1..N
    BY <1>5
  <2>2. s[k] = all[k] /\ s[m] = all[m] /\ all[k] \in Int
    BY <1>2, <1>6, <1>9, <2>1
  <2>3. ~(k < m) /\ ~(m < k)
    <3>1. (k < m => all[k] < all[m]) /\ (m < k => all[m] < all[k])
      BY <1>5, <2>1
    <3>2. all[k] = all[m] /\ all[k] \in Int
      BY <2>2
    <3> QED BY <3>1, <3>2
  <2> QED BY <1>5, <2>1, <2>3
<1> DEFINE last == MaxActionableLines - KeepFirst - 1
           omitted == Len(s) - KeepFirst - last
<1>13. /\ shown \in Seq(Int) /\ Len(shown) <= MaxActionableLines
       /\ \/ shown = s
          \/ /\ Len(s) > MaxActionableLines /\ Len(shown) = MaxActionableLines
             /\ \A k \in 1..KeepFirst : shown[k] = s[k]
             /\ shown[KeepFirst + 1] = -omitted
             /\ \A k \in 1..last : shown[KeepFirst + 1 + k] = s[KeepFirst + omitted + k]
  BY <1>1, <1>9, BudgetKeepsEnds
<1>14. /\ KeepFirst \in Nat \ {0} /\ last \in Nat \ {0} /\ b \in Nat \ {0}
       /\ MaxActionableLines \in Nat /\ MaxActionableLines = KeepFirst + 1 + last
       /\ omitted \in Int /\ b = KeepFirst + omitted + last
  BY <1>5, <1>9, ActionableAssumption
<1> HIDE DEF last, omitted
<1>15. Len(shown) \in 1..MaxActionableLines /\ shown[1] = s[1] /\ shown[Len(shown)] = s[b]
  <2>1. CASE shown = s
    BY <1>9, <1>13, <1>14, <2>1
  <2>2. CASE shown # s
    <3>1. /\ Len(shown) = MaxActionableLines
          /\ \A k \in 1..KeepFirst : shown[k] = s[k]
          /\ \A k \in 1..last : shown[KeepFirst + 1 + k] = s[KeepFirst + omitted + k]
      BY <1>13, <2>2
    <3>2. 1 \in 1..KeepFirst /\ last \in 1..last /\ MaxActionableLines \in 1..MaxActionableLines
      BY <1>14
    <3>3. shown[1] = s[1]
      BY <3>1, <3>2
    <3>4. shown[KeepFirst + 1 + last] = s[KeepFirst + omitted + last]
      BY <3>1, <3>2
    <3> QED BY <1>14, <3>1, <3>2, <3>3, <3>4
  <2> QED BY <2>1, <2>2
<1>16. s[1] = first /\ 1 \in 1..b
  BY <1>5, <1>7, <1>9
<1>17. Range(shown) = {shown[k] : k \in 1..Len(shown)}
  BY <1>13 DEF Range
<1>18. \A i : i \in lost <=> (\E k \in 1..b : s[k] = i) /\ i \notin Range(shown)
  BY <1>11, <1>15 DEF lost
<1>19. lost = {} \/ -Cardinality(lost) \in Range(shown)
  <2>1. CASE shown = s
    <3>1. \A k \in 1..b : s[k] \in Range(shown)
      BY <1>9, <1>17, <2>1
    <3> QED BY <1>18, <3>1
  <2>2. CASE shown # s
    <3> DEFINE from == KeepFirst + 1
               to == KeepFirst + omitted
               f == [k \in from..to |-> s[k]]
    <3>1. /\ b > MaxActionableLines /\ Len(shown) = MaxActionableLines
          /\ \A k \in 1..KeepFirst : shown[k] = s[k]
          /\ shown[KeepFirst + 1] = -omitted
          /\ \A k \in 1..last : shown[KeepFirst + 1 + k] = s[KeepFirst + omitted + k]
      BY <1>9, <1>13, <2>2
    <3>2. omitted \in Nat \ {0} /\ from \in Int /\ to \in Int /\ to - from + 1 = omitted /\ ~(from > to)
          /\ from..to \subseteq 1..b
      BY <1>14, <3>1
    <3>3. -omitted \in Range(shown)
      BY <1>14, <1>17, <3>1
    <3>4. \A k \in 1..b : s[k] \in Nat
      BY <1>2, <1>6, <1>9
    <3>5. ASSUME NEW k \in 1..b PROVE s[k] \in Range(shown) <=> k \notin from..to
      <4>1. CASE k <= KeepFirst
        <5>1. k \in 1..KeepFirst /\ k \in 1..Len(shown) /\ k \notin from..to
          BY <1>14, <3>1, <4>1
        <5> QED BY <1>17, <3>1, <5>1
      <4>2. CASE k > to
        <5>1. /\ k - to \in 1..last /\ KeepFirst + omitted + (k - to) = k /\ k \notin from..to
              /\ KeepFirst + 1 + (k - to) \in 1..Len(shown)
          BY <1>14, <3>1, <3>2, <4>2
        <5>2. shown[KeepFirst + 1 + (k - to)] = s[k]
          BY <3>1, <5>1
        <5> QED BY <1>17, <5>1, <5>2
      <4>3. CASE k \in from..to
        <5>1. ASSUME NEW j \in 1..Len(shown), shown[j] = s[k] PROVE FALSE
          <6>1. CASE j <= KeepFirst
            <7>1. j \in 1..KeepFirst /\ j \in 1..b
              BY <1>14, <3>2, <6>1
            <7>2. j = k
              BY <1>12, <3>1, <5>1, <7>1
            <7> QED BY <1>14, <4>3, <6>1, <7>2
          <6>2. CASE j = KeepFirst + 1
            BY <3>1, <3>2, <3>4, <5>1, <6>2
          <6>3. CASE j > KeepFirst + 1
            <7>1. /\ j - KeepFirst - 1 \in 1..last /\ KeepFirst + 1 + (j - KeepFirst - 1) = j
                  /\ to + (j - KeepFirst - 1) \in 1..b
              BY <1>14, <3>1, <3>2, <6>3
            <7>2. shown[j] = s[to + (j - KeepFirst - 1)]
              BY <3>1, <7>1
            <7>3. to + (j - KeepFirst - 1) = k
              BY <1>12, <5>1, <7>1, <7>2
            <7> QED BY <1>14, <3>2, <4>3, <6>3, <7>3
          <6> QED BY <1>14, <3>1, <6>1, <6>2, <6>3
        <5> QED BY <1>17, <4>3, <5>1
      <4> QED BY <1>14, <3>2, <4>1, <4>2, <4>3
    <3>6. \A i : i \in lost <=> \E k \in from..to : s[k] = i
      BY <1>18, <3>2, <3>5
    <3> HIDE DEF from, to
    <3>7. IsFiniteSet(from..to) /\ Cardinality(from..to) = omitted
      BY <3>2, FS_Interval
    <3>8. f \in Bijection(from..to, lost)
      <4>1. f \in [from..to -> lost]
        BY <3>6
      <4>2. \A j, k \in from..to : f[j] = f[k] => j = k
        BY <1>12, <3>2
      <4>3. \A i \in lost : \E k \in from..to : f[k] = i
        BY <3>6
      <4> HIDE DEF f
      <4> QED BY <4>1, <4>2, <4>3 DEF Bijection, Injection, Surjection, IsInjective
    <3>9. Cardinality(lost) = omitted
      <4>1. ExistsBijection(from..to, lost)
        BY <3>8 DEF ExistsBijection
      <4> QED BY <3>7, <4>1, FS_Bijection
    <3> QED BY <3>3, <3>9
  <2> QED BY <2>1, <2>2
<1> QED BY <1>3, <1>10, <1>13, <1>15, <1>16, <1>19 DEF shown, lost


\* Without an error line: the last lines that are no logs, or that are not even
\* blank, without a gap.
LEMMA OthersShown ==
  ASSUME NEW lines \in Lines, \A i \in 1..Len(lines) : lines[i] # "error",
         NEW some \in 1..Len(lines), lines[some] # "blank"
  PROVE  LET shown == ExtractActionable(lines)
         IN  /\ shown \in Seq(Int) /\ Len(shown) \in 1..MaxActionableLines
             /\ \A i \in 1..Len(lines) :
                  lines[i] = "plain" =>
                    /\ i <= shown[Len(shown)]
                    /\ i >= shown[1] => i \in Range(shown)
<1> DEFINE errors == {i \in 1..Len(lines) : lines[i] = "error"}
           logs   == {i \in 1..Len(lines) : lines[i] = "log"}
           blanks == {i \in 1..Len(lines) : lines[i] = "blank"}
           solid  == (1..Len(lines)) \ blanks
           plain  == solid \ logs
           P == IF plain # {} THEN plain ELSE solid
           all == InOrder(P)
           N == Cardinality(P)
           r == LastN(all, FallbackKeepLines)
           s == TrimBlankEnds(r, blanks)
           shown == ExtractActionable(lines)
<1>1. shown = ApplyBudget(s)
  <2>1. errors = {}
    OBVIOUS
  <2> QED BY <2>1 DEF ExtractActionable
<1>2. Len(lines) \in Nat /\ \A i \in 1..Len(lines) : lines[i] \in {"error", "log", "plain", "blank"}
  BY DEF Lines
<1>3. /\ P \subseteq 1..Len(lines) /\ P # {} /\ \A i \in P : i \notin blanks
      /\ \A i \in 1..Len(lines) : lines[i] = "plain" => i \in P
  <2>1. some \in solid
    OBVIOUS
  <2>2. \A i \in 1..Len(lines) : lines[i] = "plain" => i \in plain
    OBVIOUS
  <2> HIDE DEF plain
  <2>3. plain \subseteq solid
    BY DEF plain
  <2> HIDE DEF solid
  <2>4. solid \subseteq 1..Len(lines) /\ \A i \in solid : i \notin blanks
    BY DEF solid
  <2> QED BY <2>1, <2>2, <2>3, <2>4
<1> HIDE DEF P
<1>4. /\ N \in Nat \ {0} /\ all \in [1..N -> P]
      /\ \A i \in P : \E n \in 1..N : all[n] = i
      /\ \A m, n \in 1..N : m < n => all[m] < all[n]
  <2>1. IsFiniteSet(1..Len(lines))
    BY <1>2, FS_Interval
  <2>2. P \in SUBSET (1..Len(lines)) /\ P # {}
    BY <1>3
  <2> HIDE <1>3
  <2>3. P \in SUBSET Nat
    BY <1>2, <2>2
  <2>4. IsFiniteSet(P)
    BY <2>1, <2>2, FS_Subset
  <2> QED BY <2>2, <2>3, <2>4, InOrderSorts
<1> HIDE DEF errors, logs, plain, solid, all, N, r, s, shown, blanks
<1>5. all \in Seq(Int) /\ Len(all) = N /\ \A n \in 1..N : all[n] \in P /\ all[n] \in Int
  <2>1. \A n \in 1..N : all[n] \in P /\ all[n] \in Int
    <3>1. \A i \in 1..Len(lines) : i \in Int
      BY <1>2
    <3> QED BY <1>3, <1>4, <3>1
  <2>2. all \in [1..N -> Int]
    BY <1>4, <2>1
  <2> QED BY <1>4, <2>1, <2>2
<1>6. FallbackKeepLines \in Nat \ {0} /\ FallbackKeepLines <= MaxActionableLines
      /\ MaxActionableLines \in Nat
  BY ActionableAssumption
<1> DEFINE M == Len(r)
<1>7. /\ r \in Seq(Int) /\ M = IF N <= FallbackKeepLines THEN N ELSE FallbackKeepLines
      /\ \A k \in 1..M : r[k] = all[N - M + k]
  BY <1>5, <1>6, LastNKeeps, ZenonT(40) DEF r
<1> HIDE DEF M
<1>8. M \in 1..MaxActionableLines /\ M <= N /\ \A k \in 1..M : N - M + k \in 1..N
  BY <1>4, <1>6, <1>7
<1>9. \A k \in 1..M : r[k] \in P /\ r[k] \notin blanks
  BY <1>3, <1>5, <1>7, <1>8
<1>10. shown = r
  <2>1. 1 \in 1..M /\ M \in 1..M
    BY <1>8
  <2>2. PICK a, b : TrimmedTo(Int, r, blanks, s, a, b)
    <3>1. ~\A k \in 1..Len(r) : r[k] \in blanks
      BY <1>9, <2>1 DEF M
    <3> QED BY <1>7, <3>1, TrimKeepsSolid DEF s
  <2>3. /\ a \in 1..M /\ b \in 1..M
        /\ \A k \in 1..M : r[k] \notin blanks => a <= k /\ k <= b
        /\ s \in Seq(Int) /\ Len(s) = b - a + 1
        /\ \A k \in 1..(b - a + 1) : s[k] = r[a + k - 1]
    BY <2>2 DEF TrimmedTo, M
  <2>4. a = 1 /\ b = M
    BY <1>8, <1>9, <2>1, <2>3, SMTT(30)
  <2>5. Len(s) = M /\ \A k \in 1..M : s[k] = r[k]
    <3>1. b - a + 1 = M /\ \A k \in 1..M : a + k - 1 = k
      BY <1>8, <2>4
    <3> QED BY <2>3, <3>1
  <2>6. s = r
    BY <1>7, <2>3, <2>5, SeqEqual DEF M
  <2>7. Len(s) <= MaxActionableLines
    BY <1>8, <2>5
  <2> QED BY <1>1, <2>6, <2>7 DEF ApplyBudget
<1>11. \A i \in P : i <= r[M] /\ (i >= r[1] => i \in Range(r))
  <2> SUFFICES ASSUME NEW i \in P PROVE i <= r[M] /\ (i >= r[1] => i \in Range(r))
    OBVIOUS
  <2>1. PICK n \in 1..N : all[n] = i
    BY <1>4
  <2>2. n \in Nat /\ N \in 1..N /\ r[M] = all[N] /\ all[N] \in Int /\ i \in Int
    <3>1. M \in 1..M /\ N - M + M = N /\ N \in 1..N /\ n \in Nat
      BY <1>4, <1>8
    <3> QED BY <1>5, <1>7, <2>1, <3>1
  <2>3. i <= r[M]
    <3>1. n = N \/ all[n] < all[N]
      BY <1>4, <2>2
    <3> QED BY <2>1, <2>2, <3>1
  <2>4. ASSUME i >= r[1] PROVE i \in Range(r)
    <3>1. 1 \in 1..M /\ N - M + 1 \in 1..N /\ r[1] = all[N - M + 1] /\ all[N - M + 1] \in Int
      <4>1. 1 \in 1..M
        BY <1>8
      <4>2. N - M + 1 \in 1..N
        BY <1>8, <4>1
      <4> QED BY <1>5, <1>7, <4>1, <4>2
    <3>2. n >= N - M + 1
      <4>1. n < N - M + 1 => all[n] < all[N - M + 1]
        BY <1>4, <3>1
      <4> QED BY <1>4, <1>8, <2>1, <2>2, <2>4, <3>1, <4>1
    <3>3. n - (N - M) \in 1..M /\ N - M + (n - (N - M)) = n
      BY <1>4, <1>8, <2>2, <3>2
    <3>4. r[n - (N - M)] = i
      BY <1>7, <2>1, <3>3
    <3>5. Range(r) = {r[k] : k \in 1..M}
      BY <1>7, SMTT(30) DEF Range, M
    <3> QED BY <3>3, <3>4, <3>5
  <2> QED BY <2>3, <2>4
<1> QED BY <1>3, <1>7, <1>8, <1>10, <1>11 DEF shown, M

\* Nothing is shown only of what is all blank.
LEMMA BlankShown ==
  ASSUME NEW lines \in Lines, \A i \in 1..Len(lines) : lines[i] = "blank"
  PROVE  ExtractActionable(lines) = <<>>
<1>1. InOrder({}) = <<>>
  <2>1. Cardinality({}) = 0
    BY FS_EmptySet
  <2>2. InOrder({}) \in [1..0 -> {}]
    BY <2>1, FS_EmptySet, InOrderSorts
  <2> QED BY <2>2
<1>2. LastN(<<>>, FallbackKeepLines) = <<>>
  <2>1. FallbackKeepLines \in Nat /\ Len(<<>>) = 0
    BY ActionableAssumption
  <2> QED BY <2>1 DEF LastN
<1>3. \A blanks : TrimBlankEnds(<<>>, blanks) = <<>>
  <2>1. \A blanks : {i \in 1..Len(<<>>) : <<>>[i] \notin blanks} = {}
    OBVIOUS
  <2> QED BY <2>1 DEF TrimBlankEnds
<1>4. ApplyBudget(<<>>) = <<>>
  <2>1. MaxActionableLines \in Nat /\ Len(<<>>) = 0
    BY ActionableAssumption
  <2> QED BY <2>1 DEF ApplyBudget
<1> DEFINE errors == {i \in 1..Len(lines) : lines[i] = "error"}
           logs   == {i \in 1..Len(lines) : lines[i] = "log"}
           blanks == {i \in 1..Len(lines) : lines[i] = "blank"}
           solid  == (1..Len(lines)) \ blanks
           plain  == solid \ logs
<1>5. errors = {} /\ solid = {} /\ plain = {}
  OBVIOUS
<1>6. ExtractActionable(lines) =
        ApplyBudget(TrimBlankEnds(LastN(InOrder(IF plain # {} THEN plain ELSE solid),
                                        FallbackKeepLines), blanks))
  BY <1>5 DEF ExtractActionable
<1> QED BY <1>1, <1>2, <1>3, <1>4, <1>5, <1>6

\* The actionable part of an output is empty only when all its lines are blank.
LEMMA ActionableShown ==
  ASSUME NEW lines \in Lines
  PROVE  /\ ExtractActionable(lines) \in Seq(Int)
         /\ ExtractActionable(lines) = <<>> <=> Range(lines) \ {"blank"} = {}
<1>1. Range(lines) = {lines[i] : i \in 1..Len(lines)}
  BY DEF Lines, Range
<1>2. CASE \A i \in 1..Len(lines) : lines[i] = "blank"
  <2>1. ExtractActionable(lines) = <<>>
    BY <1>2, BlankShown
  <2>2. <<>> \in Seq(Int)
    OBVIOUS
  <2>3. Range(lines) \ {"blank"} = {}
    BY <1>1, <1>2
  <2> QED BY <2>1, <2>2, <2>3
<1>3. ASSUME NEW some \in 1..Len(lines), lines[some] # "blank"
      PROVE  ExtractActionable(lines) \in Seq(Int) /\ ExtractActionable(lines) # <<>>
  <2> DEFINE shown == ExtractActionable(lines)
  <2>1. shown \in Seq(Int) /\ Len(shown) \in 1..MaxActionableLines
    <3>1. CASE \E i \in 1..Len(lines) : lines[i] = "error"
      BY <3>1, ErrorsShown
    <3>2. CASE \A i \in 1..Len(lines) : lines[i] # "error"
      BY <1>3, <3>2, OthersShown
    <3> QED BY <3>1, <3>2
  <2>2. MaxActionableLines \in Nat
    BY ActionableAssumption
  <2> HIDE DEF shown
  <2>3. shown # <<>>
    BY <2>1, <2>2
  <2> QED BY <2>1, <2>3 DEF shown
<1> QED BY <1>1, <1>2, <1>3

-----------------------------------------------------------------------------
(* The payloads in what is said.                                           *)

\* The recursion of HintsOf is well-founded: there is such a function.
LEMMA GatheringExists ==
  ASSUME NEW said, NEW L \in Nat
  PROVE  \E f : f = [n \in 0..L |-> IF n = 0 THEN <<>> ELSE f[n - 1] \o said[n].hints]
<1> DEFINE Gathers(f, m) == f = [n \in 0..m |-> IF n = 0 THEN <<>> ELSE f[n - 1] \o said[n].hints]
           without == {m \in Nat : ~\E f : Gathers(f, m)}
<1>1. without = {}
  <2> SUFFICES ASSUME without # {} PROVE FALSE
    OBVIOUS
  <2>1. PICK m \in without : \A j \in without : m <= j
    <3>1. without \in SUBSET Nat
      OBVIOUS
    <3> HIDE DEF without
    <3> QED BY <3>1, LeastExists
  <2>2. CASE m = 0
    <3> DEFINE f == [n \in 0..0 |-> <<>>]
    <3>1. Gathers(f, 0)
      OBVIOUS
    <3> QED BY <2>1, <2>2, <3>1
  <2>3. CASE m # 0
    <3>1. m \in Nat /\ m - 1 \in Nat
      <4>1. m \in Nat
        BY <2>1
      <4> QED BY <2>3, <4>1
    <3>2. PICK g : Gathers(g, m - 1)
      <4>1. m - 1 \notin without
        <5> HIDE DEF without
        <5>1. ~(m <= m - 1)
          BY <3>1
        <5> QED BY <2>1, <5>1
      <4> QED BY <3>1, <4>1
    <3> DEFINE f == [n \in 0..m |-> IF n = m THEN g[m - 1] \o said[m].hints ELSE g[n]]
    <3>3. \A n \in 0..(m - 1) : f[n] = g[n]
      BY <3>1
    <3>4. f[m] = f[m - 1] \o said[m].hints
      <4>1. m - 1 \in 0..(m - 1) /\ m \in 0..m
        BY <3>1
      <4>2. f[m - 1] = g[m - 1]
        BY <3>3, <4>1
      <4>3. f[m] = g[m - 1] \o said[m].hints
        BY <4>1
      <4> QED BY <4>2, <4>3
    <3>5. \A n \in 0..(m - 1) : n # 0 => f[n] = f[n - 1] \o said[n].hints
      <4>1. \A n \in 0..(m - 1) : n # 0 => n - 1 \in 0..(m - 1)
        BY <3>1
      <4>2. \A n \in 0..(m - 1) : g[n] = IF n = 0 THEN <<>> ELSE g[n - 1] \o said[n].hints
        BY <3>2
      <4> HIDE DEF f
      <4> QED BY <3>3, <4>1, <4>2
    <3>6. f[0] = <<>>
      BY <3>1, <3>2
    <3>7. \A n \in 0..m : n = m \/ n \in 0..(m - 1)
      BY <3>1
    <3>8. DOMAIN f = 0..m /\ f = [n \in 0..m |-> f[n]]
      OBVIOUS
    <3> HIDE DEF f
    <3>9. \A n \in 0..m : f[n] = IF n = 0 THEN <<>> ELSE f[n - 1] \o said[n].hints
      BY <2>3, <3>4, <3>5, <3>6, <3>7
    <3>10. Gathers(f, m)
      BY <3>8, <3>9
    <3> QED BY <2>1, <3>10
  <2> QED BY <2>2, <2>3
<1> QED BY <1>1

\* HintsOf has the hints of every line, and nothing else.
LEMMA HintsGathered ==
  ASSUME NEW said, Len(said) \in Nat, \A n \in 1..Len(said) : said[n].hints \in Seq(Nat)
  PROVE  /\ HintsOf(said) \in Seq(Nat)
         /\ \A h : Contains(HintsOf(said), h) <=>
                     \E n \in 1..Len(said) : Contains(said[n].hints, h)
<1> DEFINE upTo[n \in 0..Len(said)] == IF n = 0 THEN <<>> ELSE upTo[n - 1] \o said[n].hints
           L == Len(said)
           Right(n) == /\ upTo[n] \in Seq(Nat)
                       /\ \A h : Contains(upTo[n], h) <=> \E j \in 1..n : Contains(said[j].hints, h)
           wrong == {n \in 0..L : ~Right(n)}
<1>1. HintsOf(said) = upTo[L]
  BY DEF HintsOf
<1>2. upTo = [n \in 0..L |-> IF n = 0 THEN <<>> ELSE upTo[n - 1] \o said[n].hints]
  BY GatheringExists
<1> HIDE DEF upTo
<1>3. upTo[0] = <<>> /\ \A n \in 1..L : upTo[n] = upTo[n - 1] \o said[n].hints
  <2>1. 0 \in 0..L /\ \A n \in 1..L : n \in 0..L /\ n # 0
    OBVIOUS
  <2> QED BY <1>2, <2>1
<1>4. Right(0)
  <2>1. <<>> \in Seq(Nat) /\ \A h : ~Contains(<<>>, h)
    BY DEF Contains
  <2> QED BY <1>3, <2>1
<1>5. ASSUME NEW n \in 1..L, Right(n - 1) PROVE Right(n)
  <2> DEFINE a == upTo[n - 1]
             b == said[n].hints
  <2>1. a \in Seq(Nat) /\ b \in Seq(Nat) /\ upTo[n] = a \o b
    BY <1>3, <1>5
  <2>2. \A h : Contains(a, h) <=> \E j \in 1..(n - 1) : Contains(said[j].hints, h)
    BY <1>5
  <2> HIDE DEF a, b
  <2>3. /\ a \o b \in Seq(Nat) /\ Len(a \o b) = Len(a) + Len(b)
        /\ \A i \in 1..(Len(a) + Len(b)) : (a \o b)[i] = IF i <= Len(a) THEN a[i] ELSE b[i - Len(a)]
    BY <2>1, ConcatProperties
  <2>4. Len(a) \in Nat /\ Len(b) \in Nat
    BY <2>1
  <2>5. ASSUME NEW h PROVE Contains(a \o b, h) <=> Contains(a, h) \/ Contains(b, h)
    <3>1. ASSUME Contains(a \o b, h) PROVE Contains(a, h) \/ Contains(b, h)
      <4>1. PICK i \in 1..(Len(a) + Len(b)) : (a \o b)[i] = h
        BY <2>3, <3>1 DEF Contains
      <4>2. CASE i <= Len(a)
        <5>1. i \in 1..Len(a) /\ a[i] = h
          BY <2>3, <2>4, <4>1, <4>2
        <5> QED BY <5>1 DEF Contains
      <4>3. CASE ~(i <= Len(a))
        <5>1. i - Len(a) \in 1..Len(b) /\ b[i - Len(a)] = h
          BY <2>3, <2>4, <4>1, <4>3
        <5> QED BY <5>1 DEF Contains
      <4> QED BY <4>2, <4>3
    <3>2. ASSUME Contains(a, h) PROVE Contains(a \o b, h)
      <4>1. PICK i \in 1..Len(a) : a[i] = h
        BY <3>2 DEF Contains
      <4>2. i \in 1..(Len(a) + Len(b)) /\ i <= Len(a)
        BY <2>4
      <4>3. (a \o b)[i] = h
        BY <2>3, <4>1, <4>2
      <4> QED BY <2>3, <4>2, <4>3 DEF Contains
    <3>3. ASSUME Contains(b, h) PROVE Contains(a \o b, h)
      <4>1. PICK i \in 1..Len(b) : b[i] = h
        BY <3>3 DEF Contains
      <4>2. Len(a) + i \in 1..(Len(a) + Len(b)) /\ ~(Len(a) + i <= Len(a)) /\ Len(a) + i - Len(a) = i
        BY <2>4
      <4>3. (a \o b)[Len(a) + i] = h
        BY <2>3, <4>1, <4>2
      <4> QED BY <2>3, <4>2, <4>3 DEF Contains
    <3> QED BY <3>1, <3>2, <3>3
  <2>6. \A h : (\E j \in 1..n : Contains(said[j].hints, h)) <=>
                 (\E j \in 1..(n - 1) : Contains(said[j].hints, h)) \/ Contains(b, h)
    <3>1. n \in 1..n /\ \A j : j \in 1..n <=> j \in 1..(n - 1) \/ j = n
      OBVIOUS
    <3> QED BY <3>1 DEF b
  <2> QED BY <2>1, <2>2, <2>3, <2>5, <2>6
<1>6. wrong = {}
  <2> SUFFICES ASSUME wrong # {} PROVE FALSE
    OBVIOUS
  <2>1. wrong \in SUBSET Nat
    OBVIOUS
  <2>2. PICK n \in wrong : \A j \in wrong : n <= j
    <3> HIDE DEF wrong
    <3> QED BY <2>1, LeastExists
  <2>3. n \in 0..L /\ ~Right(n)
    BY <2>2
  <2> HIDE DEF Right
  <2>4. n # 0
    BY <1>4, <2>3
  <2>5. n \in 1..L /\ n - 1 \in 0..L /\ ~(n <= n - 1)
    BY <2>3, <2>4
  <2>6. Right(n - 1)
    BY <2>2, <2>5
  <2> QED BY <1>5, <2>3, <2>5, <2>6
<1>7. Right(L)
  <2>1. L \in 0..L
    OBVIOUS
  <2> HIDE DEF Right
  <2> QED BY <1>6, <2>1
<1> QED BY <1>1, <1>7

-----------------------------------------------------------------------------
(* What is decoded.                                                        *)

\* Texts that bring something to show.
Telling(h) == h \in Hints /\ Range(LinesIn(Text(h))) \ {"blank"} # {}

\* What is shown of a hint is nothing when it is blank throughout.
LEMMA ShownTyped ==
  ASSUME NEW h \in Hints
  PROVE  /\ Decode(h) \in DecodedError
         /\ Decode(h).text = Text(h) /\ Decode(h).shown = ExtractActionable(LinesIn(Text(h)))
         /\ Shown[h] # <<>> <=> Telling(h)
<1>1. Text(h) \in Nat /\ LinesIn(Text(h)) \in Lines
  BY ActionableAssumption
<1>2. Shown[h] = ExtractActionable(LinesIn(Text(h)))
  BY DEF Shown
<1>3. Shown[h] \in Seq(Int) /\ (Shown[h] = <<>> <=> Range(LinesIn(Text(h))) \ {"blank"} = {})
  BY <1>1, <1>2, ActionableShown
<1> HIDE DEF Shown
<1> QED BY <1>1, <1>2, <1>3 DEF Decode, DecodedError, Telling

\* The errors that a sequence of hints is decoded to.
DecodedFrom(hints, seen) ==
  [k \in 1..Len(Fresh(hints, seen)) |-> Decode(hints[Fresh(hints, seen)[k]])]

\* Each text is decoded once, if it is none of those seen, and nothing else is.
LEMMA DecodesFresh ==
  ASSUME NEW hints \in Seq(Nat), NEW seen
  PROVE  LET new == DecodedFrom(hints, seen)
         IN  /\ new \in Seq(DecodedError)
             /\ \A k \in 1..Len(new) : \E h \in Hints : Telling(h) /\ new[k] = Decode(h)
             /\ \A k, l \in 1..Len(new) : new[k].text = new[l].text => k = l
             /\ \A t : (\E k \in 1..Len(new) : new[k].text = t)
                         <=> t \notin seen /\ \E i \in 1..Len(hints) :
                               Telling(hints[i]) /\ Text(hints[i]) = t
<1> DEFINE First1(i) == \A j \in 1..(i - 1) : hints[j] \in Hints => Text(hints[j]) # Text(hints[i])
           P == {i \in 1..Len(hints) :
                  /\ hints[i] \in Hints /\ Shown[hints[i]] # <<>>
                  /\ Text(hints[i]) \notin seen
                  /\ First1(i)}
           fresh == Fresh(hints, seen)
           new == DecodedFrom(hints, seen)
<1>1. fresh = InOrder(P)
  BY DEF Fresh
<1>2. P \in SUBSET (1..Len(hints)) /\ P \in SUBSET Nat /\ IsFiniteSet(P)
  BY FS_Interval, FS_Subset
<1>3. \A i \in P : Telling(hints[i]) /\ Text(hints[i]) \notin seen /\ First1(i)
  BY ShownTyped
<1>4. \A i \in 1..Len(hints) :
        Telling(hints[i]) /\ Text(hints[i]) \notin seen /\ First1(i) => i \in P
  BY ShownTyped DEF Telling
<1> HIDE DEF P
<1> DEFINE n == Cardinality(P)
<1>5. /\ n \in Nat /\ fresh \in [1..n -> P]
      /\ \A i \in P : \E k \in 1..n : fresh[k] = i
      /\ \A k, l \in 1..n : k < l => fresh[k] < fresh[l]
  BY <1>1, <1>2, InOrderSorts
<1> HIDE DEF fresh, n
<1>6. fresh \in Seq(P) /\ Len(fresh) = n
  BY <1>5
<1>7. new = [k \in 1..n |-> Decode(hints[fresh[k]])]
  BY <1>6 DEF DecodedFrom, fresh
<1>8. \A i \in P : /\ hints[i] \in Hints /\ Decode(hints[i]) \in DecodedError
                   /\ Decode(hints[i]).text = Text(hints[i])
  BY <1>3, ShownTyped DEF Telling
<1> HIDE DEF new
<1>9. new \in Seq(DecodedError) /\ Len(new) = n
  BY <1>5, <1>7, <1>8
<1>10. ASSUME NEW k \in 1..n
       PROVE  /\ fresh[k] \in P /\ new[k] = Decode(hints[fresh[k]])
              /\ new[k].text = Text(hints[fresh[k]])
  BY <1>5, <1>7, <1>8
<1>11. \A i, j \in P : i < j => Text(hints[i]) # Text(hints[j])
  <2> SUFFICES ASSUME NEW i \in P, NEW j \in P, i < j PROVE Text(hints[i]) # Text(hints[j])
    OBVIOUS
  <2>1. i \in 1..(j - 1)
    BY <1>2
  <2> QED BY <1>3, <1>8, <2>1
<1>12. ASSUME NEW k \in 1..n, NEW l \in 1..n, new[k].text = new[l].text PROVE k = l
  <2>1. ~(k < l) /\ ~(l < k)
    BY <1>5, <1>10, <1>11, <1>12
  <2> QED BY <1>5, <2>1
<1>13. ASSUME NEW t, t \notin seen, NEW i \in 1..Len(hints), Telling(hints[i]), Text(hints[i]) = t
       PROVE  \E k \in 1..n : new[k].text = t
  <2> DEFINE same == {j \in 1..Len(hints) : hints[j] \in Hints /\ Text(hints[j]) = t}
  <2>1. PICK j \in same : \A m \in same : j <= m
    <3>1. same \in SUBSET Nat /\ same # {}
      BY <1>13 DEF Telling
    <3> HIDE DEF same
    <3> QED BY <3>1, LeastExists
  <2>2. First1(j)
    <3> SUFFICES ASSUME NEW m \in 1..(j - 1), hints[m] \in Hints, Text(hints[m]) = t PROVE FALSE
      BY <2>1
    <3>1. m \in 1..Len(hints) /\ ~(j <= m)
      BY <2>1
    <3> QED BY <2>1, <3>1
  <2>3. Telling(hints[j])
    BY <1>13, <2>1 DEF Telling
  <2>4. j \in P
    BY <1>4, <1>13, <2>1, <2>2, <2>3
  <2>5. PICK k \in 1..n : fresh[k] = j
    BY <1>5, <2>4
  <2> QED BY <1>10, <2>1, <2>5
<1>14. \A k \in 1..n : \E h \in Hints : Telling(h) /\ new[k] = Decode(h)
  BY <1>3, <1>8, <1>10
<1>15. ASSUME NEW k \in 1..n
       PROVE  /\ new[k].text \notin seen
              /\ \E i \in 1..Len(hints) : Telling(hints[i]) /\ Text(hints[i]) = new[k].text
  BY <1>2, <1>3, <1>10, ZenonT(40)
<1>16. \A t : (\E k \in 1..n : new[k].text = t)
               <=> t \notin seen /\ \E i \in 1..Len(hints) :
                     Telling(hints[i]) /\ Text(hints[i]) = t
  BY <1>13, <1>15
<1> QED BY <1>9, <1>12, <1>14, <1>16 DEF new

-----------------------------------------------------------------------------
(* The ranking.                                                            *)

\* A tree has finitely many suspects, and all of them are ranked.
LEMMA RankingLength ==
  ASSUME tree \in Trees
  PROVE  /\ Len(RankedSuspects) \in Nat
         /\ DOMAIN RankedSuspects = 1..Len(RankedSuspects)
         /\ RankedSuspects = <<>> <=> Failures = {}
<1>1. IsFiniteSet(1..Len(Nodes))
  <2>1. Len(Nodes) \in Nat
    BY TreesAssumption DEF Nodes
  <2> QED BY <2>1, FS_Interval
<1>2. IsFiniteSet(Failures)
  BY <1>1, FS_Subset DEF Failures
<1>3. Cardinality(Failures) \in Nat /\ (Cardinality(Failures) = 0 <=> Failures = {})
  BY <1>2, FS_CardinalityType, FS_EmptySet
<1>4. Len(RankedSuspects) = Cardinality(Failures)
  BY <1>3 DEF RankedSuspects
<1> QED BY <1>3, <1>4 DEF RankedSuspects

-----------------------------------------------------------------------------
(* The control of Diagnose.  The loop begins after the ranking, when every *)
(* goroutine that was spawned stands for a suspect that will be reported.  *)

ControlInv ==
  /\ tree \in Trees
  /\ phase \in {"ranking", "reporting", "done"}
  /\ Len(suspects) \in Nat
  /\ phase = "ranking" => suspects = <<>> /\ reported = <<>> /\ summary = NoSummary
  /\ Len(reported) \in Nat

\* Every reported suspect gets what a lookup of its own may return.
OwnEvents ==
  /\ fetching \subseteq 1..Reported
  /\ DOMAIN out = 1..Reported
  /\ \A i \in (1..Reported) \ fetching : out[i] \in Lookup(suspects[i])

\* How many suspects are reported is a number.
LEMMA ReportedType ==
  ASSUME ControlInv
  PROVE  Reported \in Nat
BY SuspectsAssumption DEF ControlInv, Reported

\* Both start in order,
LEMMA ControlInit == PrefetchInit => ControlInv
BY DEF PrefetchInit, Init, ControlInv

\* and every step keeps the order of the phases.
LEMMA ControlStep == ControlInv /\ [PrefetchNext]_vars => ControlInv'
<1> SUFFICES ASSUME ControlInv, [PrefetchNext]_vars PROVE ControlInv'
  OBVIOUS
<1>1. CASE RankAndSpawn
  BY <1>1, RankingLength DEF RankAndSpawn, Rank, ControlInv
<1>2. CASE \E i \in 1..Reported : EventsReturned(i)
  BY <1>2 DEF EventsReturned, diagnosisVars, ControlInv
<1>3. CASE ReportPrefetched
  BY <1>3 DEF ReportPrefetched, Report, ControlInv
<1>4. CASE SummariseJoined
  BY <1>4 DEF SummariseJoined, Summarise, ControlInv
<1>5. CASE UNCHANGED vars
  BY <1>5 DEF vars, ControlInv
<1> QED BY <1>1, <1>2, <1>3, <1>4, <1>5 DEF PrefetchNext

\* At the start no events were fetched,
LEMMA OwnEventsInit == PrefetchInit => OwnEvents
<1> SUFFICES ASSUME PrefetchInit PROVE OwnEvents
  OBVIOUS
<1>1. Reported = 0
  BY SuspectsAssumption DEF PrefetchInit, Init, Reported
<1> QED BY <1>1 DEF OwnEvents, PrefetchInit

\* and those that are fetched go to the suspect they were asked for.
LEMMA OwnEventsStep ==
  ControlInv /\ OwnEvents /\ [PrefetchNext]_vars => OwnEvents'
<1> SUFFICES ASSUME ControlInv, OwnEvents, [PrefetchNext]_vars PROVE OwnEvents'
  OBVIOUS
<1>1. CASE RankAndSpawn
  <2>1. fetching' = 1..Reported' /\ DOMAIN out' = 1..Reported'
    BY <1>1 DEF RankAndSpawn, Reported
  <2> QED BY <2>1 DEF OwnEvents
<1>2. ASSUME NEW i \in 1..Reported, EventsReturned(i) PROVE OwnEvents'
  <2>1. UNCHANGED <<tree, suspects>>
    BY <1>2 DEF EventsReturned, diagnosisVars
  <2>2. Reported' = Reported /\ \A j : Lookup(suspects[j])' = Lookup(suspects[j])
    BY <2>1 DEF Reported, Lookup, Nodes
  <2>3. PICK events \in Lookup(suspects[i]) : out' = [out EXCEPT ![i] = events]
    BY <1>2 DEF EventsReturned
  <2>4. fetching' = fetching \ {i}
    BY <1>2 DEF EventsReturned
  <2> QED BY <2>2, <2>3, <2>4 DEF OwnEvents
<1>3. CASE ReportPrefetched \/ SummariseJoined \/ UNCHANGED vars
  <2>1. UNCHANGED <<tree, suspects, fetching, out>>
    BY <1>3 DEF ReportPrefetched, Report, SummariseJoined, Summarise, vars
  <2>2. Reported' = Reported /\ \A j : Lookup(suspects[j])' = Lookup(suspects[j])
    BY <2>1 DEF Reported, Lookup, Nodes
  <2> QED BY <2>1, <2>2 DEF OwnEvents
<1> QED BY <1>1, <1>2, <1>3 DEF PrefetchNext

\* A step of the concurrent fetch is a step of the loop, or none.
LEMMA StepInLoop ==
  ASSUME ControlInv, OwnEvents, [PrefetchNext]_vars
  PROVE  [Next]_diagnosisVars
<1>1. CASE RankAndSpawn
  BY <1>1 DEF RankAndSpawn, Next
<1>2. CASE \E i \in 1..Reported : EventsReturned(i)
  BY <1>2 DEF EventsReturned
<1>3. CASE ReportPrefetched
  <2> DEFINE next == Len(reported) + 1
  <2>1. next \in (1..Reported) \ fetching
    BY <1>3, ReportedType DEF ReportPrefetched, ControlInv
  <2>2. out[next] \in Lookup(suspects[next])
    BY <2>1 DEF OwnEvents
  <2> QED BY <1>3, <2>2 DEF ReportPrefetched, Report, FetchAndReport, Next
<1>4. CASE SummariseJoined
  BY <1>4 DEF SummariseJoined, Next
<1>5. CASE UNCHANGED vars
  BY <1>5 DEF vars, diagnosisVars
<1> QED BY <1>1, <1>2, <1>3, <1>4, <1>5 DEF PrefetchNext

\* The concurrent fetch of Prefetch gives no answer that fetching in the loop
\* of Diagnose would not give, whatever the order the goroutines return in.
THEOREM PrefetchInLoop == Spec => RefinesInLoop
<1>1. PrefetchInit => Init /\ ControlInv /\ OwnEvents
  BY ControlInit, OwnEventsInit DEF PrefetchInit
<1>2. ControlInv /\ OwnEvents /\ [PrefetchNext]_vars => (ControlInv /\ OwnEvents)'
  BY ControlStep, OwnEventsStep
<1>3. ControlInv /\ OwnEvents /\ [PrefetchNext]_vars => [Next]_diagnosisVars
  BY StepInLoop
<1> QED BY <1>1, <1>2, <1>3, PTL DEF Spec, RefinesInLoop, Safety
-----------------------------------------------------------------------------
(* Healthy.  It is said when there are no suspects, so what a node must be *)
(* to be none of them decides what Healthy means.                          *)

\* Whatever is not a suspect is fine.
LEMMA NoSuspectIsFine ==
  ASSUME tree \in Trees, NEW i \in 1..Len(Nodes), ~IsSuspect(Nodes[i])
  PROVE  Fine(Nodes[i])
<1> DEFINE n == Nodes[i]
<1> DEFINE said == {ByType(n.conds, type) : type \in {"Ready", "Synced", "Healthy"}}
<1>1. n.rule.state \in {"Ready", "Pending", "Blocked", "declined"}
  <2>1. Nodes \in Seq(Node)
    BY TreesAssumption DEF Nodes
  <2>2. n \in Node
    BY <2>1
  <2>3. n.rule \in Verdict
    BY <2>2 DEF Node
  <2> QED BY <2>3 DEF Verdict
<1>2. State(n) \in {"Ready", "Unknown"} /\ ~n.deleting
  BY DEF IsSuspect
<1>3. ~n.error
  BY <1>2 DEF State
<1>4. CASE n.rule.state # "declined"
  <2>1. n.rule.state = "Ready"
    BY <1>1, <1>2, <1>3, <1>4 DEF State
  <2> QED BY <1>2, <1>3, <2>1 DEF Fine
<1>5. CASE n.rule.state = "declined"
  <2>1. State(n) = Classify(n.native, n.conds)
    BY <1>3, <1>5 DEF State
  <2>2. said \cap {"False", "Unknown"} = {} /\ ("True" \in said \/ n.native)
    BY <1>2, <2>1 DEF Classify
  <2> QED BY <1>2, <1>3, <1>5, <2>2 DEF Fine
<1> QED BY <1>4, <1>5

\* Healthy is only said at the end, of a tree walked to its end in which
\* nothing is a suspect.
HealthyInv ==
  summary.healthy => Done /\ ~tree.capped /\ Failures = {}

\* Every step keeps what a healthy answer rests on.
LEMMA HealthyStep ==
  ControlInv /\ HealthyInv /\ [PrefetchNext]_vars => HealthyInv'
<1> SUFFICES ASSUME ControlInv, HealthyInv, [PrefetchNext]_vars PROVE HealthyInv'
  OBVIOUS
<1>1. CASE RankAndSpawn
  <2>1. Rank /\ tree' = tree
    BY <1>1 DEF RankAndSpawn, Rank
  <2>2. Failures' = Failures
    BY <2>1 DEF Failures, Nodes
  <2>3. ASSUME summary'.healthy PROVE suspects' = <<>>
    BY <2>1, <2>3 DEF Rank, ControlInv, NoSummary
  <2>4. ASSUME summary'.healthy PROVE Done' /\ ~tree'.capped /\ Failures' = {}
    <3>1. phase' = "done" /\ summary'.healthy = ~tree.capped
      BY <2>1, <2>3, <2>4 DEF Rank, NoSummary
    <3>2. Failures = {}
      BY <2>1, <2>3, <2>4, RankingLength DEF Rank, ControlInv
    <3> QED BY <2>1, <2>2, <2>4, <3>1, <3>2 DEF Done
  <2> QED BY <2>4 DEF HealthyInv
<1>2. CASE (\E i \in 1..Reported : EventsReturned(i)) \/ UNCHANGED vars
  <2>1. UNCHANGED <<tree, phase, summary>>
    BY <1>2 DEF EventsReturned, diagnosisVars, vars
  <2> QED BY <2>1 DEF HealthyInv, Done, Failures, Nodes
<1>3. CASE ReportPrefetched
  <2>1. UNCHANGED <<tree, phase, summary>>
    BY <1>3 DEF ReportPrefetched, Report
  <2> QED BY <2>1 DEF HealthyInv, Done, Failures, Nodes
<1>4. CASE SummariseJoined
  <2>1. ~summary'.healthy
    BY <1>4 DEF SummariseJoined, Summarise, NoSummary
  <2> QED BY <2>1 DEF HealthyInv
<1> QED BY <1>1, <1>2, <1>3, <1>4 DEF PrefetchNext

\* Healthy is never said of a tree that was cut short or in which something
\* fails, hangs, is being deleted or could not be read.
THEOREM HealthySound == Spec => []HealthyIsSound
<1>1. PrefetchInit => ControlInv /\ HealthyInv
  BY ControlInit DEF PrefetchInit, Init, NoSummary, HealthyInv
<1>2. ControlInv /\ HealthyInv /\ [PrefetchNext]_vars => (ControlInv /\ HealthyInv)'
  BY ControlStep, HealthyStep
<1>3. ControlInv /\ HealthyInv => HealthyIsSound
  BY NoSuspectIsFine DEF ControlInv, HealthyInv, HealthyIsSound, Failures
<1> QED BY <1>1, <1>2, <1>3, PTL DEF Spec

-----------------------------------------------------------------------------
(* The order of the suspects.                                              *)

\* Which of two suspects is reported before the other.
Ahead == {pair \in Failures \X Failures : Before(pair[1], pair[2])}

\* A node of a tree is a node, and there is nothing in one that was not read.
LEMMA NodeFacts ==
  ASSUME tree \in Trees, NEW i \in 1..Len(Nodes)
  PROVE  /\ Nodes[i] \in Node
         /\ Nodes[i].error => Unread(Nodes[i])
<1>1. Nodes \in Seq(Node)
  BY TreesAssumption DEF Nodes
<1>2. Nodes[i] \in Node
  BY <1>1
<1> QED BY <1>2, TreesAssumption DEF Nodes

\* The order of the suspects is strict and total.
LEMMA AheadIsOrder ==
  ASSUME tree \in Trees
  PROVE  IsFiniteSet(Failures) /\ StrictOrder(Failures, Ahead) /\ Failures \in SUBSET Nat
<1>1. Len(Nodes) \in Nat
  BY TreesAssumption DEF Nodes
<1>2. IsFiniteSet(Failures) /\ Failures \in SUBSET Nat
  <2>1. Failures \subseteq 1..Len(Nodes)
    BY DEF Failures
  <2>2. IsFiniteSet(1..Len(Nodes))
    BY <1>1, FS_Interval
  <2>3. IsFiniteSet(Failures)
    BY <2>1, <2>2, FS_Subset
  <2>4. Failures \in SUBSET Nat
    BY <1>1, <2>1
  <2> QED BY <2>3, <2>4
<1>3. \A i \in Failures : RankTier(Nodes[i]) \in Nat /\ Nodes[i].depth \in Nat /\ i \in Nat
  <2> SUFFICES ASSUME NEW i \in Failures
               PROVE  RankTier(Nodes[i]) \in Nat /\ Nodes[i].depth \in Nat /\ i \in Nat
    OBVIOUS
  <2>1. i \in 1..Len(Nodes)
    BY DEF Failures
  <2>2. Nodes[i].depth \in Nat
    BY <2>1, NodeFacts DEF Node
  <2>3. RankTier(Nodes[i]) \in Nat
    BY DEF RankTier
  <2> QED BY <1>2, <2>2, <2>3
<1>4. \A i, j \in Failures : <<i, j>> \in Ahead <=> Before(i, j)
  BY DEF Ahead
<1>5. \A i, j \in Failures :
        Before(i, j) <=>
          \/ RankTier(Nodes[i]) < RankTier(Nodes[j])
          \/ /\ RankTier(Nodes[i]) = RankTier(Nodes[j])
             /\ \/ Nodes[i].depth > Nodes[j].depth
                \/ Nodes[i].depth = Nodes[j].depth /\ i < j
  BY DEF Before
<1> DEFINE tier(i) == RankTier(Nodes[i])
           depth(i) == Nodes[i].depth
<1>6. \A i \in Failures : tier(i) \in Nat /\ depth(i) \in Nat /\ i \in Nat
  BY <1>3
<1>7. \A i, j \in Failures :
        <<i, j>> \in Ahead <=>
          \/ tier(i) < tier(j)
          \/ /\ tier(i) = tier(j)
             /\ depth(i) > depth(j) \/ (depth(i) = depth(j) /\ i < j)
  BY <1>4, <1>5
<1> HIDE DEF tier, depth
<1>8. \A i \in Failures : <<i, i>> \notin Ahead
  BY <1>6, <1>7
<1>9. \A i, j, k \in Failures : <<i, j>> \in Ahead /\ <<j, k>> \in Ahead => <<i, k>> \in Ahead
  <2> SUFFICES ASSUME NEW i \in Failures, NEW j \in Failures, NEW k \in Failures,
                      <<i, j>> \in Ahead, <<j, k>> \in Ahead
               PROVE  <<i, k>> \in Ahead
    OBVIOUS
  <2>1. tier(i) <= tier(j) /\ tier(j) <= tier(k)
    BY <1>6, <1>7
  <2>2. CASE tier(i) < tier(k)
    BY <1>7, <2>2
  <2>3. CASE tier(i) = tier(j) /\ tier(j) = tier(k)
    BY <1>6, <1>7, <2>3
  <2> QED BY <1>6, <2>1, <2>2, <2>3
<1>10. \A i, j \in Failures : i # j => <<i, j>> \in Ahead \/ <<j, i>> \in Ahead
  BY <1>6, <1>7
<1> QED BY <1>2, <1>8, <1>9, <1>10 DEF StrictOrder

\* The ranking has each suspect once, and those before it are to be reported first.
LEMMA RankedSuspectsSorted ==
  ASSUME tree \in Trees
  PROVE  /\ RankedSuspects \in Seq(Failures) /\ RankedSuspects \in Seq(1..Len(Nodes))
         /\ \A i \in Failures : \E p \in 1..Len(RankedSuspects) : RankedSuspects[p] = i
         /\ \A p, q \in 1..Len(RankedSuspects) :
              p < q => Before(RankedSuspects[p], RankedSuspects[q])
<1> DEFINE place(i) == Cardinality(BeforeIn(Failures, Ahead, i))
           N == Cardinality(Failures)
           at(p) == CHOOSE i \in Failures : Place(i) = p
<1>1. IsFiniteSet(Failures) /\ StrictOrder(Failures, Ahead)
  BY AheadIsOrder
<1>2. N \in Nat
  BY <1>1, FS_CardinalityType
<1>3. \A i \in Failures : Place(i) = place(i) + 1
  <2>1. \A i \in Failures : {j \in Failures : Before(j, i)} = BeforeIn(Failures, Ahead, i)
    BY DEF BeforeIn, Ahead
  <2> QED BY <2>1 DEF Place
<1>4. RankedSuspects = [p \in 1..N |-> at(p)]
  BY DEF RankedSuspects
<1>5. \A p \in 1..N : at(p) \in Failures /\ place(at(p)) = p - 1
  <2> SUFFICES ASSUME NEW p \in 1..N PROVE at(p) \in Failures /\ place(at(p)) = p - 1
    OBVIOUS
  <2>1. p - 1 \in 0..(N - 1) /\ p \in Nat /\ (p - 1) + 1 = p
    BY <1>2
  <2> HIDE DEF N
  <2>2. PICK i \in Failures : place(i) = p - 1
    <3> USE DEF N
    <3> QED BY <1>1, <2>1, PlaceTaken
  <2>3. Place(i) = p
    BY <1>3, <2>1, <2>2
  <2>4. at(p) \in Failures /\ Place(at(p)) = p
    BY <2>3
  <2> HIDE DEF at
  <2>5. place(at(p)) \in Nat
    BY <1>1, BeforeFinite
  <2>6. Place(at(p)) = place(at(p)) + 1
    BY <1>3, <2>4
  <2> HIDE DEF place
  <2> QED BY <2>1, <2>4, <2>5, <2>6
<1> HIDE DEF at
<1>6. \A i \in Failures : \E p \in 1..N : at(p) = i
  <2> SUFFICES ASSUME NEW i \in Failures PROVE \E p \in 1..N : at(p) = i
    OBVIOUS
  <2>1. place(i) \in 0..(N - 1)
    BY <1>1, PlaceInRange
  <2>2. place(i) + 1 \in 1..N /\ (place(i) + 1) - 1 = place(i)
    BY <1>2, <2>1
  <2>3. at(place(i) + 1) \in Failures /\ place(at(place(i) + 1)) = place(i)
    BY <1>5, <2>2
  <2>4. at(place(i) + 1) = i
    BY <1>1, <2>3, PlaceReflects
  <2> QED BY <2>2, <2>4
<1>7. \A p, q \in 1..N : p < q => Before(at(p), at(q))
  <2> SUFFICES ASSUME NEW p \in 1..N, NEW q \in 1..N, p < q PROVE Before(at(p), at(q))
    OBVIOUS
  <2> HIDE DEF place
  <2>1. at(p) \in Failures /\ at(q) \in Failures /\ place(at(p)) < place(at(q))
    BY <1>2, <1>5
  <2> USE DEF place
  <2>2. <<at(p), at(q)>> \in Ahead
    BY <1>1, <2>1, PlaceReflects
  <2> QED BY <2>2 DEF Ahead
<1> HIDE DEF N
<1>8. RankedSuspects \in Seq(Failures) /\ Len(RankedSuspects) = N
  BY <1>2, <1>4, <1>5
<1>9. RankedSuspects \in Seq(1..Len(Nodes))
  <2>1. \A p \in 1..N : at(p) \in 1..Len(Nodes)
    BY <1>5 DEF Failures
  <2> QED BY <1>2, <1>4, <2>1
<1> QED BY <1>4, <1>6, <1>7, <1>8, <1>9

-----------------------------------------------------------------------------
(* What is said of one suspect.                                            *)

\* The first reason that is not about being paused is what follows the ones that are.
LEMMA LeadingAfterPause ==
  ASSUME NEW s, NEW pre \in {<<>>, <<PausedReason>>}, NEW rest \in Seq(Line),
         s.reasons = pre \o rest, rest # <<>> => rest[1].from # "paused"
  PROVE  s.reasons \in Seq(Line) /\ Leading(s) = First(rest)
<1> DEFINE others == {i \in 1..Len(s.reasons) : s.reasons[i].from # "paused"}
<1>1. pre \in Seq(Line) /\ Len(pre) \in {0, 1} /\ (Len(pre) = 1 => pre[1].from = "paused")
  <2>1. CASE pre = <<>>
    BY <2>1
  <2>2. CASE pre = <<PausedReason>>
    <3>1. PausedReason \in Line /\ PausedReason.from = "paused"
      BY LinesTyped
    <3> HIDE DEF others
    <3> QED BY <2>2, <3>1
  <2> QED BY <2>1, <2>2
<1>2. /\ s.reasons \in Seq(Line) /\ Len(s.reasons) = Len(pre) + Len(rest)
      /\ \A i \in 1..Len(pre) : s.reasons[i] = pre[i]
      /\ \A i \in 1..Len(rest) : s.reasons[Len(pre) + i] = rest[i]
  BY <1>1, ConcatProperties
<1>3. Leading(s) = IF others = {} THEN <<>> ELSE <<s.reasons[Min(others)]>>
  BY DEF Leading
<1>4. Len(rest) \in Nat
  OBVIOUS
<1>5. CASE rest = <<>>
  <2>1. \A i \in 1..Len(s.reasons) : i = 1 /\ Len(pre) = 1
    BY <1>1, <1>2, <1>5
  <2>2. others = {}
    BY <1>1, <1>2, <2>1
  <2> QED BY <1>2, <1>3, <1>5, <2>2 DEF First
<1>6. CASE rest # <<>>
  <2> DEFINE k == Len(pre) + 1
  <2>1. Len(rest) >= 1
    BY <1>6
  <2>2. k \in 1..Len(s.reasons) /\ s.reasons[k] = rest[1]
    BY <1>1, <1>2, <1>4, <2>1
  <2>3. k \in others /\ others \in SUBSET Nat
    BY <1>6, <2>2
  <2>4. \A i \in 1..Len(pre) : i \notin others
    BY <1>1, <1>2
  <2>5. Min(others) \in others /\ Min(others) <= k
    <3> HIDE DEF others, k
    <3> QED BY <2>3, MinLeast
  <2>6. Min(others) \notin 1..Len(pre)
    BY <2>4, <2>5
  <2>9. \A i \in others : i \in Nat /\ i >= 1
    BY <1>2
  <2> HIDE DEF others
  <2>7. Min(others) = k
    <3>1. Min(others) \in Nat /\ Min(others) >= 1
      BY <2>5, <2>9
    <3>2. CASE Len(pre) = 0
      BY <2>5, <3>1, <3>2
    <3>3. CASE Len(pre) = 1
      <4>1. Min(others) # 1
        BY <2>6, <3>3
      <4> QED BY <2>5, <3>1, <3>3, <4>1
    <3> QED BY <1>1, <3>2, <3>3
  <2>8. Leading(s) = <<rest[1]>>
    BY <1>3, <2>2, <2>3, <2>7
  <2> QED BY <1>2, <1>6, <2>8 DEF First
<1> QED BY <1>5, <1>6

\* What is known of the messages and the events of a suspect.
LEMMA SaidOf ==
  ASSUME tree \in Trees, NEW i \in 1..Len(Nodes), NEW full \in Lookup(i)
  PROVE  /\ CauseMessages(Nodes[i]) \in Seq(Cause) /\ full \in Seq(Event)
         /\ Nodes[i].conds \in Seq(Condition) /\ Nodes[i].rule \in Verdict
         /\ Nodes[i].error => /\ CauseMessages(Nodes[i]) = <<>> /\ full = <<>>
                              /\ BareStateMessages(Nodes[i]) = <<>>
<1> DEFINE n == Nodes[i]
<1>1. n.conds \in Seq(Condition) /\ n.rule \in Verdict /\ n.events \in Seq(Event)
  BY NodeFacts DEF Node
<1>2. full \in {n.events, <<>>}
  BY DEF Lookup
<1>3. CauseMessages(n) \in Seq(Cause)
  BY <1>1, CausesTyped
<1>4. ASSUME n.error
      PROVE  CauseMessages(n) = <<>> /\ full = <<>> /\ BareStateMessages(n) = <<>>
  <2>1. n.conds = <<>> /\ n.events = <<>> /\ n.rule.reasons = <<>>
    BY <1>4, NodeFacts DEF Unread, Declined
  <2>2. BlockingMessages(<<>>) = <<>>
    <3>1. <<>> \in Seq(Condition) /\ \A j \in 1..Len(<<>>) : ~Failing(<<>>[j])
      OBVIOUS
    <3> QED BY <3>1, ConditionsSay
  <2>3. CauseMessages(n) = <<>>
    BY <2>1, <2>2 DEF CauseMessages
  <2>4. BareStateMessages(n) = <<>>
    BY <1>4 DEF BareStateMessages
  <2> QED BY <1>2, <2>1, <2>3, <2>4
<1>5. full \in Seq(Event)
  <2>1. <<>> \in Seq(Event)
    OBVIOUS
  <2> HIDE DEF n
  <2> QED BY <1>1, <1>2, <2>1
<1> HIDE DEF n
<1>6. n = Nodes[i]
  BY DEF n
<1> QED BY <1>1, <1>3, <1>4, <1>5, <1>6


\* What leads the reasons is the cause that the headline would give, and a line
\* that leads although it is noise leads for want of a better one.
LEMMA EntryLeads ==
  ASSUME tree \in Trees, NEW i \in 1..Len(Nodes), NEW full \in Lookup(i),
         NEW s, s.reasons = Reasons(Nodes[i], LeadFirst(CauseMessages(Nodes[i])), full)
  PROVE  /\ s.reasons \in Seq(Line)
         /\ Leading(s) = RootCauseMessage(Nodes[i], full)
         /\ Leading(s) # <<>> /\ Leading(s)[1].noise =>
              LET msgs == CauseMessages(Nodes[i])
              IN  /\ \A j \in 1..Len(msgs) : msgs[j].noise
                  /\ \A j \in 1..Len(full) : ~IsQualifyingEvent(full[j])
<1> DEFINE n == Nodes[i]
           msgs == CauseMessages(n)
           said == ReasonsWithEvent(LeadFirst(msgs), full)
           bare == BareStateMessages(n)
           lines == IF said = <<>> THEN bare ELSE said
           pre == IF n.paused THEN <<PausedReason>> ELSE <<>>
           rest == (IF n.error THEN <<Unreachable>> ELSE <<>>) \o lines
<1>1. /\ msgs \in Seq(Cause) /\ full \in Seq(Event) /\ n.conds \in Seq(Condition)
      /\ n.error => msgs = <<>> /\ full = <<>> /\ bare = <<>>
  BY SaidOf
<1>2. /\ said \in Seq(Line) /\ First(said) = Attribute(msgs, full)
      /\ said # <<>> => said[1].from \in {"condition", "rule", "event"}
      /\ said # <<>> /\ said[1].noise =>
           /\ \A j \in 1..Len(msgs) : msgs[j].noise
           /\ \A j \in 1..Len(full) : ~IsQualifyingEvent(full[j])
  BY <1>1, SaidLeads
<1>3. bare \in Seq({line \in Line : line.from = "bare" /\ ~line.noise})
  BY <1>1, BareTyped
<1>4. s.reasons = pre \o rest
  <2>1. s.reasons = (pre \o (IF n.error THEN <<Unreachable>> ELSE <<>>)) \o lines
    BY DEF Reasons
  <2>2. pre \in Seq(Line) /\ (IF n.error THEN <<Unreachable>> ELSE <<>>) \in Seq(Line) /\ lines \in Seq(Line)
    <3>1. PausedReason \in Line /\ Unreachable \in Line
      BY LinesTyped
    <3>2. bare \in Seq(Line)
      <4> HIDE DEF bare
      <4> QED BY <1>3
    <3> HIDE DEF bare, said
    <3> QED BY <1>2, <3>1, <3>2
  <2> HIDE DEF pre, lines
  <2> DEFINE unread == IF n.error THEN <<Unreachable>> ELSE <<>>
  <2>3. unread \in Seq(Line) /\ rest = unread \o lines /\ s.reasons = (pre \o unread) \o lines
    BY <2>1, <2>2
  <2> HIDE DEF unread, rest
  <2> QED BY <2>2, <2>3, ConcatAssociative, SMTT(30)
<1>5. RootCauseMessage(n, full) =
        IF Attribute(msgs, full) # <<>> THEN Attribute(msgs, full)
        ELSE IF n.error THEN <<Unreachable>> ELSE First(bare)
  BY DEF RootCauseMessage
<1>6. First(said) = <<>> <=> said = <<>>
  BY DEF First
<1>7. CASE n.error
  <2>1. said = <<>> /\ lines = <<>>
    <3>1. LeadFirst(<<>>) = <<>>
      BY DEF LeadFirst
    <3>2. QualifyingEvent(full) = <<>>
      BY <1>1, <1>7, NothingQualifies
    <3>3. said = <<>>
      BY <1>1, <1>7, <3>1, <3>2 DEF ReasonsWithEvent
    <3> HIDE DEF said, bare
    <3> QED BY <1>1, <1>7, <3>3
  <2>2. rest = <<Unreachable>> /\ First(rest) = <<Unreachable>>
    <3> HIDE DEF lines
    <3> QED BY <1>7, <2>1 DEF First
  <2>3. Unreachable \in Line /\ Unreachable.from = "unreachable" /\ ~Unreachable.noise
    BY LinesTyped
  <2>4. rest \in Seq(Line) /\ (rest # <<>> => rest[1].from # "paused")
    <3> HIDE DEF rest
    <3> QED BY <2>2, <2>3
  <2>5. s.reasons \in Seq(Line) /\ Leading(s) = First(rest)
    <3> HIDE DEF rest
    <3>1. pre \in {<<>>, <<PausedReason>>}
      OBVIOUS
    <3> HIDE DEF pre
    <3> QED BY <1>4, <2>4, <3>1, LeadingAfterPause
  <2>6. RootCauseMessage(n, full) = <<Unreachable>>
    <3> HIDE DEF said, bare
    <3> QED BY <1>2, <1>5, <1>6, <1>7, <2>1
  <2> HIDE DEF rest
  <2> QED BY <2>2, <2>3, <2>5, <2>6
<1>8. CASE ~n.error
  <2>1. lines \in Seq(Line) /\ (lines # <<>> => lines[1].from # "paused")
    <3> HIDE DEF said, bare
    <3>1. CASE said # <<>>
      BY <1>2, <3>1
    <3>2. CASE said = <<>>
      <4>1. lines = bare /\ Len(bare) \in Nat /\ (bare # <<>> => 1 \in 1..Len(bare))
        BY <1>3, <3>2
      <4>2. bare \in Seq(Line) /\ (bare # <<>> => bare[1].from = "bare")
        BY <1>3, <4>1
      <4> HIDE DEF lines
      <4> QED BY <4>1, <4>2
    <3> QED BY <3>1, <3>2
  <2>2. rest = lines
    <3> HIDE DEF lines
    <3> QED BY <1>8, <2>1
  <2>3. s.reasons \in Seq(Line) /\ Leading(s) = First(lines)
    <3> HIDE DEF rest, lines
    <3>1. pre \in {<<>>, <<PausedReason>>}
      OBVIOUS
    <3> HIDE DEF pre
    <3> QED BY <1>4, <2>1, <2>2, <3>1, LeadingAfterPause
  <2>4. First(lines) = RootCauseMessage(n, full)
    <3> HIDE DEF said, bare
    <3>1. CASE said # <<>>
      BY <1>2, <1>5, <1>6, <3>1
    <3>2. CASE said = <<>>
      BY <1>2, <1>5, <1>6, <1>8, <3>2
    <3> QED BY <3>1, <3>2
  <2>5. First(lines) # <<>> /\ First(lines)[1].noise => said # <<>> /\ said[1].noise
    <3> HIDE DEF said, bare
    <3>1. CASE said = <<>>
      <4>1. First(bare) = <<>> \/ (First(bare) = <<bare[1]>> /\ 1 \in 1..Len(bare))
        BY <1>3 DEF First
      <4>2. First(bare) = <<>> \/ ~First(bare)[1].noise
        BY <1>3, <4>1
      <4> QED BY <3>1, <4>2
    <3>2. CASE said # <<>>
      BY <1>2, <3>2 DEF First
    <3> QED BY <3>1, <3>2
  <2> HIDE DEF lines, said
  <2> QED BY <1>2, <2>3, <2>4, <2>5
<1> QED BY <1>7, <1>8


\* A composition error that keeps recurring is among the events and the reasons,
\* and it is the headline or what the headline points at.
LEMMA EntryRecurs ==
  ASSUME tree \in Trees, NEW i \in 1..Len(Nodes), NEW full \in Lookup(i),
         NEW s, s.reasons = Reasons(Nodes[i], LeadFirst(CauseMessages(Nodes[i])), full),
         NEW j \in 1..Len(full), IsQualifyingEvent(full[j])
  PROVE  /\ \E e \in 1..Len(TrimEvents(full)) : IsQualifyingEvent(TrimEvents(full)[e])
         /\ \E l \in 1..Len(s.reasons) : s.reasons[l].from = "event"
         /\ QualifyingEvent(full) # <<>>
         /\ FromEvent(CauseMessages(Nodes[i]), full) =>
              RootCauseMessage(Nodes[i], full)[1].from = "event"
<1> DEFINE n == Nodes[i]
           msgs == CauseMessages(n)
           said == ReasonsWithEvent(LeadFirst(msgs), full)
           pre == IF n.paused THEN <<PausedReason>> ELSE <<>>
<1>1. msgs \in Seq(Cause) /\ full \in Seq(Event) /\ (n.error => full = <<>>)
  BY SaidOf
<1>2. ~n.error
  BY <1>1
<1>3. \E e \in 1..Len(TrimEvents(full)) : IsQualifyingEvent(TrimEvents(full)[e])
  BY <1>1, TrimKeeps
<1>4. said \in Seq(Line) /\ \E l \in 1..Len(said) : said[l].from = "event"
  BY <1>1, SaidLeads
<1>5. \E l \in 1..Len(s.reasons) : s.reasons[l].from = "event"
  <2>1. pre \in Seq(Line)
    BY LinesTyped
  <2>2. s.reasons = (pre \o <<>>) \o said
    <3> HIDE DEF said
    <3>1. said # <<>>
      BY <1>4
    <3> USE DEF said
    <3> QED BY <1>2, <3>1 DEF Reasons
  <2> HIDE DEF pre, said
  <2>3. s.reasons = pre \o said
    BY <2>1, <2>2
  <2>4. PICK l \in 1..Len(said) : said[l].from = "event"
    BY <1>4
  <2>5. /\ Len(s.reasons) = Len(pre) + Len(said) /\ Len(pre) \in Nat /\ Len(said) \in Nat
        /\ s.reasons[Len(pre) + l] = said[l]
    <3>1. Len(pre \o said) = Len(pre) + Len(said)
      BY <1>4, <2>1, ConcatProperties
    <3>2. l \in 1..Len(said)
      BY <2>4
    <3>3. (pre \o said)[Len(pre) + l] = said[l]
      <4>1. Len(pre) \in Nat /\ Len(said) \in Nat
        BY <1>4, <2>1
      <4>2. Len(pre) + l > Len(pre) /\ Len(pre) + l - Len(pre) = l
        BY <3>2, <4>1
      <4> QED BY <1>4, <2>1, <3>2, ConcatProperties
    <3> QED BY <1>4, <2>1, <2>3, <3>1, <3>3
  <2>6. Len(pre) + l \in 1..Len(s.reasons)
    BY <2>5
  <2> QED BY <2>4, <2>5, <2>6
<1>6. PICK k \in 1..Len(full) : QualifyingEvent(full) = <<full[k]>>
  BY <1>1, QualifyingIsBest
<1>7. EventLine(full[k]).from = "event"
  BY <1>1, LinesTyped
<1>8. FromEvent(msgs, full) => Attribute(msgs, full) = <<EventLine(full[k])>>
  BY <1>6 DEF Attribute
<1>9. FromEvent(msgs, full) => RootCauseMessage(n, full)[1].from = "event"
  <2> DEFINE line == EventLine(full[k])
  <2>1. <<line>> # <<>> /\ <<line>>[1] = line
    OBVIOUS
  <2> HIDE DEF line
  <2>2. Attribute(msgs, full) = <<line>> => RootCauseMessage(n, full) = <<line>>
    BY <2>1, Zenon DEF RootCauseMessage, msgs
  <2> QED BY <1>7, <1>8, <2>1, <2>2 DEF line
<1> QED BY <1>3, <1>5, <1>6, <1>9

\* A suspect that nothing explains is only being deleted, or its conditions just
\* do not say that it is ready; when the rule for a kind says what is at fault.
LEMMA EntryExplained ==
  ASSUME tree \in Trees, NEW i \in 1..Len(Nodes), NEW full \in Lookup(i),
         Nodes[i].rule.state \in {"Pending", "Blocked"} => Nodes[i].rule.reasons # <<>>,
         IsSuspect(Nodes[i]),
         Reasons(Nodes[i], LeadFirst(CauseMessages(Nodes[i])), full) = <<>>
  PROVE  LET n == Nodes[i]
         IN  \/ n.deleting /\ State(n) \in {"Ready", "Unknown"}
             \/ /\ n.rule = Declined /\ ~n.native
                /\ n.conds # <<>> /\ \A j \in 1..Len(n.conds) : ~Failing(n.conds[j])
<1> DEFINE n == Nodes[i]
           msgs == CauseMessages(n)
           said == ReasonsWithEvent(LeadFirst(msgs), full)
           bare == BareStateMessages(n)
           pre == IF n.paused THEN <<PausedReason>> ELSE <<>>
           unread == IF n.error THEN <<Unreachable>> ELSE <<>>
           lines == IF said = <<>> THEN bare ELSE said
<1>1. /\ msgs \in Seq(Cause) /\ full \in Seq(Event)
      /\ n.conds \in Seq(Condition) /\ n.rule \in Verdict
  BY SaidOf
<1>2. said \in Seq(Line) /\ (said = <<>> => msgs = <<>>)
  <2>1. said \in Seq(Line) /\ First(said) = Attribute(msgs, full)
    BY <1>1, SaidLeads
  <2>2. ASSUME said = <<>> PROVE msgs = <<>>
    <3>1. Attribute(msgs, full) = <<>>
      BY <2>1, <2>2 DEF First
    <3>2. First(LeadFirst(msgs)) = <<>>
      BY <3>1 DEF Attribute
    <3>3. LeadFirst(msgs) = <<>>
      BY <3>2 DEF First
    <3>4. Len(LeadFirst(msgs)) = Len(msgs)
      BY <1>1, LeadFirstReorders
    <3> QED BY <1>1, <3>3, <3>4
  <2> QED BY <2>1, <2>2
<1>3. bare \in Seq(Line)
  <2>1. bare \in Seq({line \in Line : line.from = "bare" /\ ~line.noise})
    BY <1>1, BareTyped
  <2> HIDE DEF bare
  <2> QED BY <2>1
<1>4. pre \in Seq(Line) /\ unread \in Seq(Line) /\ (pre \o unread) \o lines = <<>>
  <2>1. Unreachable \in Line /\ PausedReason \in Line
    BY LinesTyped
  <2>2. (pre \o unread) \o lines = <<>>
    BY DEF Reasons
  <2> HIDE DEF lines
  <2> QED BY <2>1, <2>2
<1>5. pre = <<>> /\ unread = <<>> /\ lines = <<>>
  <2>1. lines \in Seq(Line)
    <3> HIDE DEF said, bare
    <3> QED BY <1>2, <1>3
  <2> HIDE DEF pre, unread, lines
  <2> QED BY <1>4, <2>1
<1>6. ~n.error
  <2>1. <<Unreachable>> # <<>>
    OBVIOUS
  <2> QED BY <1>5, <2>1
<1>7. said = <<>> /\ bare = <<>> /\ msgs = <<>>
  <2> HIDE DEF said, bare
  <2> QED BY <1>2, <1>5
<1>8. n.rule.reasons = <<>>
  BY <1>7 DEF CauseMessages
<1>9. n.rule.state \in {"Ready", "declined"}
  BY <1>1, <1>8 DEF Verdict
<1>10. \/ State(n) \notin {"Blocked", "Pending"}
       \/ /\ \A j \in 1..Len(n.conds) : ~Failing(n.conds[j])
          /\ State(n) = "Pending" => n.conds # <<>>
  BY <1>1, <1>6, <1>7, BareSaysNothing
<1>11. State(n) \in {"Blocked", "Pending", "Ready", "Unknown"}
  BY <1>6, <1>9 DEF State, Classify
<1>12. CASE State(n) \in {"Ready", "Unknown"}
  BY <1>12 DEF IsSuspect
<1>13. CASE State(n) \in {"Blocked", "Pending"}
  <2>1. \A j \in 1..Len(n.conds) : ~Failing(n.conds[j])
    BY <1>10, <1>13
  <2>2. n.rule.state = "declined" /\ State(n) = Classify(n.native, n.conds)
    BY <1>6, <1>9, <1>13 DEF State
  <2>3. n.rule = Declined
    <3>1. n.rule = [state |-> n.rule.state, reasons |-> n.rule.reasons]
      <4> HIDE DEF n
      <4> QED BY <1>1 DEF Verdict
    <3> QED BY <1>8, <2>2, <3>1 DEF Declined
  <2>4. State(n) = "Pending" /\ ~n.native
    <3>1. Classify(n.native, n.conds) # "Blocked" /\ (Classify(n.native, n.conds) = "Pending" => ~n.native)
      BY <1>1, <2>1, ClassifyFailing
    <3> QED BY <1>13, <2>2, <3>1
  <2> QED BY <1>10, <2>1, <2>3, <2>4
<1> QED BY <1>11, <1>12, <1>13


\* These hints bring what a suspect carries.
CarriedIn(s, hints) ==
  \A t : t \in Carried(s) <=>
           \E k \in 1..Len(hints) : Telling(hints[k]) /\ Text(hints[k]) = t

\* What a suspect with these events carries is what is in the hints that its
\* errors are decoded from, whichever of its messages leads.
LEMMA EntryHints ==
  ASSUME tree \in Trees, NEW i \in 1..Len(Nodes), NEW full \in Lookup(i),
         NEW s, s.node = i, s.full = full
  PROVE  LET hints == HintsOf(LeadFirst(CauseMessages(Nodes[i]))) \o HintsOf(full)
         IN  hints \in Seq(Nat) /\ CarriedIn(s, hints)
<1> DEFINE msgs == CauseMessages(Nodes[i])
           a == HintsOf(msgs)
           b == HintsOf(LeadFirst(msgs))
           c == HintsOf(full)
<1>1. msgs \in Seq(Cause) /\ full \in Seq(Event)
  BY SaidOf
<1>2. /\ LeadFirst(msgs) \in Seq(Cause) /\ Len(LeadFirst(msgs)) = Len(msgs)
      /\ \A m \in 1..Len(msgs) : \E l \in 1..Len(msgs) : LeadFirst(msgs)[l] = msgs[m]
      /\ \A l \in 1..Len(msgs) : \E m \in 1..Len(msgs) : LeadFirst(msgs)[l] = msgs[m]
  BY <1>1, LeadFirstReorders
<1>3. ASSUME NEW said \in Seq(Cause) \cup Seq(Event)
      PROVE  Len(said) \in Nat /\ \A n \in 1..Len(said) : said[n].hints \in Seq(Nat)
  <2>1. CASE said \in Seq(Cause)
    BY <2>1 DEF Cause, Line
  <2>2. CASE said \in Seq(Event)
    <3>1. \A e \in Event : e.hints \in Seq(Nat)
      BY DEF Event
    <3>2. \A n \in 1..Len(said) : said[n] \in Event
      BY <2>2
    <3> QED BY <2>2, <3>1, <3>2
  <2> QED BY <2>1, <2>2
<1>4. /\ a \in Seq(Nat)
      /\ \A h : Contains(a, h) <=> \E n \in 1..Len(msgs) : Contains(msgs[n].hints, h)
  BY <1>1, <1>3, HintsGathered
<1>5. /\ b \in Seq(Nat)
      /\ \A h : Contains(b, h) <=>
                  \E n \in 1..Len(LeadFirst(msgs)) : Contains(LeadFirst(msgs)[n].hints, h)
  BY <1>2, <1>3, HintsGathered
<1>6. c \in Seq(Nat)
  BY <1>1, <1>3, HintsGathered
<1>7. \A h : Contains(b, h) <=> Contains(a, h)
  <2> HIDE DEF msgs, a, b
  <2> QED BY <1>2, <1>4, <1>5
<1>8. Carried(s) = {t \in {Text(h) : h \in Range(a \o c) \cap Hints} : Range(LinesIn(t)) \ {"blank"} # {}}
  BY DEF Carried
<1> HIDE DEF msgs, a, b, c
<1>9. ASSUME NEW u \in Seq(Nat)
      PROVE  /\ u \o c \in Seq(Nat)
             /\ \A h : (\E k \in 1..Len(u \o c) : (u \o c)[k] = h) <=> Contains(u, h) \/ Contains(c, h)
  <2>1. /\ Len(u \o c) = Len(u) + Len(c) /\ Len(u) \in Nat /\ Len(c) \in Nat
        /\ \A k \in 1..Len(u) : (u \o c)[k] = u[k]
        /\ \A k \in 1..Len(c) : (u \o c)[Len(u) + k] = c[k]
    BY <1>6, <1>9, ConcatProperties
  <2>2. \A k \in 1..Len(u \o c) : k \in 1..Len(u) \/ (k - Len(u) \in 1..Len(c) /\ k = Len(u) + (k - Len(u)))
    BY <2>1
  <2>3. \A k \in 1..Len(u) : k \in 1..Len(u \o c)
    BY <2>1
  <2>4. \A k \in 1..Len(c) : Len(u) + k \in 1..Len(u \o c)
    BY <2>1
  <2>5. ASSUME NEW h, NEW k \in 1..Len(u \o c), (u \o c)[k] = h PROVE Contains(u, h) \/ Contains(c, h)
    BY <2>1, <2>2, <2>5 DEF Contains
  <2>6. ASSUME NEW h, Contains(u, h) \/ Contains(c, h) PROVE \E k \in 1..Len(u \o c) : (u \o c)[k] = h
    BY <2>1, <2>3, <2>4, <2>6 DEF Contains
  <2>7. u \o c \in Seq(Nat)
    BY <1>6, <1>9
  <2> QED BY <2>5, <2>6, <2>7
<1>10. \A h : h \in Range(a \o c) <=> \E k \in 1..Len(b \o c) : (b \o c)[k] = h
  <2>1. a \o c \in Seq(Nat) /\ b \o c \in Seq(Nat)
    BY <1>4, <1>5, <1>9
  <2>2. \A h : h \in Range(a \o c) <=> \E k \in 1..Len(a \o c) : (a \o c)[k] = h
    <3> DEFINE all == a \o c
    <3>1. all \in Seq(Nat)
      BY <2>1
    <3> HIDE DEF all
    <3>2. DOMAIN all = 1..Len(all)
      BY <3>1
    <3>3. \A h : h \in Range(all) <=> \E k \in 1..Len(all) : all[k] = h
      BY <3>2 DEF Range
    <3> QED BY <3>3 DEF all
  <2> QED BY <1>4, <1>5, <1>7, <1>9, <2>2
<1>11. \A t : t \in Carried(s) <=>
                \E k \in 1..Len(b \o c) : Telling((b \o c)[k]) /\ Text((b \o c)[k]) = t
  <2>1. \A t : t \in Carried(s) <=> \E h \in Range(a \o c) : Telling(h) /\ Text(h) = t
    BY <1>8 DEF Telling
  <2> QED BY <1>10, <2>1
<1>12. b \o c \in Seq(Nat) /\ CarriedIn(s, b \o c)
  BY <1>5, <1>9, <1>11 DEF CarriedIn
<1> QED BY <1>12 DEF b, c, msgs

\* The entry of a decoded error shows what the property asks of it.
LEMMA EntryShown ==
  ASSUME NEW h \in Hints, Telling(h), NEW d, d = Decode(h)
  PROVE  LET lines  == LinesIn(d.text)
             shown  == d.shown
             errors == {i \in 1..Len(lines) : lines[i] = "error"}
             plain  == {i \in 1..Len(lines) : lines[i] \in {"error", "plain"}}
             lost   == {i \in shown[1]..shown[Len(shown)] : lines[i] # "log"} \ Range(shown)
         IN  /\ Len(shown) \in 1..MaxActionableLines
             /\ errors # {} => lines[shown[1]] = "error" /\ \A e \in errors : shown[1] <= e
             /\ plain # {} => \A i \in plain : i <= shown[Len(shown)]
             /\ IF errors = {} THEN lost \cap plain = {}
                ELSE lost = {} \/ -Cardinality(lost) \in Range(shown)
<1> DEFINE lines == LinesIn(d.text)
           shown == d.shown
           errors == {i \in 1..Len(lines) : lines[i] = "error"}
           plain == {i \in 1..Len(lines) : lines[i] \in {"error", "plain"}}
           lost == {i \in shown[1]..shown[Len(shown)] : lines[i] # "log"} \ Range(shown)
<1>1. lines \in Lines /\ shown = ExtractActionable(lines)
  BY ShownTyped, ActionableAssumption
<1>2. PICK some \in 1..Len(lines) : lines[some] # "blank"
  <2>1. Range(lines) \ {"blank"} # {}
    BY ShownTyped DEF Telling
  <2>2. DOMAIN lines = 1..Len(lines)
    BY <1>1 DEF Lines
  <2> HIDE DEF lines
  <2> QED BY <2>1, <2>2 DEF Range
<1> HIDE DEF lines, shown
<1>3. CASE errors # {}
  <2>1. PICK error \in 1..Len(lines) : lines[error] = "error"
    BY <1>3
  <2>2. /\ shown \in Seq(Int) /\ Len(shown) \in 1..MaxActionableLines
        /\ lines[shown[1]] = "error"
        /\ \A i \in 1..Len(lines) : lines[i] = "error" => shown[1] <= i
        /\ \A i \in 1..Len(lines) : lines[i] \in {"error", "plain"} => i <= shown[Len(shown)]
        /\ lost = {} \/ -Cardinality(lost) \in Range(shown)
    BY <1>1, <2>1, ErrorsShown
  <2> HIDE DEF lost
  <2>3. \A e \in errors : shown[1] <= e
    BY <2>2
  <2>4. \A i \in plain : i <= shown[Len(shown)]
    BY <2>2
  <2> HIDE DEF errors, plain
  <2> USE DEF lines, shown, errors, plain, lost
  <2> QED BY <1>3, <2>2, <2>3, <2>4
<1>4. CASE errors = {}
  <2>1. \A i \in 1..Len(lines) : lines[i] # "error"
    BY <1>4
  <2>2. /\ shown \in Seq(Int) /\ Len(shown) \in 1..MaxActionableLines
        /\ \A i \in 1..Len(lines) :
             lines[i] = "plain" => /\ i <= shown[Len(shown)]
                                   /\ i >= shown[1] => i \in Range(shown)
    BY <1>1, <1>2, <2>1, OthersShown
  <2>3. \A i \in plain : i <= shown[Len(shown)]
    BY <2>1, <2>2
  <2>4. lost \cap plain = {}
    <3> SUFFICES ASSUME NEW i \in lost, i \in plain PROVE FALSE
      OBVIOUS
    <3>1. lines[i] = "plain" /\ i \in 1..Len(lines) /\ i >= shown[1]
      BY <2>1, <2>2, <1>1
    <3> QED BY <2>2, <3>1
  <2> USE DEF lines, shown
  <2> QED BY <1>4, <2>2, <2>3, <2>4
<1> QED BY <1>3, <1>4

-----------------------------------------------------------------------------
(* The rules for native kinds.                                             *)

\* What nativeReadiness is given: the object with its conditions.
NativeObject ==
  [gk : STRING, conds : Seq(Condition), status : BOOLEAN, phase : STRING,
   said : {"", "noise", "genuine"}, hints : Seq(Nat), ready : Nat, want : Nat]

\* The verdict on every node is that of the rule for its kind, on its conditions.
RulesApplied ==
  \A t \in Trees : \A i \in 1..Len(t.nodes) :
    \E o \in NativeObject :
      o.conds = t.nodes[i].conds /\ t.nodes[i].rule = NativeReadiness(o)

\* A rule that finds fault always says which.
LEMMA NativeExplains ==
  ASSUME NEW o \in NativeObject, NativeReadiness(o).state \in {"Pending", "Blocked"}
  PROVE  NativeReadiness(o).reasons # <<>>
<1>1. \A c : \E line : LineOr(c) = <<line>>
  BY DEF LineOr
<1>2. CASE NativeReadiness(o) = DeploymentReadiness(o.conds)
  BY <1>1, <1>2 DEF DeploymentReadiness, Says, Declined
<1>3. CASE NativeReadiness(o) = JobReadiness(o.conds)
  BY <1>1, <1>3 DEF JobReadiness, Says
<1>4. CASE NativeReadiness(o) = PvcReadiness(o)
  BY <1>4 DEF PvcReadiness, Says, Declined
<1>5. CASE NativeReadiness(o) = PodReadiness(o)
  <2>1. \/ PodReadiness(o) \in {Says("Ready", <<>>), Declined}
        \/ PodReadiness(o) = Says("Blocked", <<ConditionLine(ConditionByType(o.conds, "Ready")[1])>>)
        \/ PodReadiness(o) = Says("Blocked", <<RuleLine("phase")>>)
        \/ PodReadiness(o) = Says("Blocked", <<StatusLine(o)>>)
    <3>1. CASE o.phase = "Succeeded"
      BY <3>1 DEF PodReadiness
    <3>2. CASE o.phase # "Succeeded" /\ o.phase = "Failed"
      BY <3>2, Zenon DEF PodReadiness
    <3>3. CASE o.phase \notin {"Succeeded", "Failed"}
      BY <3>3, Zenon DEF PodReadiness
    <3> QED BY <3>1, <3>2, <3>3
  <2> QED BY <1>5, <2>1 DEF Says, Declined
<1>6. CASE NativeReadiness(o) = StatefulSetReadiness(o)
  BY <1>6 DEF StatefulSetReadiness, Says, Declined
<1>7. CASE NativeReadiness(o) = Declined
  BY <1>7 DEF Declined
<1> QED BY <1>2, <1>3, <1>4, <1>5, <1>6, <1>7 DEF NativeReadiness

-----------------------------------------------------------------------------
(* The report: an invariant on its entries, one on what was decoded so     *)
(* far, and one on the summary.                                            *)

TextsOf(e) == {e.decoded[k].text : k \in 1..Len(e.decoded)}

\* What an entry of the report on suspect i is.
EntryOf(e, i) ==
  /\ e.node = i /\ e.full \in Lookup(i)
  /\ e.reasons = Reasons(Nodes[i], LeadFirst(CauseMessages(Nodes[i])), e.full)
  /\ e.events = TrimEvents(e.full)
  /\ \A k \in 1..Len(e.decoded) : \E h \in Hints : Telling(h) /\ e.decoded[k] = Decode(h)

\* The first of the ranked suspects are reported, in their order.
ReportInv ==
  /\ phase # "ranking" => suspects = RankedSuspects
  /\ phase = "reporting" => suspects # <<>>
  /\ Len(reported) <= Reported
  /\ phase = "done" => Len(reported) = Reported
  /\ reported \in Seq(Suspect)
  /\ \A s \in 1..Len(reported) : EntryOf(reported[s], suspects[s])

\* What was decoded is all that the suspects so far carry, and no text twice.
OnceInv ==
  /\ Seen = UNION {Carried(reported[r]) : r \in 1..Len(reported)}
  /\ DecodedOnce

\* The headline is about the first entry.
SummaryInv ==
  Done /\ reported # <<>> =>
    LET msgs == CauseMessages(Nodes[suspects[1]])
        full == reported[1].full
    IN  /\ summary.root = suspects[1]
        /\ summary.cause = RootCauseMessage(Nodes[suspects[1]], full)
        /\ summary.recurring = IF FromEvent(msgs, full) THEN <<>> ELSE QualifyingEvent(full)

\* No text twice, and of what is carried what was not seen.
DecodesAnew(e) ==
  /\ \A k, l \in 1..Len(e.decoded) : e.decoded[k].text = e.decoded[l].text => k = l
  /\ TextsOf(e) = Carried(e) \ Seen

\* What BuildSuspect makes is such an entry, and it decodes what the suspect
\* carries and none before it did.
LEMMA BuildsEntry ==
  ASSUME tree \in Trees, NEW i \in 1..Len(Nodes), NEW full \in Lookup(i),
         NEW e, e = BuildSuspect(i, LeadFirst(CauseMessages(Nodes[i])), full)
  PROVE  e \in Suspect /\ EntryOf(e, i) /\ DecodesAnew(e)
<1> DEFINE msgs == CauseMessages(Nodes[i])
           hints == HintsOf(LeadFirst(msgs)) \o HintsOf(full)
<1>1. /\ e.node = i /\ e.full = full /\ e.reasons = Reasons(Nodes[i], LeadFirst(msgs), full)
      /\ e.events = TrimEvents(full) /\ e.decoded = DecodeTFErrors(LeadFirst(msgs), full, Seen)
      /\ e = [node |-> e.node, reasons |-> e.reasons, decoded |-> e.decoded,
              events |-> e.events, full |-> e.full]
  BY DEF BuildSuspect
<1>2. e.decoded = DecodedFrom(hints, Seen)
  BY <1>1 DEF DecodeTFErrors, DecodedFrom
<1>3. hints \in Seq(Nat) /\ CarriedIn(e, hints)
  <2>1. e.node = i /\ e.full = full
    BY <1>1
  <2> HIDE DEF hints
  <2>2. LET all == HintsOf(LeadFirst(CauseMessages(Nodes[i]))) \o HintsOf(full)
        IN  all \in Seq(Nat) /\ CarriedIn(e, all)
    BY <2>1, EntryHints
  <2> QED BY <2>2 DEF hints
<1> HIDE DEF hints
<1>4. /\ e.decoded \in Seq(DecodedError)
      /\ \A k \in 1..Len(e.decoded) : \E h \in Hints : Telling(h) /\ e.decoded[k] = Decode(h)
      /\ \A k, l \in 1..Len(e.decoded) : e.decoded[k].text = e.decoded[l].text => k = l
      /\ \A t : (\E k \in 1..Len(e.decoded) : e.decoded[k].text = t)
                  <=> t \notin Seen /\ \E k \in 1..Len(hints) :
                        Telling(hints[k]) /\ Text(hints[k]) = t
  <2>1. LET d == DecodedFrom(hints, Seen)
        IN  /\ d \in Seq(DecodedError)
            /\ \A k \in 1..Len(d) : \E h \in Hints : Telling(h) /\ d[k] = Decode(h)
            /\ \A k, l \in 1..Len(d) : d[k].text = d[l].text => k = l
            /\ \A t : (\E k \in 1..Len(d) : d[k].text = t)
                        <=> t \notin Seen /\ \E k \in 1..Len(hints) :
                              Telling(hints[k]) /\ Text(hints[k]) = t
    BY <1>3, DecodesFresh
  <2> QED BY <1>2, <2>1, SMTT(30)
<1>5. TextsOf(e) = Carried(e) \ Seen
  <2>1. \A t : t \in TextsOf(e) <=> \E k \in 1..Len(e.decoded) : e.decoded[k].text = t
    BY DEF TextsOf
  <2>2. \A t : t \in TextsOf(e) <=> t \in Carried(e) \ Seen
    <3> SUFFICES ASSUME NEW t PROVE t \in TextsOf(e) <=> t \in Carried(e) \ Seen
      OBVIOUS
    <3>1. (\E k \in 1..Len(e.decoded) : e.decoded[k].text = t)
            <=> t \notin Seen /\ \E k \in 1..Len(hints) :
                  Telling(hints[k]) /\ Text(hints[k]) = t
      BY <1>4
    <3>2. t \in Carried(e) <=> \E k \in 1..Len(hints) : Telling(hints[k]) /\ Text(hints[k]) = t
      BY <1>3 DEF CarriedIn
    <3> QED BY <2>1, <3>1, <3>2
  <2> QED BY <2>2
<1>6. e.reasons \in Seq(Line)
  BY <1>1, EntryLeads
<1>7. full \in Seq(Event) /\ TrimEvents(full) \in Seq(Event)
  BY SaidOf, TrimKeeps
<1>8. i \in Nat \ {0}
  BY TreesAssumption DEF Nodes
<1>9. e \in Suspect
  BY <1>1, <1>4, <1>6, <1>7, <1>8 DEF Suspect
<1>10. EntryOf(e, i)
  BY <1>1, <1>4 DEF EntryOf
<1> QED BY <1>4, <1>5, <1>9, <1>10 DEF DecodesAnew

\* A suspect that will be reported is a node of the tree.
LEMMA SuspectsAreNodes ==
  ASSUME ControlInv, ReportInv
  PROVE  /\ suspects \in Seq(1..Len(Nodes))
         /\ Reported \in Nat /\ Reported <= Len(suspects) /\ Reported <= MaxSuspects
         /\ Reported < Len(suspects) => Reported = MaxSuspects
         /\ \A s \in 1..Reported : suspects[s] \in 1..Len(Nodes)
<1>1. suspects \in Seq(1..Len(Nodes))
  <2>1. CASE phase = "ranking"
    BY <2>1 DEF ControlInv
  <2>2. CASE phase # "ranking"
    BY <2>2, RankedSuspectsSorted DEF ControlInv, ReportInv
  <2> QED BY <2>1, <2>2
<1>2. /\ Reported \in Nat /\ Reported <= Len(suspects) /\ Reported <= MaxSuspects
      /\ Reported < Len(suspects) => Reported = MaxSuspects
  BY SuspectsAssumption DEF ControlInv, Reported
<1>3. \A s \in 1..Reported : s \in 1..Len(suspects)
  BY <1>2 DEF ControlInv
<1> QED BY <1>1, <1>2, <1>3

\* The loop appends the entry of the next suspect.
LEMMA ReportAppends ==
  ASSUME ControlInv, OwnEvents, ReportInv, ReportPrefetched
  PROVE  /\ UNCHANGED <<tree, phase, suspects, summary>>
         /\ phase = "reporting" /\ Len(reported) + 1 \in 1..Reported
         /\ LET i == suspects[Len(reported) + 1]
            IN  /\ i \in 1..Len(Nodes)
                /\ \E full \in Lookup(i) :
                     reported' = Append(reported,
                       BuildSuspect(i, LeadFirst(CauseMessages(Nodes[i])), full))
<1> DEFINE next == Len(reported) + 1
<1>1. next \in (1..Reported) \ fetching
  BY ReportedType DEF ReportPrefetched, ControlInv
<1>2. suspects[next] \in 1..Len(Nodes) /\ out[next] \in Lookup(suspects[next])
  BY <1>1, SuspectsAreNodes DEF OwnEvents
<1>3. /\ UNCHANGED <<tree, phase, suspects, summary>> /\ phase = "reporting"
      /\ reported' = Append(reported,
           BuildSuspect(suspects[next], LeadFirst(CauseMessages(Nodes[suspects[next]])), out[next]))
  BY DEF ReportPrefetched, Report
<1> QED BY <1>1, <1>2, <1>3

\* The same entries are entries after a step that keeps the tree.
LEMMA EntriesStay ==
  ASSUME tree' = tree
  PROVE  /\ Nodes' = Nodes /\ RankedSuspects' = RankedSuspects
         /\ \A e, i : EntryOf(e, i)' <=> EntryOf(e, i)
         /\ \A e : Carried(e)' = Carried(e)
<1>1. Nodes' = Nodes
  BY DEF Nodes
<1>2. Failures' = Failures /\ \A i, j : Before(i, j)' = Before(i, j)
  BY <1>1 DEF Failures, Before
<1>3. \A i : Place(i)' = Place(i)
  BY <1>2 DEF Place
<1>4. RankedSuspects' = RankedSuspects
  BY <1>2, <1>3 DEF RankedSuspects
<1>5. \A e, i : EntryOf(e, i)' <=> EntryOf(e, i)
  BY <1>1 DEF EntryOf, Lookup
<1>6. \A e : Carried(e)' = Carried(e)
  BY <1>1 DEF Carried
<1> QED BY <1>1, <1>4, <1>5, <1>6


\* A step that only fetches, or none at all, leaves the answer alone.
LEMMA FetchKeeps ==
  ASSUME NEW i, EventsReturned(i)
  PROVE  UNCHANGED <<tree, phase, suspects, reported, summary>>
BY DEF EventsReturned, diagnosisVars

\* Nothing reported is nothing decoded.
LEMMA ReportInit == PrefetchInit => ReportInv /\ OnceInv /\ SummaryInv
<1> SUFFICES ASSUME PrefetchInit PROVE ReportInv /\ OnceInv /\ SummaryInv
  OBVIOUS
<1>1. phase = "ranking" /\ suspects = <<>> /\ reported = <<>>
  BY DEF PrefetchInit, Init
<1>2. Reported = 0
  BY <1>1, SuspectsAssumption DEF Reported
<1>3. ReportInv
  BY <1>1, <1>2 DEF ReportInv
<1>4. OnceInv
  BY <1>1 DEF OnceInv, Seen, DecodedOnce
<1>5. SummaryInv
  BY <1>1 DEF SummaryInv, Done
<1> QED BY <1>3, <1>4, <1>5

\* The report keeps its order, and its entries, whatever step is taken.
LEMMA ReportStep ==
  ControlInv /\ OwnEvents /\ ReportInv /\ [PrefetchNext]_vars => ReportInv'
<1> SUFFICES ASSUME ControlInv, OwnEvents, ReportInv, [PrefetchNext]_vars PROVE ReportInv'
  OBVIOUS
<1>1. CASE RankAndSpawn
  <2>1. /\ tree' = tree /\ reported' = <<>> /\ suspects' = RankedSuspects
        /\ phase' = IF suspects' = <<>> THEN "done" ELSE "reporting"
    BY <1>1 DEF RankAndSpawn, Rank, ControlInv
  <2>2. RankedSuspects' = RankedSuspects
    BY <2>1, EntriesStay
  <2>3. ControlInv'
    BY ControlStep
  <2>4. Reported' \in Nat /\ (suspects' = <<>> => Reported' = 0)
    <3>1. Len(suspects') \in Nat
      BY <2>3 DEF ControlInv
    <3> QED BY <3>1, SuspectsAssumption DEF Reported
  <2> QED BY <2>1, <2>2, <2>4 DEF ReportInv
<1>2. CASE ReportPrefetched
  <2> DEFINE i == suspects[Len(reported) + 1]
  <2>1. /\ UNCHANGED <<tree, phase, suspects, summary>>
        /\ phase = "reporting" /\ Len(reported) + 1 \in 1..Reported /\ i \in 1..Len(Nodes)
    BY <1>2, ReportAppends
  <2>2. PICK full \in Lookup(i) :
          reported' = Append(reported, BuildSuspect(i, LeadFirst(CauseMessages(Nodes[i])), full))
    BY <1>2, ReportAppends
  <2> DEFINE e == BuildSuspect(i, LeadFirst(CauseMessages(Nodes[i])), full)
  <2>3. e \in Suspect /\ EntryOf(e, i)
    BY <2>1, BuildsEntry DEF ControlInv
  <2> HIDE DEF e
  <2>4. reported \in Seq(Suspect) /\ \A s \in 1..Len(reported) : EntryOf(reported[s], suspects[s])
    BY DEF ReportInv
  <2>5. /\ reported' \in Seq(Suspect) /\ Len(reported') = Len(reported) + 1
        /\ \A s \in 1..Len(reported) : reported'[s] = reported[s]
        /\ reported'[Len(reported) + 1] = e
    BY <2>2, <2>3, <2>4, AppendProperties DEF e
  <2>6. ASSUME NEW s \in 1..Len(reported') PROVE EntryOf(reported'[s], suspects[s])
    <3>1. CASE s \in 1..Len(reported)
      BY <2>4, <2>5, <3>1
    <3>2. CASE s = Len(reported) + 1
      BY <2>3, <2>5, <3>2
    <3> QED BY <2>4, <2>5, <3>1, <3>2
  <2>7. Reported' = Reported /\ suspects = RankedSuspects
    BY <2>1 DEF Reported, ReportInv
  <2>8. /\ RankedSuspects' = RankedSuspects
        /\ \A d, j : EntryOf(d, j)' <=> EntryOf(d, j)
    BY <2>1, EntriesStay
  <2>9. \A s \in 1..Len(reported') : EntryOf(reported[s], suspects[s])'
    BY <2>1, <2>6, <2>8
  <2>10. Len(reported') <= Reported' /\ phase' = "reporting" /\ suspects' = suspects /\ suspects # <<>>
    BY <2>1, <2>5, <2>7 DEF ReportInv
  <2> QED BY <2>5, <2>7, <2>8, <2>9, <2>10 DEF ReportInv
<1>3. CASE \/ SummariseJoined \/ UNCHANGED vars
           \/ \E i \in 1..Reported : EventsReturned(i)
  <2>1. /\ UNCHANGED <<tree, suspects, reported>>
        /\ phase' = phase \/ (phase' = "done" /\ phase = "reporting" /\ Len(reported) = Reported)
    BY <1>3, FetchKeeps DEF SummariseJoined, Summarise, vars
  <2>2. /\ RankedSuspects' = RankedSuspects /\ Reported' = Reported
        /\ \A d, j : EntryOf(d, j)' <=> EntryOf(d, j)
    BY <2>1, EntriesStay DEF Reported
  <2>3. \A s \in 1..Len(reported) : EntryOf(reported[s], suspects[s])'
    BY <2>1, <2>2 DEF ReportInv
  <2> QED BY <2>1, <2>2, <2>3 DEF ReportInv
<1> QED BY <1>1, <1>2, <1>3 DEF PrefetchNext

\* Each new entry decodes what it carries and none before it did.
LEMMA OnceStep ==
  ControlInv /\ OwnEvents /\ ReportInv /\ OnceInv /\ [PrefetchNext]_vars => OnceInv'
<1> SUFFICES ASSUME ControlInv, OwnEvents, ReportInv, OnceInv, [PrefetchNext]_vars PROVE OnceInv'
  OBVIOUS
<1> DEFINE carried(n) == UNION {Carried(reported[r]) : r \in 1..n}
           told(r) == {reported[r].decoded[k].text : k \in 1..Len(reported[r].decoded)}
           Once(s) == LET texts == [k \in 1..Len(reported[s].decoded) |-> reported[s].decoded[k].text]
                      IN  IsInjective(texts) /\ Range(texts) = Carried(reported[s]) \ carried(s - 1)
<1>1. CASE RankAndSpawn
  <2>1. reported' = <<>>
    BY <1>1 DEF RankAndSpawn, Rank, ControlInv
  <2> QED BY <2>1 DEF OnceInv, Seen, DecodedOnce
<1>2. CASE ReportPrefetched
  <2>1. PICK L \in Nat, i \in 1..Len(Nodes) : L = Len(reported) /\ i = suspects[L + 1]
    BY <1>2, ReportAppends DEF ReportInv
  <2>2. PICK full \in Lookup(i) :
          reported' = Append(reported, BuildSuspect(i, LeadFirst(CauseMessages(Nodes[i])), full))
    BY <1>2, <2>1, ReportAppends
  <2>3. PICK e : e = BuildSuspect(i, LeadFirst(CauseMessages(Nodes[i])), full)
    OBVIOUS
  <2>4. /\ e \in Suspect
        /\ \A k, l \in 1..Len(e.decoded) : e.decoded[k].text = e.decoded[l].text => k = l
        /\ TextsOf(e) = Carried(e) \ Seen
    <3>1. e \in Suspect /\ DecodesAnew(e)
      BY <2>3, BuildsEntry DEF ControlInv
    <3> QED BY <3>1 DEF DecodesAnew
  <2>5. /\ Len(reported') = L + 1
        /\ \A s \in 1..L : reported'[s] = reported[s]
        /\ reported'[L + 1] = e
    <3>1. reported \in Seq(Suspect) /\ reported' = Append(reported, e)
      BY <2>2, <2>3 DEF ReportInv
    <3> QED BY <2>1, <2>4, <3>1, AppendProperties
  <2>6. \A d : Carried(d)' = Carried(d)
    <3>1. tree' = tree
      BY <1>2, ReportAppends
    <3> QED BY <3>1, EntriesStay
  <2>7. /\ \A s \in 1..L : Carried(reported[s])' = Carried(reported[s])
        /\ Carried(reported[L + 1])' = Carried(e)
    BY <2>5, <2>6
  <2>8. Seen = carried(L) /\ \A s \in 1..L : Once(s)
    BY <2>1 DEF OnceInv, DecodedOnce
  <2>9. /\ 1..(L + 1) = (1..L) \cup {L + 1} /\ (L + 1) - 1 = L
        /\ \A s \in 1..L : 1..(s - 1) \subseteq 1..L
    BY <2>1
  <2>10. carried(L)' = carried(L) /\ \A s \in 1..L : carried(s - 1)' = carried(s - 1)
    <3>1. \A n : 1..n \subseteq 1..L => carried(n)' = carried(n)
      BY <2>7
    <3> HIDE DEF carried
    <3> QED BY <2>9, <3>1
  <2>11. carried(L + 1)' = carried(L) \cup Carried(e)
    <3>1. carried(L + 1)' = carried(L)' \cup Carried(e)
      BY <2>7, <2>9
    <3> HIDE DEF carried
    <3> QED BY <2>10, <3>1
  <2>12. Seen' = Seen \cup TextsOf(e)
    <3>1. Seen = UNION {told(r) : r \in 1..L} /\ Seen' = UNION {told(r)' : r \in 1..(L + 1)}
      BY <2>1, <2>5 DEF Seen
    <3>2. \A r \in 1..L : told(r)' = told(r)
      BY <2>5
    <3>3. told(L + 1)' = TextsOf(e)
      BY <2>5 DEF TextsOf
    <3> HIDE DEF told
    <3> QED BY <2>9, <3>1, <3>2, <3>3
  <2>13. Seen' = carried(L + 1)'
    <3> HIDE DEF carried
    <3> QED BY <2>4, <2>8, <2>11, <2>12
  <2>14. ASSUME NEW s \in 1..L PROVE Once(s)'
    <3>1. carried(s - 1)' = carried(s - 1) /\ reported'[s] = reported[s]
          /\ Carried(reported[s])' = Carried(reported[s])
      <4> HIDE DEF carried
      <4> QED BY <2>5, <2>7, <2>10
    <3>2. Once(s)
      BY <2>8
    <3> HIDE DEF carried
    <3> QED BY <3>1, <3>2
  <2>15. Once(L + 1)'
    <3> DEFINE texts == [k \in 1..Len(e.decoded) |-> e.decoded[k].text]
    <3>1. IsInjective(texts)
      BY <2>4 DEF IsInjective
    <3>2. Range(texts) = TextsOf(e)
      BY DEF Range, TextsOf
    <3>3. carried((L + 1) - 1)' = Seen
      <4> HIDE DEF carried
      <4> QED BY <2>8, <2>9, <2>10
    <3>4. Once(L + 1)' <=>
            LET told1 == [k \in 1..Len(e.decoded) |-> e.decoded[k].text]
            IN  IsInjective(told1) /\ Range(told1) = Carried(e) \ carried((L + 1) - 1)'
      <4> HIDE DEF carried
      <4> QED BY <2>5, <2>7
    <3> HIDE DEF carried, Once
    <3> QED BY <2>4, <3>1, <3>2, <3>3, <3>4
  <2>16. \A s \in 1..Len(reported') : Once(s)'
    <3>1. \A s \in 1..(L + 1) : s \in 1..L \/ s = L + 1
      BY <2>9
    <3> HIDE DEF Once
    <3> QED BY <2>5, <2>14, <2>15, <3>1
  <2>17. Seen' = UNION {Carried(reported[r])' : r \in 1..Len(reported')}
    <3>1. Seen' = UNION {Carried(reported[r])' : r \in 1..(L + 1)}
      BY <2>13
    <3> QED BY <2>5, <3>1
  <2> QED BY <2>16, <2>17 DEF OnceInv, DecodedOnce
<1>3. CASE \/ SummariseJoined \/ UNCHANGED vars
           \/ \E i \in 1..Reported : EventsReturned(i)
  <2>1. UNCHANGED <<tree, reported>>
    BY <1>3, FetchKeeps DEF SummariseJoined, Summarise, vars
  <2>2. \A d : Carried(d)' = Carried(d)
    BY <2>1, EntriesStay
  <2>3. Seen' = Seen /\ \A r : Carried(reported[r])' = Carried(reported[r])
    BY <2>1, <2>2 DEF Seen
  <2>4. Seen' = UNION {Carried(reported[r])' : r \in 1..Len(reported')}
    BY <2>1, <2>3 DEF OnceInv
  <2>5. \A s \in 1..Len(reported) : Once(s) => Once(s)'
    BY <2>1, <2>3
  <2> HIDE DEF Once
  <2>6. \A s \in 1..Len(reported) : Once(s)
    BY DEF OnceInv, DecodedOnce, Once
  <2>7. \A s \in 1..Len(reported') : Once(s)'
    BY <2>1, <2>5, <2>6
  <2> QED BY <2>4, <2>7 DEF OnceInv, DecodedOnce, Once
<1> QED BY <1>1, <1>2, <1>3 DEF PrefetchNext


\* The headline is made of the first entry, at the end.
LEMMA SummaryStep ==
  ControlInv /\ OwnEvents /\ ReportInv /\ SummaryInv /\ [PrefetchNext]_vars => SummaryInv'
<1> SUFFICES ASSUME ControlInv, OwnEvents, ReportInv, SummaryInv, [PrefetchNext]_vars
             PROVE  SummaryInv'
  OBVIOUS
<1>1. CASE RankAndSpawn
  <2>1. reported' = <<>>
    BY <1>1 DEF RankAndSpawn, Rank, ControlInv
  <2> QED BY <2>1 DEF SummaryInv
<1>2. CASE ReportPrefetched
  <2>1. phase' = "reporting"
    BY <1>2, ReportAppends
  <2> QED BY <2>1 DEF SummaryInv, Done
<1>3. CASE SummariseJoined
  <2> DEFINE root == suspects[1]
             full == reported[1].full
  <2>1. /\ UNCHANGED <<tree, suspects, reported>>
        /\ summary' = [NoSummary EXCEPT
             !.root = root,
             !.cause = RootCauseMessage(Nodes[root], full),
             !.recurring = IF FromEvent(CauseMessages(Nodes[root]), full) THEN <<>>
                           ELSE QualifyingEvent(full),
             !.caveat = tree.capped]
    BY <1>3 DEF SummariseJoined, Summarise
  <2>2. /\ summary'.root = root /\ summary'.cause = RootCauseMessage(Nodes[root], full)
        /\ summary'.recurring = IF FromEvent(CauseMessages(Nodes[root]), full) THEN <<>>
                                ELSE QualifyingEvent(full)
    BY <2>1 DEF NoSummary
  <2>3. Nodes' = Nodes
    BY <2>1 DEF Nodes
  <2> QED BY <2>1, <2>2, <2>3 DEF SummaryInv
<1>4. CASE UNCHANGED vars \/ \E i \in 1..Reported : EventsReturned(i)
  <2>1. UNCHANGED <<tree, phase, suspects, reported, summary>>
    BY <1>4, FetchKeeps DEF vars
  <2> QED BY <2>1 DEF SummaryInv, Done, Nodes
<1> QED BY <1>1, <1>2, <1>3, <1>4 DEF PrefetchNext

\* The order of the phases, what was looked up, and what is made of it.
AnswerInv == ControlInv /\ OwnEvents /\ ReportInv /\ OnceInv /\ SummaryInv

\* The invariant that the theorems on the answer share.
THEOREM AnswerHolds == Spec => []AnswerInv
<1>1. PrefetchInit => AnswerInv
  BY ControlInit, OwnEventsInit, ReportInit DEF AnswerInv
<1>2. AnswerInv /\ [PrefetchNext]_vars => AnswerInv'
  BY ControlStep, OwnEventsStep, ReportStep, OnceStep, SummaryStep DEF AnswerInv
<1> QED BY <1>1, <1>2, PTL DEF Spec

-----------------------------------------------------------------------------
(* What the report shows.                                                  *)

\* Each entry is about a suspect of the tree, with what the API server said of it.
LEMMA EntryOfNode ==
  ASSUME AnswerInv, NEW s \in 1..Len(reported)
  PROVE  /\ tree \in Trees /\ s \in 1..Len(suspects) /\ suspects[s] \in Failures
         /\ suspects[s] \in 1..Len(Nodes) /\ EntryOf(reported[s], suspects[s])
         /\ reported[s].node = suspects[s] /\ reported[s].full \in Lookup(suspects[s])
<1>1. EntryOf(reported[s], suspects[s])
  BY DEF AnswerInv, ReportInv
<1>2. tree \in Trees /\ phase # "ranking"
  BY DEF AnswerInv, ControlInv
<1>3. suspects \in Seq(Failures)
  BY <1>2, RankedSuspectsSorted DEF AnswerInv, ReportInv
<1>4. s \in 1..Reported /\ s \in 1..Len(suspects)
  BY SuspectsAreNodes DEF AnswerInv, ReportInv
<1>5. suspects[s] \in Failures
  BY <1>3, <1>4
<1> QED BY <1>1, <1>2, <1>4, <1>5 DEF EntryOf, Failures

\* A blocked resource is left out only when the report is full of blocked ones
\* that are at least as deep, and the root cause is the deepest of them.
THEOREM DeepestFirst == Spec => []DeepestFailureFirst
<1>1. AnswerInv => DeepestFailureFirst
  <2> SUFFICES ASSUME AnswerInv, Done, NEW i \in 1..Len(Nodes), State(Nodes[i]) = "Blocked"
               PROVE  /\ \/ \E s \in 1..Len(reported) : reported[s].node = i
                         \/ /\ Len(reported) = MaxSuspects
                            /\ \A s \in 1..Len(reported) :
                                 LET n == Nodes[reported[s].node]
                                 IN  State(n) = "Blocked" /\ n.depth >= Nodes[i].depth
                      /\ State(Nodes[summary.root]) = "Blocked"
                      /\ Nodes[summary.root].depth >= Nodes[i].depth
    BY DEF DeepestFailureFirst
  <2>1. tree \in Trees /\ suspects = RankedSuspects /\ Len(reported) = Reported
    BY DEF AnswerInv, ControlInv, ReportInv, Done
  <2>2. i \in Failures
    BY DEF Failures, IsSuspect
  <2>3. PICK p \in 1..Len(suspects) : suspects[p] = i
    BY <2>1, <2>2, RankedSuspectsSorted
  <2>4. /\ Reported \in Nat /\ Len(suspects) \in Nat /\ Reported <= Len(suspects)
        /\ Reported < Len(suspects) => Reported = MaxSuspects
    BY SuspectsAreNodes DEF AnswerInv
  <2>5. Nodes[i].depth \in Nat /\ \A j \in Failures : Nodes[j].depth \in Nat
    BY <2>1, NodeFacts DEF Node, Failures
  <2>6. ASSUME NEW q \in 1..Len(suspects), q <= p
        PROVE  State(Nodes[suspects[q]]) = "Blocked" /\ Nodes[suspects[q]].depth >= Nodes[i].depth
    <3>1. CASE q = p
      BY <2>3, <2>5, <3>1
    <3>2. CASE q < p
      <4>1. Before(suspects[q], i) /\ suspects[q] \in Failures
        <5>1. /\ suspects \in Seq(Failures)
              /\ \A a, b \in 1..Len(suspects) : a < b => Before(suspects[a], suspects[b])
          BY <2>1, RankedSuspectsSorted
        <5>2. Before(suspects[q], suspects[p])
          BY <3>2, <5>1
        <5>3. suspects[q] \in Failures
          BY <5>1
        <5> QED BY <2>3, <5>2, <5>3
      <4>2. RankTier(Nodes[i]) = 0
        BY DEF RankTier
      <4>3. RankTier(Nodes[suspects[q]]) \in {0, 1, 2}
        BY DEF RankTier
      <4>4. /\ RankTier(Nodes[suspects[q]]) = 0
            /\ \/ Nodes[suspects[q]].depth > Nodes[i].depth
               \/ Nodes[suspects[q]].depth = Nodes[i].depth
        BY <4>1, <4>2, <4>3 DEF Before
      <4>5. State(Nodes[suspects[q]]) = "Blocked"
        BY <4>4 DEF RankTier
      <4>6. Nodes[suspects[q]].depth \in Nat
        BY <2>5, <4>1
      <4> QED BY <2>5, <4>4, <4>5, <4>6
    <3> QED BY <2>4, <2>6, <3>1, <3>2
  <2>7. reported # <<>> /\ summary.root = suspects[1] /\ 1 \in 1..Len(suspects) /\ 1 <= p
    <3>1. 1 \in 1..Len(suspects) /\ 1 <= p
      BY <2>3, <2>4
    <3>2. Reported # 0
      BY <2>4, <3>1, SuspectsAssumption
    <3>3. reported # <<>>
      BY <2>1, <3>2
    <3> QED BY <3>1, <3>3 DEF AnswerInv, SummaryInv
  <2>8. \A s \in 1..Len(reported) : s \in 1..Len(suspects) /\ reported[s].node = suspects[s]
    BY EntryOfNode
  <2>9. CASE p <= Reported
    <3>1. p \in 1..Len(reported)
      BY <2>1, <2>4, <2>9
    <3>2. reported[p].node = i
      BY <2>3, <2>8, <3>1
    <3>3. State(Nodes[summary.root]) = "Blocked" /\ Nodes[summary.root].depth >= Nodes[i].depth
      BY <2>6, <2>7
    <3> QED BY <3>1, <3>2, <3>3
  <2>10. CASE p > Reported
    <3>1. Len(reported) = MaxSuspects
      BY <2>1, <2>4, <2>10
    <3>2. \A s \in 1..Len(reported) : s \in 1..Len(suspects) /\ s <= p
      BY <2>1, <2>4, <2>8, <2>10
    <3>3. ASSUME NEW s \in 1..Len(reported)
          PROVE  LET n == Nodes[reported[s].node]
                 IN  State(n) = "Blocked" /\ n.depth >= Nodes[i].depth
      BY <2>6, <2>8, <3>2
    <3>4. State(Nodes[summary.root]) = "Blocked" /\ Nodes[summary.root].depth >= Nodes[i].depth
      BY <2>6, <2>7
    <3> QED BY <3>1, <3>3, <3>4
  <2> QED BY <2>4, <2>9, <2>10
<1> QED BY <1>1, AnswerHolds, PTL

\* The headline's cause is the leading reason of the first suspect.
THEOREM HeadlineMatches == Spec => []HeadlineMatchesReasons
<1>1. AnswerInv => HeadlineMatchesReasons
  <2> SUFFICES ASSUME AnswerInv, Done, reported # <<>>
               PROVE  summary.root = reported[1].node /\ summary.cause = Leading(reported[1])
    BY DEF HeadlineMatchesReasons
  <2>1. 1 \in 1..Len(reported)
    BY DEF AnswerInv, ReportInv
  <2>2. /\ tree \in Trees /\ suspects[1] \in 1..Len(Nodes) /\ EntryOf(reported[1], suspects[1])
        /\ reported[1].node = suspects[1] /\ reported[1].full \in Lookup(suspects[1])
    BY <2>1, EntryOfNode
  <2>3. Leading(reported[1]) = RootCauseMessage(Nodes[suspects[1]], reported[1].full)
    BY <2>2, EntryLeads DEF EntryOf
  <2> QED BY <2>2, <2>3 DEF AnswerInv, SummaryInv
<1> QED BY <1>1, AnswerHolds, PTL

\* A transport flake leads only where there is nothing better to say.
THEOREM FlakesLast == Spec => []FlakesNeverLead
<1>1. AnswerInv => FlakesNeverLead
  <2> SUFFICES ASSUME AnswerInv, NEW s \in 1..Len(reported),
                      Leading(reported[s]) # <<>>, Leading(reported[s])[1].noise
               PROVE  LET msgs == CauseMessages(Nodes[reported[s].node])
                      IN  /\ \A i \in 1..Len(msgs) : msgs[i].noise
                          /\ \A i \in 1..Len(reported[s].full) :
                               ~IsQualifyingEvent(reported[s].full[i])
    BY DEF FlakesNeverLead
  <2>1. /\ tree \in Trees /\ suspects[s] \in 1..Len(Nodes) /\ EntryOf(reported[s], suspects[s])
        /\ reported[s].node = suspects[s] /\ reported[s].full \in Lookup(suspects[s])
    BY EntryOfNode
  <2>2. LET msgs == CauseMessages(Nodes[suspects[s]])
        IN  /\ \A i \in 1..Len(msgs) : msgs[i].noise
            /\ \A i \in 1..Len(reported[s].full) : ~IsQualifyingEvent(reported[s].full[i])
    BY <2>1, EntryLeads DEF EntryOf
  <2> QED BY <2>1, <2>2
<1> QED BY <1>1, AnswerHolds, PTL

\* A composition error that keeps recurring on a reported suspect is shown.
THEOREM RecurringIsShown == Spec => []RecurringShown
<1>1. AnswerInv => RecurringShown
  <2> SUFFICES ASSUME AnswerInv, NEW s \in 1..Len(reported),
                      NEW i \in 1..Len(reported[s].full), IsQualifyingEvent(reported[s].full[i])
               PROVE  /\ \E e \in 1..Len(reported[s].events) : IsQualifyingEvent(reported[s].events[e])
                      /\ \E l \in 1..Len(reported[s].reasons) : reported[s].reasons[l].from = "event"
                      /\ (Done /\ s = 1) => \/ summary.recurring # <<>>
                                            \/ summary.cause[1].from = "event"
    BY DEF RecurringShown
  <2>1. /\ tree \in Trees /\ suspects[s] \in 1..Len(Nodes) /\ EntryOf(reported[s], suspects[s])
        /\ reported[s].full \in Lookup(suspects[s])
    BY EntryOfNode
  <2> DEFINE n == Nodes[suspects[s]]
             full == reported[s].full
  <2>2. /\ \E e \in 1..Len(TrimEvents(full)) : IsQualifyingEvent(TrimEvents(full)[e])
        /\ \E l \in 1..Len(reported[s].reasons) : reported[s].reasons[l].from = "event"
        /\ QualifyingEvent(full) # <<>>
        /\ FromEvent(CauseMessages(n), full) => RootCauseMessage(n, full)[1].from = "event"
    BY <2>1, EntryRecurs DEF EntryOf
  <2>3. \E e \in 1..Len(reported[s].events) : IsQualifyingEvent(reported[s].events[e])
    BY <2>1, <2>2 DEF EntryOf
  <2>4. ASSUME Done, s = 1 PROVE summary.recurring # <<>> \/ summary.cause[1].from = "event"
    <3>1. reported # <<>>
      BY <2>4 DEF AnswerInv, ReportInv
    <3>2. /\ summary.cause = RootCauseMessage(n, full)
          /\ summary.recurring = IF FromEvent(CauseMessages(n), full) THEN <<>> ELSE QualifyingEvent(full)
      BY <2>4, <3>1 DEF AnswerInv, SummaryInv
    <3> HIDE DEF n, full
    <3> QED BY <2>2, <3>2
  <2> QED BY <2>2, <2>3, <2>4
<1> QED BY <1>1, AnswerHolds, PTL

\* Each text is decoded once in the report, on the first suspect that carries it.
THEOREM DecodesOnce == Spec => []DecodedOnce
<1>1. AnswerInv => DecodedOnce
  BY DEF AnswerInv, OnceInv
<1> QED BY <1>1, AnswerHolds, PTL

\* What is shown of a decoded error has its error line, its end and its budget.
THEOREM ErrorLinesShown == Spec => []ErrorLineShown
<1>1. AnswerInv => ErrorLineShown
  <2> SUFFICES ASSUME AnswerInv, NEW s \in 1..Len(reported), NEW k \in 1..Len(reported[s].decoded)
               PROVE  LET lines  == LinesIn(reported[s].decoded[k].text)
                          shown  == reported[s].decoded[k].shown
                          errors == {i \in 1..Len(lines) : lines[i] = "error"}
                          plain  == {i \in 1..Len(lines) : lines[i] \in {"error", "plain"}}
                          lost   == {i \in shown[1]..shown[Len(shown)] : lines[i] # "log"} \ Range(shown)
                      IN  /\ Len(shown) \in 1..MaxActionableLines
                          /\ errors # {} => lines[shown[1]] = "error" /\ \A e \in errors : shown[1] <= e
                          /\ plain # {} => \A i \in plain : i <= shown[Len(shown)]
                          /\ IF errors = {} THEN lost \cap plain = {}
                             ELSE lost = {} \/ -Cardinality(lost) \in Range(shown)
    BY DEF ErrorLineShown
  <2>1. PICK h \in Hints : Telling(h) /\ reported[s].decoded[k] = Decode(h)
    BY EntryOfNode DEF EntryOf
  <2> QED BY <2>1, EntryShown
<1> QED BY <1>1, AnswerHolds, PTL

\* A suspect is never a bare name, whatever tree it is in, as long as the rules
\* for native kinds are what judges the native objects.
THEOREM SuspectsExplained ==
  ASSUME RulesApplied
  PROVE  Spec => []SuspectExplained
<1>1. AnswerInv => SuspectExplained
  <2> SUFFICES ASSUME AnswerInv, NEW s \in 1..Len(reported), reported[s].reasons = <<>>
               PROVE  LET n == Nodes[reported[s].node]
                      IN  \/ n.deleting /\ State(n) \in {"Ready", "Unknown"}
                          \/ /\ n.rule = Declined /\ ~n.native
                             /\ n.conds # <<>> /\ \A i \in 1..Len(n.conds) : ~Failing(n.conds[i])
    BY DEF SuspectExplained
  <2>1. /\ tree \in Trees /\ suspects[s] \in Failures /\ suspects[s] \in 1..Len(Nodes)
        /\ EntryOf(reported[s], suspects[s])
        /\ reported[s].node = suspects[s] /\ reported[s].full \in Lookup(suspects[s])
    BY EntryOfNode
  <2>2. PICK o \in NativeObject : Nodes[suspects[s]].rule = NativeReadiness(o)
    BY <2>1 DEF RulesApplied, Nodes
  <2>3. Nodes[suspects[s]].rule.state \in {"Pending", "Blocked"} => Nodes[suspects[s]].rule.reasons # <<>>
    BY <2>2, NativeExplains
  <2>4. /\ IsSuspect(Nodes[suspects[s]])
        /\ Reasons(Nodes[suspects[s]], LeadFirst(CauseMessages(Nodes[suspects[s]])), reported[s].full) = <<>>
    BY <2>1 DEF EntryOf, Failures
  <2> QED BY <2>1, <2>3, <2>4, EntryExplained
<1> QED BY <1>1, AnswerHolds, PTL

-----------------------------------------------------------------------------
(* Types.                                                                  *)

\* What is not settled by the answer: the summary, and what was fetched.
TypedInv ==
  /\ summary \in Summary
  /\ \A i \in 1..Reported : out[i] \in Seq(Event)

\* The root cause is a line or none.
LEMMA CauseTyped ==
  ASSUME tree \in Trees, NEW i \in 1..Len(Nodes), NEW full \in Lookup(i)
  PROVE  RootCauseMessage(Nodes[i], full) \in Seq(Line) /\ QualifyingEvent(full) \in Seq(Event)
<1> DEFINE msgs == CauseMessages(Nodes[i])
           s == [reasons |-> Reasons(Nodes[i], LeadFirst(msgs), full)]
           others == {k \in 1..Len(s.reasons) : s.reasons[k].from # "paused"}
<1>1. s.reasons = Reasons(Nodes[i], LeadFirst(msgs), full)
  OBVIOUS
<1> HIDE DEF s
<1>2. s.reasons \in Seq(Line) /\ Leading(s) = RootCauseMessage(Nodes[i], full)
  BY <1>1, EntryLeads
<1>3. Leading(s) = IF others = {} THEN <<>> ELSE <<s.reasons[Min(others)]>>
  BY DEF Leading
<1>4. others \in SUBSET Nat /\ others \subseteq 1..Len(s.reasons)
  OBVIOUS
<1> HIDE DEF others
<1>5. Leading(s) \in Seq(Line)
  <2>1. CASE others = {}
    <3>1. <<>> \in Seq(Line)
      OBVIOUS
    <3> QED BY <1>3, <2>1, <3>1
  <2>2. CASE others # {}
    <3>1. Min(others) \in others
      BY <1>4, <2>2, MinLeast
    <3>2. s.reasons[Min(others)] \in Line
      <4>1. \A k \in 1..Len(s.reasons) : s.reasons[k] \in Line
        BY <1>2
      <4> QED BY <1>4, <3>1, <4>1
    <3> QED BY <1>3, <2>2, <3>2
  <2> QED BY <2>1, <2>2
<1>6. full \in Seq(Event)
  BY SaidOf
<1>7. QualifyingEvent(full) \in Seq(Event)
  <2>1. CASE QualifyingEvent(full) = <<>>
    <3>1. <<>> \in Seq(Event)
      OBVIOUS
    <3> QED BY <2>1, <3>1
  <2>2. CASE \E k \in 1..Len(full) : QualifyingEvent(full) = <<full[k]>>
    <3>1. PICK k \in 1..Len(full) : QualifyingEvent(full) = <<full[k]>>
      BY <2>2
    <3>2. full[k] \in Event
      BY <1>6
    <3> QED BY <3>1, <3>2
  <2> QED BY <1>6, <2>1, <2>2, QualifyingIsBest
<1> QED BY <1>2, <1>5, <1>7

\* A list of all that was said keeps its type in every step.
LEMMA TypedStep ==
  AnswerInv /\ TypedInv /\ [PrefetchNext]_vars => TypedInv'
<1> SUFFICES ASSUME AnswerInv, TypedInv, [PrefetchNext]_vars PROVE TypedInv'
  OBVIOUS
<1> USE DEF AnswerInv
<1>1. tree \in Trees /\ tree.capped \in BOOLEAN
  BY TreesAssumption DEF ControlInv
<1>2. CASE RankAndSpawn
  <2>1. summary' \in Summary
    <3>1. Unassessed \in Nat
      <4>1. IsFiniteSet(1..Len(Nodes))
        BY <1>1, TreesAssumption, FS_Interval DEF Nodes
      <4> DEFINE silent == {i \in 1..Len(Nodes) : State(Nodes[i]) = "Unknown"}
      <4>2. silent \subseteq 1..Len(Nodes)
        OBVIOUS
      <4> HIDE DEF silent
      <4>3. Cardinality(silent) \in Nat
        BY <4>1, <4>2, FS_Subset, FS_CardinalityType
      <4> QED BY <4>3 DEF Unassessed, silent
    <3>2. \/ summary' = summary
          \/ summary' = [NoSummary EXCEPT !.healthy = ~tree.capped,
                                          !.unassessed = Unassessed, !.caveat = tree.capped]
      BY <1>2 DEF RankAndSpawn, Rank
    <3>3. <<>> \in Seq(Line) /\ <<>> \in Seq(Event)
      OBVIOUS
    <3>4. CASE summary' = summary
      BY <3>4 DEF TypedInv
    <3>5. CASE summary' = [NoSummary EXCEPT !.healthy = ~tree.capped,
                                            !.unassessed = Unassessed, !.caveat = tree.capped]
      <4>1. summary' = [healthy |-> ~tree.capped, root |-> 0, cause |-> <<>>, recurring |-> <<>>,
                        unassessed |-> Unassessed, caveat |-> tree.capped]
        BY <3>5 DEF NoSummary
      <4> QED BY <1>1, <3>1, <3>3, <4>1 DEF Summary
    <3> QED BY <3>2, <3>4, <3>5
  <2>2. \A i \in 1..Reported' : out'[i] = <<>>
    BY <1>2 DEF RankAndSpawn, Reported
  <2>3. <<>> \in Seq(Event)
    OBVIOUS
  <2> QED BY <2>1, <2>2, <2>3 DEF TypedInv
<1>3. ASSUME NEW i \in 1..Reported, EventsReturned(i) PROVE TypedInv'
  <2>1. UNCHANGED <<suspects, summary>>
    BY <1>3, FetchKeeps
  <2>2. PICK events \in Lookup(suspects[i]) : out' = [out EXCEPT ![i] = events]
    BY <1>3 DEF EventsReturned
  <2>3. events \in Seq(Event)
    <3>1. suspects[i] \in 1..Len(Nodes)
      BY SuspectsAreNodes
    <3> QED BY <1>1, <3>1, SaidOf
  <2>4. Reported' = Reported
    BY <2>1 DEF Reported
  <2>5. DOMAIN out = 1..Reported
    BY DEF OwnEvents
  <2> QED BY <2>1, <2>2, <2>3, <2>4, <2>5 DEF TypedInv
<1>4. CASE ReportPrefetched
  <2>1. UNCHANGED <<suspects, summary, out>>
    BY <1>4, ReportAppends DEF ReportPrefetched
  <2> QED BY <2>1 DEF TypedInv, Reported
<1>5. CASE SummariseJoined
  <2>1. UNCHANGED <<suspects, out>> /\ phase = "reporting" /\ Len(reported) = Reported
    BY <1>5 DEF SummariseJoined, Summarise
  <2>2. 1 \in 1..Len(reported)
    <3>1. suspects # <<>> /\ suspects \in Seq(1..Len(Nodes))
      BY <2>1, SuspectsAreNodes DEF ReportInv
    <3>2. Len(suspects) \in Nat \ {0}
      BY <3>1
    <3> QED BY <2>1, <3>2, SuspectsAssumption DEF Reported
  <2>3. suspects[1] \in 1..Len(Nodes) /\ reported[1].full \in Lookup(suspects[1])
    BY <2>2, EntryOfNode
  <2> DEFINE root == suspects[1]
             full == reported[1].full
  <2>4. RootCauseMessage(Nodes[root], full) \in Seq(Line) /\ QualifyingEvent(full) \in Seq(Event)
    BY <1>1, <2>3, CauseTyped
  <2>5. summary' = [healthy |-> FALSE, root |-> root,
                    cause |-> RootCauseMessage(Nodes[root], full),
                    recurring |-> IF FromEvent(CauseMessages(Nodes[root]), full) THEN <<>>
                                  ELSE QualifyingEvent(full),
                    unassessed |-> 0, caveat |-> tree.capped]
    BY <1>5 DEF SummariseJoined, Summarise, NoSummary
  <2>6. root \in Nat
    BY <1>1, <2>3, TreesAssumption DEF Nodes
  <2>7. <<>> \in Seq(Event)
    OBVIOUS
  <2> HIDE DEF root, full
  <2>8. summary' \in Summary
    BY <1>1, <2>4, <2>5, <2>6, <2>7 DEF Summary
  <2> QED BY <2>1, <2>8 DEF TypedInv, Reported
<1>6. CASE UNCHANGED vars
  BY <1>6 DEF TypedInv, Reported, vars
<1> QED BY <1>2, <1>3, <1>4, <1>5, <1>6 DEF PrefetchNext

\* Every variable has its type, the goroutines' results included.
THEOREM PrefetchTyped == Spec => []TypeInv
<1>1. PrefetchInit => TypedInv
  <2> SUFFICES ASSUME PrefetchInit PROVE TypedInv
    OBVIOUS
  <2>1. Reported = 0 /\ summary = NoSummary
    BY SuspectsAssumption DEF PrefetchInit, Init, Reported
  <2>2. <<>> \in Seq(Line) /\ <<>> \in Seq(Event)
    OBVIOUS
  <2> QED BY <2>1, <2>2 DEF TypedInv, Summary, NoSummary
<1>2. AnswerInv /\ TypedInv => TypeInv
  <2> SUFFICES ASSUME AnswerInv, TypedInv PROVE TypeInv
    OBVIOUS
  <2>1. suspects \in Seq(1..Len(Nodes))
    BY SuspectsAreNodes DEF AnswerInv
  <2> QED BY <2>1 DEF AnswerInv, TypedInv, TypeInv, TypeOK, ControlInv, ReportInv, OwnEvents
<1> QED BY <1>1, <1>2, TypedStep, AnswerHolds, PTL DEF Spec
=============================================================================
