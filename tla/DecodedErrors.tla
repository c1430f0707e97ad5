----------------------------- MODULE DecodedErrors -----------------------------
(***************************************************************************)
(* The errors that provider-terraform hides in the messages of conditions  *)
(* and events, as internal/xp/tofu.go shows them: each text once, reduced  *)
(* to the lines that matter.  A hint is the payload in a message.  A line  *)
(* of what it decodes to is shown whole, but for the cut of a very long    *)
(* one, so its number stands for it.                                       *)
(***************************************************************************)
EXTENDS Integers, SequencesExt, Selection

CONSTANTS
  Hints,               \* the payloads that decode to something
  Text(_),             \* what one of them decodes to, by a number
  LinesIn(_),          \* the lines of a text
  FallbackKeepLines,   \* fallbackKeepLines, 20 in the code
  MaxActionableLines,  \* maxActionableLines and keepFirst, 40 and 4
  KeepFirst

\* error: it starts with one of tfErrorMarkers; log: a log line or OTEL noise.
Lines == Seq({"error", "log", "plain", "blank"})

ASSUME ActionableAssumption ==
  /\ \A h \in Hints : Text(h) \in Nat /\ LinesIn(Text(h)) \in Lines
  /\ MaxActionableLines \in Nat /\ FallbackKeepLines \in 1..MaxActionableLines
  /\ KeepFirst \in Nat \ {0} /\ MaxActionableLines > KeepFirst + 1

\* One of the DecodedErrors: the numbers of the lines kept, and -k in between
\* for the line that says that k were elided.
DecodedError == [text : Nat, shown : Seq(Int)]

LastN(s, n) == IF Len(s) <= n THEN s ELSE SubSeq(s, Len(s) - n + 1, Len(s))

\* s from its first element that is none of the blanks to its last one.
TrimBlankEnds(s, blanks) ==
  LET solid == {i \in 1..Len(s) : s[i] \notin blanks}
  IN  IF solid = {} THEN <<>> ELSE SubSeq(s, Min(solid), Max(solid))

ApplyBudget_NoRoom(s) ==
  LET last == MaxActionableLines - KeepFirst
  IN  IF Len(s) <= MaxActionableLines THEN s
      ELSE SubSeq(s, 1, KeepFirst) \o <<-(Len(s) - KeepFirst - last)>> \o LastN(s, last)

\* The first lines and the last ones, with one line for what is elided between.
ApplyBudget(s) ==
  LET last == MaxActionableLines - KeepFirst - 1
  IN  IF Len(s) <= MaxActionableLines THEN s
      ELSE SubSeq(s, 1, KeepFirst) \o <<-(Len(s) - KeepFirst - last)>> \o LastN(s, last)

\* Everything but logs from the first error on, or else the last lines that are
\* no logs, or else the last lines.
ExtractActionable(lines) ==
  LET errors  == {i \in 1..Len(lines) : lines[i] = "error"}
      logs    == {i \in 1..Len(lines) : lines[i] = "log"}
      blanks  == {i \in 1..Len(lines) : lines[i] = "blank"}
      solid   == (1..Len(lines)) \ blanks
      plain   == solid \ logs
      onward  == {i \in (1..Len(lines)) \ logs : \E e \in errors : e <= i}
  IN  ApplyBudget(TrimBlankEnds(
        IF errors # {} THEN InOrder(onward)
        ELSE LastN(InOrder(IF plain # {} THEN plain ELSE solid), FallbackKeepLines), blanks))

\* What is shown of each.
Shown == [h \in Hints |-> ExtractActionable(LinesIn(Text(h)))]

\* The hints in all that is said, in its order.
HintsOf(said) ==
  LET upTo[n \in 0..Len(said)] == IF n = 0 THEN <<>> ELSE upTo[n - 1] \o said[n].hints
  IN  upTo[Len(said)]

\* The places in hints that bring a text that is not seen and not met before,
\* and of which something is left.
Fresh(hints, seen) ==
  InOrder({i \in 1..Len(hints) :
             /\ hints[i] \in Hints /\ Shown[hints[i]] # <<>>
             /\ Text(hints[i]) \notin seen
             /\ \A j \in 1..(i - 1) :
                  hints[j] \in Hints => Text(hints[j]) # Text(hints[i])})

Decode(h) == [text |-> Text(h), shown |-> Shown[h]]

DecodeTFErrors_PerSuspect(msgs, events, seen) ==
  LET hints == HintsOf(msgs) \o HintsOf(events)
      fresh == Fresh(hints, {})
  IN  [k \in 1..Len(fresh) |-> Decode(hints[fresh[k]])]

\* Of the hints in the messages, then in the events.
DecodeTFErrors(msgs, events, seen) ==
  LET hints == HintsOf(msgs) \o HintsOf(events)
      fresh == Fresh(hints, seen)
  IN  [k \in 1..Len(fresh) |-> Decode(hints[fresh[k]])]
=============================================================================
