----------------------------- MODULE RecorderProofs -----------------------------
(***************************************************************************)
(* The recorder and what it is given.  First the two walks: for any        *)
(* document of any nesting, redact.go withholds exactly what Withheld says *)
(* and record.go masks exactly what Masked says.  Then the recorder under  *)
(* its lock: for any number of calls, whatever the disk does and however   *)
(* often the process ends, an answered call has its line, and the file is  *)
(* what one atomic append per call would have made of it.  The invariant   *)
(* says who can be in the middle of a write - the holder of the lock,      *)
(* whose piece is the end of the file - and what every other piece in the  *)
(* file is excused by.  Last, both together: what a call shows and what    *)
(* the file says of it.                                                    *)
(***************************************************************************)
EXTENDS RecordedCalls, Ranking, SequenceTheorems, TLAPS

-----------------------------------------------------------------------------
\* Induction over the numbers up to m, for a set of them.
LEMMA UpToInduction ==
  ASSUME NEW m \in Nat, NEW S, 0 \in S, \A n \in 0..(m - 1) : n \in S => n + 1 \in S
  PROVE  \A n \in 0..m : n \in S
<1> DEFINE without == (0..m) \ S
<1>1. SUFFICES ASSUME without # {} PROVE FALSE
  OBVIOUS
<1>2. without \in SUBSET Nat
  OBVIOUS
<1> HIDE DEF without
<1>3. PICK n \in without : \A k \in without : n <= k
  BY <1>1, <1>2, LeastExists
<1> USE DEF without
<1>4. n # 0 /\ n - 1 \in 0..(m - 1) /\ n - 1 + 1 = n
  BY <1>3
<1>5. n - 1 \in S
  <2>1. ~(n <= n - 1)
    BY <1>4
  <2> QED BY <1>3, <1>4, <2>1
<1> QED BY <1>3, <1>4, <1>5

-----------------------------------------------------------------------------
(* Documents.                                                              *)

Path == Seq(Step)

\* f walks from v along the first m steps of p.
Descends(f, v, p, m) == f = [n \in 0..m |-> IF n = 0 THEN v ELSE Inside(f[n - 1])[p[n]]]

\* The way to a place exists, and is the only one.
LEMMA DescentExists ==
  ASSUME NEW v, NEW p, NEW L \in Nat PROVE \E f : Descends(f, v, p, L)
<1> DEFINE S == {m \in Nat : \E f : Descends(f, v, p, m)}
<1>1. 0 \in S
  <2> DEFINE f == [n \in 0..0 |-> v]
  <2>1. Descends(f, v, p, 0)
    BY DEF Descends
  <2> QED BY <2>1
<1>2. ASSUME NEW m \in Nat, m \in S PROVE m + 1 \in S
  <2>1. PICK g : Descends(g, v, p, m)
    BY <1>2
  <2> DEFINE f == [n \in 0..(m + 1) |-> IF n = m + 1 THEN Inside(g[m])[p[m + 1]] ELSE g[n]]
  <2>2. \A n \in 0..m : f[n] = g[n]
    OBVIOUS
  <2>3. \A n \in 0..m : f[n] = IF n = 0 THEN v ELSE Inside(f[n - 1])[p[n]]
    <3>1. \A n \in 0..m : n # 0 => n - 1 \in 0..m
      OBVIOUS
    <3>2. \A n \in 0..m : g[n] = IF n = 0 THEN v ELSE Inside(g[n - 1])[p[n]]
      BY <2>1 DEF Descends
    <3> HIDE DEF f
    <3> QED BY <2>2, <3>1, <3>2
  <2>4. f[m + 1] = Inside(f[m])[p[m + 1]]
    BY <2>2
  <2>5. f = [n \in 0..(m + 1) |-> f[n]]
    OBVIOUS
  <2> HIDE DEF f
  <2>6. \A n \in 0..(m + 1) : f[n] = IF n = 0 THEN v ELSE Inside(f[n - 1])[p[n]]
    <3>1. \A n \in 0..(m + 1) : n = m + 1 \/ n \in 0..m
      OBVIOUS
    <3>2. m + 1 # 0 /\ m + 1 - 1 = m
      OBVIOUS
    <3> QED BY <2>3, <2>4, <3>1, <3>2
  <2>7. Descends(f, v, p, m + 1)
    BY <2>5, <2>6 DEF Descends
  <2> QED BY <2>7
<1> HIDE DEF S
<1>3. \A n \in 0..(L - 1) : n \in S => n + 1 \in S
  BY <1>2
<1>4. \A n \in 0..L : n \in S
  BY <1>1, <1>3, UpToInduction
<1>5. L \in S
  BY <1>4
<1> QED BY <1>5 DEF S

\* Whatever descends from v along p ends at the place.
LEMMA AtDescends ==
  ASSUME NEW v, NEW p \in Path, NEW f, DOMAIN f = 0..Len(p), f[0] = v,
         \A n \in 1..Len(p) : f[n] = Inside(f[n - 1])[p[n]]
  PROVE  At(v, p) = f[Len(p)]
<1> DEFINE at[n \in 0..Len(p)] == IF n = 0 THEN v ELSE Inside(at[n - 1])[p[n]]
           S == {n \in 0..Len(p) : at[n] = f[n]}
<1>1. Len(p) \in Nat
  BY DEF Path
<1>2. Descends(at, v, p, Len(p))
  <2>1. at = CHOOSE g : Descends(g, v, p, Len(p))
    BY DEF Descends
  <2>2. \E g : Descends(g, v, p, Len(p))
    BY <1>1, DescentExists
  <2> HIDE DEF at
  <2> QED BY <2>1, <2>2
<1>3. At(v, p) = at[Len(p)]
  BY DEF At
<1> HIDE DEF at
<1>4. at[0] = v /\ \A n \in 1..Len(p) : at[n] = Inside(at[n - 1])[p[n]]
  <2>1. \A n \in 0..Len(p) : at[n] = IF n = 0 THEN v ELSE Inside(at[n - 1])[p[n]]
    BY <1>2 DEF Descends
  <2>2. 0 \in 0..Len(p) /\ \A n \in 1..Len(p) : n \in 0..Len(p) /\ n # 0
    BY <1>1
  <2> QED BY <2>1, <2>2
<1>5. 0 \in S
  BY <1>1, <1>4
<1>6. ASSUME NEW n \in 0..(Len(p) - 1), n \in S PROVE n + 1 \in S
  <2>1. n + 1 \in 1..Len(p) /\ n + 1 \in 0..Len(p) /\ n + 1 - 1 = n
    BY <1>1
  <2>2. at[n + 1] = Inside(at[n])[p[n + 1]] /\ f[n + 1] = Inside(f[n])[p[n + 1]]
    BY <1>4, <2>1
  <2> QED BY <1>6, <2>1, <2>2
<1> HIDE DEF S
<1>7. \A n \in 0..Len(p) : n \in S
  BY <1>1, <1>5, <1>6, UpToInduction
<1>8. Len(p) \in 0..Len(p)
  BY <1>1
<1> QED BY <1>3, <1>7, <1>8 DEF S

\* The same from the place itself: a function that descends to it.
Leads(f, v, p, there) ==
  /\ DOMAIN f = 0..Len(p) /\ f[0] = v /\ f[Len(p)] = there
  /\ \A n \in 1..Len(p) : f[n] = Inside(f[n - 1])[p[n]]

\* Some such way ends at the place.
LEMMA DescentTo ==
  ASSUME NEW v, NEW p \in Path PROVE \E f : Leads(f, v, p, At(v, p))
<1>2. Len(p) \in Nat
  BY DEF Path
<1>1. PICK f : Descends(f, v, p, Len(p))
  BY <1>2, DescentExists
<1>3. \A n \in 0..Len(p) : f[n] = IF n = 0 THEN v ELSE Inside(f[n - 1])[p[n]]
  BY <1>1 DEF Descends
<1>4. 0 \in 0..Len(p) /\ \A n \in 1..Len(p) : n \in 0..Len(p) /\ n # 0
  BY <1>2
<1>5. DOMAIN f = 0..Len(p)
  BY <1>1 DEF Descends
<1>6. f[0] = v /\ \A n \in 1..Len(p) : f[n] = Inside(f[n - 1])[p[n]]
  BY <1>3, <1>4
<1>7. f[Len(p)] = At(v, p)
  BY <1>5, <1>6, AtDescends
<1> QED BY <1>5, <1>6, <1>7 DEF Leads

\* A path with one more step.
LEMMA AppendPath ==
  ASSUME NEW p \in Path, NEW k \in Step
  PROVE  /\ Append(p, k) \in Path /\ Len(Append(p, k)) = Len(p) + 1 /\ Len(p) \in Nat
         /\ \A n \in 1..Len(p) : Append(p, k)[n] = p[n]
         /\ Append(p, k)[Len(p) + 1] = k
BY AppendProperties DEF Path

\* The place a step further, and at the root.
LEMMA AtStep ==
  ASSUME NEW v, NEW p \in Path, NEW k \in Step
  PROVE  At(v, Append(p, k)) = Inside(At(v, p))[k]
<1> DEFINE q == Append(p, k)
<1>1. /\ q \in Path /\ Len(q) = Len(p) + 1 /\ Len(p) \in Nat /\ q[Len(p) + 1] = k
      /\ \A n \in 1..Len(p) : q[n] = p[n]
  BY AppendPath
<1> HIDE DEF q
<1>2. PICK f : /\ DOMAIN f = 0..Len(q) /\ f[0] = v /\ f[Len(q)] = At(v, q)
               /\ \A n \in 1..Len(q) : f[n] = Inside(f[n - 1])[q[n]]
  <2>1. PICK f : Leads(f, v, q, At(v, q))
    BY <1>1, DescentTo
  <2> QED BY <2>1 DEF Leads
<1> DEFINE g == [n \in 0..Len(p) |-> f[n]]
<1>3. DOMAIN g = 0..Len(p) /\ g[0] = v /\ g[Len(p)] = f[Len(p)]
  BY <1>1, <1>2
<1>4. \A n \in 1..Len(p) : g[n] = Inside(g[n - 1])[p[n]]
  <2> TAKE n \in 1..Len(p)
  <2>1. n \in 1..Len(q) /\ n \in 0..Len(p) /\ n - 1 \in 0..Len(p)
    BY <1>1
  <2>2. g[n] = f[n] /\ g[n - 1] = f[n - 1]
    BY <2>1
  <2> QED BY <1>1, <1>2, <2>1, <2>2
<1> HIDE DEF g
<1>5. At(v, p) = f[Len(p)]
  BY <1>3, <1>4, AtDescends
<1>6. f[Len(q)] = Inside(f[Len(p)])[k]
  <2>1. Len(q) \in 1..Len(q) /\ Len(q) - 1 = Len(p) /\ q[Len(q)] = k
    BY <1>1
  <2> QED BY <1>2, <2>1
<1> QED BY <1>2, <1>5, <1>6 DEF q

\* The root is where no step leads.
LEMMA AtRoot == ASSUME NEW v PROVE At(v, <<>>) = v /\ <<>> \in Path /\ Len(<<>>) = 0
<1>1. <<>> \in Path /\ Len(<<>>) = 0
  BY DEF Path
<1>2. PICK f : Leads(f, v, <<>>, At(v, <<>>))
  BY <1>1, DescentTo
<1> QED BY <1>1, <1>2 DEF Leads

\* The place in a part is a place in the whole.
LEMMA AtFirst ==
  ASSUME NEW v, NEW p \in Path, NEW k \in Step
  PROVE  <<k>> \o p \in Path /\ At(v, <<k>> \o p) = At(Inside(v)[k], p)
<1> DEFINE q == <<k>> \o p
<1>1. /\ q \in Path /\ Len(q) = Len(p) + 1 /\ Len(p) \in Nat /\ q[1] = k
      /\ \A n \in 1..Len(p) : q[n + 1] = p[n]
  <2>1. <<k>> \in Seq(Step) /\ Len(<<k>>) = 1 /\ <<k>>[1] = k
    OBVIOUS
  <2>2. Len(p) \in Nat /\ p \in Seq(Step)
    BY DEF Path
  <2>3. /\ q \in Seq(Step) /\ Len(q) = 1 + Len(p)
        /\ \A i \in 1..(1 + Len(p)) : q[i] = IF i <= 1 THEN <<k>>[i] ELSE p[i - 1]
    BY <2>1, <2>2, ConcatProperties
  <2> HIDE DEF q
  <2>4. 1 \in 1..(1 + Len(p)) /\ \A n \in 1..Len(p) : n + 1 \in 1..(1 + Len(p)) /\ ~(n + 1 <= 1) /\ n + 1 - 1 = n
    BY <2>2
  <2> QED BY <2>1, <2>2, <2>3, <2>4 DEF Path
<1> HIDE DEF q
<1>2. PICK f : /\ DOMAIN f = 0..Len(q) /\ f[0] = v /\ f[Len(q)] = At(v, q)
               /\ \A n \in 1..Len(q) : f[n] = Inside(f[n - 1])[q[n]]
  <2>1. PICK f : Leads(f, v, q, At(v, q))
    BY <1>1, DescentTo
  <2> QED BY <2>1 DEF Leads
<1> DEFINE g == [n \in 0..Len(p) |-> f[n + 1]]
<1>3. DOMAIN g = 0..Len(p) /\ g[0] = Inside(v)[k] /\ g[Len(p)] = f[Len(q)]
  <2>1. 1 \in 1..Len(q) /\ 1 - 1 = 0
    BY <1>1
  <2>2. f[1] = Inside(v)[k]
    BY <1>1, <1>2, <2>1
  <2> QED BY <1>1, <2>2
<1>4. \A n \in 1..Len(p) : g[n] = Inside(g[n - 1])[p[n]]
  <2> TAKE n \in 1..Len(p)
  <2>1. /\ n + 1 \in 1..Len(q) /\ n \in 0..Len(p) /\ n - 1 \in 0..Len(p)
        /\ n + 1 - 1 = n /\ n - 1 + 1 = n
    BY <1>1
  <2>2. g[n] = f[n + 1] /\ g[n - 1] = f[n]
    BY <2>1
  <2> QED BY <1>1, <1>2, <2>1, <2>2
<1> HIDE DEF g
<1>5. At(Inside(v)[k], p) = f[Len(q)]
  BY <1>3, <1>4, AtDescends
<1> QED BY <1>1, <1>2, <1>5 DEF q

-----------------------------------------------------------------------------
(* The paths of a document.                                                *)

\* f lists them by their length, up to m.
Lengthens(f, v, m) == f = [n \in 0..m |-> IF n = 0 THEN {<<>>} ELSE Longer(v, f[n - 1])]

\* There is such a list, of any length.
LEMMA LengthsExist ==
  ASSUME NEW v, NEW L \in Nat PROVE \E f : Lengthens(f, v, L)
<1> DEFINE S == {m \in Nat : \E f : Lengthens(f, v, m)}
<1>1. 0 \in S
  <2> DEFINE f == [n \in 0..0 |-> {<<>>}]
  <2>1. Lengthens(f, v, 0)
    BY DEF Lengthens
  <2> QED BY <2>1
<1>2. ASSUME NEW m \in Nat, m \in S PROVE m + 1 \in S
  <2>1. PICK g : Lengthens(g, v, m)
    BY <1>2
  <2> DEFINE f == [n \in 0..(m + 1) |-> IF n = m + 1 THEN Longer(v, g[m]) ELSE g[n]]
  <2>2. \A n \in 0..m : f[n] = g[n]
    OBVIOUS
  <2>3. \A n \in 0..m : f[n] = IF n = 0 THEN {<<>>} ELSE Longer(v, f[n - 1])
    <3>1. \A n \in 0..m : n # 0 => n - 1 \in 0..m
      OBVIOUS
    <3>2. \A n \in 0..m : g[n] = IF n = 0 THEN {<<>>} ELSE Longer(v, g[n - 1])
      BY <2>1 DEF Lengthens
    <3> HIDE DEF f
    <3> QED BY <2>2, <3>1, <3>2
  <2>4. f[m + 1] = Longer(v, f[m])
    BY <2>2
  <2>5. f = [n \in 0..(m + 1) |-> f[n]]
    OBVIOUS
  <2> HIDE DEF f
  <2>6. \A n \in 0..(m + 1) : f[n] = IF n = 0 THEN {<<>>} ELSE Longer(v, f[n - 1])
    <3>1. \A n \in 0..(m + 1) : n = m + 1 \/ n \in 0..m
      OBVIOUS
    <3>2. m + 1 # 0 /\ m + 1 - 1 = m
      OBVIOUS
    <3> QED BY <2>3, <2>4, <3>1, <3>2
  <2>7. Lengthens(f, v, m + 1)
    BY <2>5, <2>6 DEF Lengthens
  <2> QED BY <2>7
<1> HIDE DEF S
<1>3. \A n \in 0..(L - 1) : n \in S => n + 1 \in S
  BY <1>2
<1>4. \A n \in 0..L : n \in S
  BY <1>1, <1>3, UpToInduction
<1>5. L \in S
  BY <1>4
<1> QED BY <1>5 DEF S

\* What it means to be one step longer.
LEMMA LongerHas ==
  ASSUME NEW v, NEW S
  PROVE  /\ \A p \in S : \A k \in Steps(At(v, p)) : Append(p, k) \in Longer(v, S)
         /\ \A q \in Longer(v, S) : \E p \in S : \E k \in Steps(At(v, p)) : q = Append(p, k)
<1> DEFINE More(p) == {Append(p, k) : k \in Steps(At(v, p))}
<1>1. Longer(v, S) = UNION {More(p) : p \in S}
  BY DEF Longer
<1>2. \A q : q \in Longer(v, S) <=> \E p \in S : q \in More(p)
  <2> HIDE DEF More
  <2> QED BY <1>1
<1>3. \A p \in S : \A q : q \in More(p) <=> \E k \in Steps(At(v, p)) : q = Append(p, k)
  OBVIOUS
<1>4. ASSUME NEW p \in S, NEW k \in Steps(At(v, p)) PROVE Append(p, k) \in Longer(v, S)
  BY <1>2
<1>5. ASSUME NEW q \in Longer(v, S) PROVE \E p \in S : \E k \in Steps(At(v, p)) : q = Append(p, k)
  BY <1>2, <1>3
<1> QED BY <1>4, <1>5

Lengths(f, v) ==
  /\ f[0] = {<<>>}
  /\ \A n \in 0..(MaxNesting - 1) : f[n + 1] = Longer(v, f[n])
  /\ Paths(v) = UNION {f[n] : n \in 0..MaxNesting}

\* The paths, listed by their length.
LEMMA ByLength == ASSUME NEW v PROVE \E f : Lengths(f, v)
<1> DEFINE long[n \in 0..MaxNesting] == IF n = 0 THEN {<<>>} ELSE Longer(v, long[n - 1])
<1>1. MaxNesting \in Nat
  BY NamesAssumption
<1>2. Lengthens(long, v, MaxNesting)
  <2>1. long = CHOOSE g : Lengthens(g, v, MaxNesting)
    BY DEF Lengthens
  <2>2. \E g : Lengthens(g, v, MaxNesting)
    BY <1>1, LengthsExist
  <2> HIDE DEF long
  <2> QED BY <2>1, <2>2
<1>3. Paths(v) = UNION {long[n] : n \in 0..MaxNesting}
  BY DEF Paths
<1> HIDE DEF long
<1>4. \A n \in 0..MaxNesting : long[n] = IF n = 0 THEN {<<>>} ELSE Longer(v, long[n - 1])
  BY <1>2 DEF Lengthens
<1>5. \A n \in 0..(MaxNesting - 1) : n + 1 \in 0..MaxNesting /\ n + 1 # 0 /\ n + 1 - 1 = n
  BY <1>1
<1>6. 0 \in 0..MaxNesting
  BY <1>1
<1> QED BY <1>3, <1>4, <1>5, <1>6 DEF Lengths

\* A path with a step more tells which path and which step.
LEMMA SameAppend ==
  ASSUME NEW p \in Path, NEW q \in Path, NEW j \in Step, NEW k \in Step,
         Append(p, j) = Append(q, k)
  PROVE  p = q /\ j = k
BY AppendInjective DEF Path

\* A path is empty, or another one and a step more, and both are known by it.
LEMMA LastStep ==
  ASSUME NEW p \in Path
  PROVE  /\ Len(p) \in Nat /\ (Len(p) = 0 <=> p = <<>>)
         /\ p # <<>> => \E q \in Path, k \in Step : p = Append(q, k)
         /\ \A q \in Path : \A j, k \in Step : Append(p, j) = Append(q, k) => p = q /\ j = k
<1>1. Len(p) \in Nat /\ (Len(p) = 0 <=> p = <<>>)
  BY EmptySeq DEF Path
<1>2. p # <<>> => \E q \in Path, k \in Step : p = Append(q, k)
  BY SequenceEmptyOrAppend DEF Path
<1>3. \A q \in Path : \A j, k \in Step : Append(p, j) = Append(q, k) => p = q /\ j = k
  BY SameAppend
<1> QED BY <1>1, <1>2, <1>3

\* E tells of every place on the paths P what out has there.
Unfolds(E, P, out) ==
  /\ P \in SUBSET Path /\ <<>> \in P /\ E[<<>>] = out
  /\ \A p \in P :
       /\ Len(p) <= MaxNesting
       /\ \A k \in Steps(E[p]) : /\ k \in Step /\ Append(p, k) \in P
                                 /\ Inside(E[p])[k] = E[Append(p, k)]
  /\ \A p \in Path : \A k \in Step : Append(p, k) \in P => p \in P /\ k \in Steps(E[p])

\* Then these are its paths, and what is at them.
LEMMA Unfold ==
  ASSUME NEW E, NEW P, NEW out, Unfolds(E, P, out)
  PROVE  Paths(out) = P /\ \A p \in P : At(out, p) = E[p]
<1>1. PICK f : Lengths(f, out)
  BY ByLength
<1>2. MaxNesting \in Nat
  BY NamesAssumption
<1> DEFINE Long(n) == {p \in P : Len(p) = n}
           Right(n) == f[n] = Long(n) /\ \A p \in Long(n) : At(out, p) = E[p]
           S == {n \in 0..MaxNesting : Right(n)}
<1>3. 0 \in S
  <2>1. Long(0) = {<<>>}
    BY LastStep DEF Unfolds
  <2>2. At(out, <<>>) = E[<<>>]
    BY AtRoot DEF Unfolds
  <2>3. f[0] = {<<>>}
    BY <1>1 DEF Lengths
  <2> HIDE DEF Long
  <2>4. Right(0)
    BY <2>1, <2>2, <2>3
  <2> QED BY <1>2, <2>4
<1>4. ASSUME NEW n \in 0..(MaxNesting - 1), n \in S PROVE n + 1 \in S
  <2>1. Right(n) /\ n \in Nat
    BY <1>4
  <2>2. f[n + 1] = Longer(out, Long(n))
    BY <1>1, <2>1 DEF Lengths
  <2>3. ASSUME NEW p \in Long(n), NEW k \in Steps(At(out, p))
        PROVE  Append(p, k) \in Long(n + 1) /\ At(out, Append(p, k)) = E[Append(p, k)]
    <3>1. p \in P /\ p \in Path /\ Len(p) = n /\ At(out, p) = E[p]
      BY <2>1 DEF Unfolds
    <3>2. k \in Step /\ Append(p, k) \in P /\ Inside(E[p])[k] = E[Append(p, k)]
      BY <2>3, <3>1 DEF Unfolds
    <3>3. Len(Append(p, k)) = n + 1
      BY <3>1, <3>2, AppendPath
    <3>4. At(out, Append(p, k)) = E[Append(p, k)]
      BY <3>1, <3>2, AtStep
    <3> QED BY <3>2, <3>3, <3>4
  <2>4. ASSUME NEW q \in Long(n + 1)
        PROVE  \E p \in Long(n) : \E k \in Steps(At(out, p)) : q = Append(p, k)
    <3>1. q \in Path /\ q \in P /\ Len(q) = n + 1
      BY DEF Unfolds
    <3>2. PICK p \in Path, k \in Step : q = Append(p, k)
      BY <2>1, <3>1, LastStep
    <3>3. p \in P /\ k \in Steps(E[p])
      BY <3>1, <3>2 DEF Unfolds
    <3>4. Len(p) = n
      BY <2>1, <3>1, <3>2, AppendPath
    <3> QED BY <2>1, <3>2, <3>3, <3>4
  <2>5. f[n + 1] = Long(n + 1)
    <3>1. /\ \A p \in Long(n) : \A k \in Steps(At(out, p)) : Append(p, k) \in f[n + 1]
          /\ \A q \in f[n + 1] : \E p \in Long(n) : \E k \in Steps(At(out, p)) : q = Append(p, k)
      BY <2>2, LongerHas
    <3> HIDE DEF Long
    <3>2. ASSUME NEW q \in f[n + 1] PROVE q \in Long(n + 1)
      BY <2>3, <3>1
    <3>3. ASSUME NEW q \in Long(n + 1) PROVE q \in f[n + 1]
      BY <2>4, <3>1
    <3> QED BY <3>2, <3>3
  <2>6. \A q \in Long(n + 1) : At(out, q) = E[q]
    <3> HIDE DEF Long
    <3> QED BY <2>3, <2>4
  <2>7. n + 1 \in 0..MaxNesting
    BY <1>2
  <2> HIDE DEF Long
  <2> QED BY <2>5, <2>6, <2>7
<1> HIDE DEF S
<1>5. \A n \in 0..MaxNesting : n \in S
  BY <1>2, <1>3, <1>4, UpToInduction
<1>6. \A n \in 0..MaxNesting : Right(n)
  BY <1>5 DEF S
<1>7. \A p \in P : Len(p) \in 0..MaxNesting
  BY <1>2, LastStep DEF Unfolds
<1>8. Paths(out) = P
  <2>1. Paths(out) = UNION {f[n] : n \in 0..MaxNesting}
    BY <1>1 DEF Lengths
  <2>2. \A n \in 0..MaxNesting : f[n] = {p \in P : Len(p) = n}
    BY <1>6
  <2> QED BY <1>7, <2>1, <2>2
<1>9. \A p \in P : At(out, p) = E[p]
  BY <1>6, <1>7
<1> QED BY <1>8, <1>9

\* What is known of the places of a document.
LEMMA DocumentPaths ==
  ASSUME NEW v, IsDocument(v)
  PROVE  /\ <<>> \in Paths(v) /\ Paths(v) \in SUBSET Path
         /\ \A p \in Paths(v) : Shaped(At(v, p)) /\ Len(p) \in 0..MaxNesting
         /\ \A p \in Paths(v) : \A k \in Steps(At(v, p)) :
              k \in Step /\ Append(p, k) \in Paths(v) /\ Len(p) + 1 <= MaxNesting
         /\ \A p \in Path : \A k \in Step :
              Append(p, k) \in Paths(v) => p \in Paths(v) /\ k \in Steps(At(v, p))
<1>1. PICK f : Lengths(f, v)
  BY ByLength
<1>2. MaxNesting \in Nat
  BY NamesAssumption
<1>3. Paths(v) = UNION {f[n] : n \in 0..MaxNesting}
  BY <1>1 DEF Lengths
<1>4. \A p \in Paths(v) : Shaped(At(v, p)) /\ (Len(p) = MaxNesting => IsLeaf(At(v, p)))
  BY DEF IsDocument
<1>5. \A p \in Paths(v) : Steps(At(v, p)) \in SUBSET Step
  BY <1>4 DEF Shaped, Steps, Step, Inside, IsLeaf, IsMap
<1> DEFINE Long(n) == {p \in Path : Len(p) = n}
           S == {n \in 0..MaxNesting : f[n] \in SUBSET Long(n)}
<1>6. 0 \in S
  <2>1. f[0] = {<<>>} /\ <<>> \in Path /\ Len(<<>>) = 0
    BY <1>1, AtRoot DEF Lengths
  <2> QED BY <1>2, <2>1
<1>7. ASSUME NEW n \in 0..(MaxNesting - 1), n \in S PROVE n + 1 \in S
  <2>1. f[n] \in SUBSET Long(n) /\ f[n] \in SUBSET Paths(v) /\ n + 1 \in 0..MaxNesting
    BY <1>2, <1>3, <1>7
  <2>2. f[n + 1] = Longer(v, f[n])
    BY <1>1 DEF Lengths
  <2>3. ASSUME NEW p \in f[n], NEW k \in Steps(At(v, p)) PROVE Append(p, k) \in Long(n + 1)
    <3>1. p \in Path /\ Len(p) = n /\ k \in Step
      BY <1>5, <2>1
    <3> QED BY <3>1, AppendPath
  <2>4. f[n + 1] \in SUBSET Long(n + 1)
    <3>1. \A q \in f[n + 1] : \E p \in f[n] : \E k \in Steps(At(v, p)) : q = Append(p, k)
      BY <2>2, LongerHas
    <3> HIDE DEF Long
    <3> QED BY <2>3, <3>1
  <2> QED BY <2>1, <2>4
<1> HIDE DEF S
<1>8. \A n \in 0..MaxNesting : n \in S
  BY <1>2, <1>6, <1>7, UpToInduction
<1>9. \A n \in 0..MaxNesting : f[n] \in SUBSET Long(n)
  BY <1>8 DEF S
<1>10. \A p \in Paths(v) : p \in Path /\ Len(p) \in 0..MaxNesting /\ p \in f[Len(p)]
  BY <1>3, <1>9
<1>11. <<>> \in Paths(v)
  <2>1. f[0] = {<<>>} /\ 0 \in 0..MaxNesting
    BY <1>1, <1>2 DEF Lengths
  <2> QED BY <1>3, <2>1
<1>12. ASSUME NEW p \in Paths(v), NEW k \in Steps(At(v, p))
       PROVE  k \in Step /\ Append(p, k) \in Paths(v) /\ Len(p) + 1 <= MaxNesting
  <2>1. ~IsLeaf(At(v, p))
    BY <1>12 DEF Steps
  <2>2. Len(p) # MaxNesting
    BY <1>4, <2>1
  <2>3. Len(p) \in 0..(MaxNesting - 1) /\ Len(p) + 1 \in 0..MaxNesting
    BY <1>2, <1>10, <2>2
  <2>4. Append(p, k) \in f[Len(p) + 1]
    <3>1. p \in f[Len(p)] /\ f[Len(p) + 1] = Longer(v, f[Len(p)])
      BY <1>1, <1>10, <2>3 DEF Lengths
    <3>2. Append(p, k) \in Longer(v, f[Len(p)])
      BY <1>12, <3>1, LongerHas
    <3> QED BY <3>1, <3>2
  <2> QED BY <1>3, <1>5, <2>3, <2>4
<1>13. ASSUME NEW p \in Path, NEW k \in Step, Append(p, k) \in Paths(v)
       PROVE  p \in Paths(v) /\ k \in Steps(At(v, p))
  <2>1. Len(Append(p, k)) = Len(p) + 1 /\ Len(p) \in Nat
    BY AppendPath
  <2>2. Append(p, k) \in f[Len(p) + 1] /\ Len(p) + 1 \in 0..MaxNesting
    BY <1>10, <1>13, <2>1
  <2>3. Len(p) \in 0..(MaxNesting - 1) /\ Len(p) \in 0..MaxNesting
    BY <1>2, <2>1, <2>2
  <2>4. PICK q \in f[Len(p)] : \E j \in Steps(At(v, q)) : Append(p, k) = Append(q, j)
    <3>1. f[Len(p) + 1] = Longer(v, f[Len(p)])
      BY <1>1, <2>3 DEF Lengths
    <3>2. Append(p, k) \in Longer(v, f[Len(p)])
      BY <2>2, <3>1
    <3>3. \A q \in Longer(v, f[Len(p)]) :
            \E r \in f[Len(p)] : \E j \in Steps(At(v, r)) : q = Append(r, j)
      BY LongerHas
    <3> QED BY <3>2, <3>3
  <2>5. PICK j \in Steps(At(v, q)) : Append(p, k) = Append(q, j)
    BY <2>4
  <2>6. q \in Paths(v) /\ q \in Path
    BY <1>3, <1>10, <2>3
  <2>7. p = q /\ k = j
    BY <1>5, <2>5, <2>6, LastStep
  <2> QED BY <2>5, <2>6, <2>7
<1> QED BY <1>4, <1>10, <1>11, <1>12, <1>13

-----------------------------------------------------------------------------
(* The two walks exist.  A walk of what is at the paths of some length or   *)
(* longer is extended to the shorter ones: what is in a value is deeper.    *)

Deep(v, m) == {At(v, p) : p \in {q \in Paths(v) : Len(q) >= m}}

\* The parts that deep, and what is in them.
LEMMA DeepParts ==
  ASSUME NEW v, IsDocument(v), NEW m \in 0..MaxNesting
  PROVE  /\ \A u \in Deep(v, m) : Shaped(u)
         /\ m < MaxNesting => \A u \in Deep(v, m) : \A k \in Steps(u) : Inside(u)[k] \in Deep(v, m + 1)
         /\ \A u \in Deep(v, MaxNesting) : IsLeaf(u)
         /\ Deep(v, 0) = Parts(v)
<1>1. /\ Paths(v) \in SUBSET Path
      /\ \A p \in Paths(v) : Shaped(At(v, p)) /\ Len(p) \in 0..MaxNesting
      /\ \A p \in Paths(v) : \A k \in Steps(At(v, p)) : k \in Step /\ Append(p, k) \in Paths(v)
  BY DocumentPaths
<1>2. MaxNesting \in Nat
  BY NamesAssumption
<1>3. \A u \in Deep(v, m) : Shaped(u)
  BY <1>1 DEF Deep
<1>4. ASSUME NEW u \in Deep(v, m), NEW k \in Steps(u) PROVE Inside(u)[k] \in Deep(v, m + 1)
  <2>1. PICK p \in Paths(v) : u = At(v, p) /\ Len(p) >= m
    BY DEF Deep
  <2>2. p \in Path /\ k \in Step /\ Append(p, k) \in Paths(v)
    BY <1>1, <1>4, <2>1
  <2>3. Len(Append(p, k)) = Len(p) + 1 /\ Len(p) \in Nat
    BY <2>2, AppendPath
  <2>4. At(v, Append(p, k)) = Inside(u)[k]
    BY <2>1, <2>2, AtStep
  <2>5. Len(Append(p, k)) >= m + 1
    BY <1>2, <2>1, <2>3
  <2> QED BY <2>2, <2>4, <2>5 DEF Deep
<1>5. \A u \in Deep(v, MaxNesting) : IsLeaf(u)
  <2> TAKE u \in Deep(v, MaxNesting)
  <2>1. PICK p \in Paths(v) : u = At(v, p) /\ Len(p) >= MaxNesting
    BY DEF Deep
  <2>2. Len(p) = MaxNesting
    BY <1>1, <1>2, <2>1
  <2> QED BY <2>1, <2>2 DEF IsDocument
<1>6. Deep(v, 0) = Parts(v)
  <2>1. \A p \in Paths(v) : Len(p) >= 0
    BY <1>1
  <2>2. {q \in Paths(v) : Len(q) >= 0} = Paths(v)
    BY <2>1
  <2> QED BY <2>2 DEF Deep, Parts
<1> QED BY <1>3, <1>4, <1>5, <1>6

\* What a walk makes of a value depends on what it makes of what is in it.
LEMMA RedactPartAgrees ==
  ASSUME NEW u, Shaped(u), NEW b \in BOOLEAN, NEW f, NEW g,
         \A k \in Steps(u) : \A a \in BOOLEAN : f[<<Inside(u)[k], a>>] = g[<<Inside(u)[k], a>>]
  PROVE  RedactPart(f, u, b) = RedactPart(g, u, b)
<1>1. CASE IsMap(u)
  <2>1. Steps(u) = DOMAIN u.f /\ Inside(u) = u.f
    BY <1>1 DEF Steps, Inside, IsMap, IsLeaf
  <2>2. \A k \in DOMAIN u.f : \A a \in BOOLEAN : f[<<u.f[k], a>>] = g[<<u.f[k], a>>]
    BY <2>1
  <2>3. ASSUME NEW k \in DOMAIN u.f PROVE RedactEntry(f, u, b, k) = RedactEntry(g, u, b, k)
    <3>1. InProvider(k, b) \in BOOLEAN
      BY DEF InProvider, IsProvider
    <3>2. f[<<u.f[k], InProvider(k, b)>>] = g[<<u.f[k], InProvider(k, b)>>]
      BY <2>2, <3>1
    <3>3. f[<<u.f[k], b>>] = g[<<u.f[k], b>>]
      BY <2>2
    <3> QED BY <3>2, <3>3 DEF RedactEntry
  <2>4. /\ RedactPart(f, u, b) = Map([k \in DOMAIN u.f |-> RedactEntry(f, u, b, k)])
        /\ RedactPart(g, u, b) = Map([k \in DOMAIN u.f |-> RedactEntry(g, u, b, k)])
    BY <1>1 DEF RedactPart
  <2> QED BY <2>3, <2>4
<1>2. CASE IsLeaf(u)
  BY <1>2 DEF RedactPart, IsLeaf, IsMap
<1>3. CASE ~IsMap(u) /\ ~IsLeaf(u)
  <2>1. Steps(u) = DOMAIN u.e /\ Inside(u) = u.e
    BY <1>3 DEF Steps, Inside
  <2>2. \A i \in DOMAIN u.e : f[<<u.e[i], b>>] = g[<<u.e[i], b>>]
    BY <2>1
  <2>3. /\ RedactPart(f, u, b) = List([i \in DOMAIN u.e |-> f[<<u.e[i], b>>]])
        /\ RedactPart(g, u, b) = List([i \in DOMAIN u.e |-> g[<<u.e[i], b>>]])
    BY <1>3 DEF RedactPart
  <2> QED BY <2>2, <2>3
<1> QED BY <1>1, <1>2, <1>3

Walks(f, S) == f = [x \in S \X BOOLEAN |-> RedactPart(f, x[1], x[2])]

\* There is a walk of all parts of a document.
LEMMA WalkExists ==
  ASSUME NEW v, IsDocument(v) PROVE \E f : Walks(f, Parts(v))
<1>1. MaxNesting \in Nat
  BY NamesAssumption
<1> DEFINE D(n) == Deep(v, MaxNesting - n)
           S == {n \in 0..MaxNesting : \E f : Walks(f, D(n))}
<1>2. 0 \in S
  <2> DEFINE f == [x \in D(0) \X BOOLEAN |-> x[1]]
  <2>1. \A u \in D(0) : IsLeaf(u)
    BY <1>1, DeepParts
  <2>2. ASSUME NEW u \in D(0), NEW b PROVE RedactPart(f, u, b) = u
    BY <2>1, <2>2 DEF RedactPart, IsLeaf, IsMap
  <2>3. Walks(f, D(0))
    <3>1. \A x \in D(0) \X BOOLEAN : x[1] \in D(0) /\ RedactPart(f, x[1], x[2]) = x[1]
      BY <2>2
    <3>2. f = [x \in D(0) \X BOOLEAN |-> RedactPart(f, x[1], x[2])]
      BY <3>1
    <3> HIDE DEF f
    <3> QED BY <3>2 DEF Walks
  <2> HIDE DEF f, D
  <2> QED BY <1>1, <2>3
<1>3. ASSUME NEW n \in 0..(MaxNesting - 1), n \in S PROVE n + 1 \in S
  <2> DEFINE m == MaxNesting - (n + 1)
  <2>1. m \in 0..MaxNesting /\ m + 1 = MaxNesting - n /\ m < MaxNesting /\ n + 1 \in 0..MaxNesting
    BY <1>1
  <2>2. /\ \A u \in D(n + 1) : Shaped(u)
        /\ \A u \in D(n + 1) : \A k \in Steps(u) : Inside(u)[k] \in D(n)
    <3> HIDE DEF m
    <3>1. /\ \A u \in Deep(v, m) : Shaped(u)
          /\ \A u \in Deep(v, m) : \A k \in Steps(u) : Inside(u)[k] \in Deep(v, m + 1)
      BY <2>1, DeepParts
    <3> QED BY <2>1, <3>1 DEF m
  <2>3. PICK g : Walks(g, D(n))
    BY <1>3
  <2> HIDE DEF D
  <2> DEFINE f == [x \in D(n + 1) \X BOOLEAN |->
                     IF x \in D(n) \X BOOLEAN THEN g[x] ELSE RedactPart(g, x[1], x[2])]
  <2>4. \A x \in D(n) \X BOOLEAN : g[x] = RedactPart(g, x[1], x[2])
    BY <2>3 DEF Walks
  <2>5. \A x \in D(n + 1) \X BOOLEAN : f[x] = RedactPart(g, x[1], x[2])
    BY <2>4
  <2>6. \A u \in D(n) : u \in D(n + 1) => \A a \in BOOLEAN : f[<<u, a>>] = g[<<u, a>>]
    BY <2>4
  <2>7. D(n) \in SUBSET D(n + 1)
    BY <1>1, <2>1, DocumentPaths DEF D, Deep
  <2>8. f = [x \in D(n + 1) \X BOOLEAN |-> f[x]]
    OBVIOUS
  <2> HIDE DEF f
  <2>9. ASSUME NEW u \in D(n + 1), NEW b \in BOOLEAN PROVE RedactPart(f, u, b) = RedactPart(g, u, b)
    <3>1. \A k \in Steps(u) : \A a \in BOOLEAN : f[<<Inside(u)[k], a>>] = g[<<Inside(u)[k], a>>]
      BY <2>2, <2>6, <2>7
    <3> QED BY <2>2, <3>1, RedactPartAgrees
  <2>10. \A x \in D(n + 1) \X BOOLEAN : f[x] = RedactPart(f, x[1], x[2])
    BY <2>5, <2>9
  <2>11. Walks(f, D(n + 1))
    BY <2>8, <2>10 DEF Walks
  <2> QED BY <2>1, <2>11
<1> HIDE DEF S
<1>4. \A n \in 0..MaxNesting : n \in S
  BY <1>1, <1>2, <1>3, UpToInduction
<1>5. MaxNesting \in 0..MaxNesting /\ MaxNesting - MaxNesting = 0
  BY <1>1
<1>6. PICK f : Walks(f, Deep(v, MaxNesting - MaxNesting))
  BY <1>4, <1>5 DEF S
<1>7. Deep(v, 0) = Parts(v)
  BY <1>1, <1>5, DeepParts
<1> QED BY <1>5, <1>6, <1>7

\* The walk of a document, as its equation.
IsWalk(f, v) ==
  /\ RedactEmbeddedSecrets(v) = f[<<v, FALSE>>]
  /\ \A p \in Paths(v) : \A b \in BOOLEAN : f[<<At(v, p), b>>] = RedactPart(f, At(v, p), b)

\* RedactEmbeddedSecrets satisfies its equation.
LEMMA Walked ==
  ASSUME NEW v, IsDocument(v) PROVE \E f : IsWalk(f, v)
<1> DEFINE walk[x \in Parts(v) \X BOOLEAN] == RedactPart(walk, x[1], x[2])
<1>1. Walks(walk, Parts(v))
  <2>1. walk = CHOOSE f : Walks(f, Parts(v))
    BY DEF Walks
  <2>2. \E f : Walks(f, Parts(v))
    BY WalkExists
  <2> HIDE DEF walk
  <2> QED BY <2>1, <2>2
<1>2. RedactEmbeddedSecrets(v) = walk[<<v, FALSE>>]
  BY DEF RedactEmbeddedSecrets, RedactWalk
<1> HIDE DEF walk
<1>3. \A u \in Parts(v) : \A b \in BOOLEAN : walk[<<u, b>>] = RedactPart(walk, u, b)
  BY <1>1 DEF Walks
<1>4. \A p \in Paths(v) : At(v, p) \in Parts(v)
  BY DEF Parts
<1>5. IsWalk(walk, v)
  BY <1>2, <1>3, <1>4 DEF IsWalk
<1> QED BY <1>5

-----------------------------------------------------------------------------
(* Prefixes, and what one more step enters.                                *)

\* One more step changes no shorter prefix.
LEMMA PrefixOfAppend ==
  ASSUME NEW p \in Path, NEW k \in Step
  PROVE  /\ Prefix(Append(p, k), Len(p)) = p
         /\ \A n \in 0..Len(p) : Prefix(Append(p, k), n) = Prefix(p, n)
<1> DEFINE q == Append(p, k)
<1>1. q \in Path /\ Len(q) = Len(p) + 1 /\ Len(p) \in Nat /\ \A n \in 1..Len(p) : q[n] = p[n]
  BY AppendPath
<1> HIDE DEF q
<1>2. ASSUME NEW n \in 0..Len(p) PROVE SubSeq(q, 1, n) = SubSeq(p, 1, n)
  <2>1. n \in Int /\ 1 \in Int /\ \A i \in 1..n : q[i] = p[i] /\ i \in 1..Len(p)
    BY <1>1
  <2>2. \A i \in 1..n : p[i] \in Step /\ q[i] \in Step
    BY <2>1, ElementOfSeq DEF Path
  <2>3. /\ SubSeq(p, 1, n) \in Seq(Step) /\ Len(SubSeq(p, 1, n)) = IF 1 <= n THEN n - 1 + 1 ELSE 0
        /\ \A i \in 1..(n - 1 + 1) : SubSeq(p, 1, n)[i] = p[1 + i - 1]
    BY <2>1, <2>2, SubSeqProperties
  <2>4. /\ SubSeq(q, 1, n) \in Seq(Step) /\ Len(SubSeq(q, 1, n)) = IF 1 <= n THEN n - 1 + 1 ELSE 0
        /\ \A i \in 1..(n - 1 + 1) : SubSeq(q, 1, n)[i] = q[1 + i - 1]
    BY <2>1, <2>2, SubSeqProperties
  <2> DEFINE a == SubSeq(p, 1, n)
             b == SubSeq(q, 1, n)
  <2> HIDE DEF a, b
  <2>5. Len(a) = n /\ Len(b) = n
    BY <1>1, <2>3, <2>4 DEF a, b
  <2>6. \A i \in 1..n : i \in 1..(n - 1 + 1) /\ 1 + i - 1 = i
    BY <2>1
  <2>7. \A i \in 1..n : a[i] = b[i]
    BY <2>1, <2>3, <2>4, <2>6 DEF a, b
  <2>8. a = b
    BY <2>3, <2>4, <2>5, <2>7, SeqEqual DEF a, b
  <2> QED BY <2>8 DEF a, b
<1>3. SubSeq(p, 1, Len(p)) = p
  BY SubSeqFull DEF Path
<1>4. Len(p) \in 0..Len(p)
  BY <1>1
<1> QED BY <1>2, <1>3, <1>4 DEF Prefix, q

\* What the last step enters, and that the others enter what they did.
LEMMA EntersAppend ==
  ASSUME NEW v, NEW p \in Path, NEW k \in Step, NEW keys
  PROVE  /\ Enters(v, Append(p, k), Len(p) + 1, keys) <=> IsMap(At(v, p)) /\ k \in keys
         /\ \A n \in Int : n <= Len(p) => (Enters(v, Append(p, k), n, keys) <=> Enters(v, p, n, keys))
<1> DEFINE q == Append(p, k)
<1>1. /\ q \in Path /\ Len(q) = Len(p) + 1 /\ Len(p) \in Nat /\ q[Len(p) + 1] = k
      /\ \A n \in 1..Len(p) : q[n] = p[n]
  BY AppendPath
<1>2. Prefix(q, Len(p)) = p /\ \A n \in 0..Len(p) : Prefix(q, n) = Prefix(p, n)
  BY PrefixOfAppend
<1> HIDE DEF q
<1>3. Enters(v, q, Len(p) + 1, keys) <=> IsMap(At(v, p)) /\ k \in keys
  <2>1. Len(p) + 1 \in 1..Len(q) /\ Len(p) + 1 - 1 = Len(p)
    BY <1>1
  <2> QED BY <1>1, <1>2, <2>1 DEF Enters
<1>4. ASSUME NEW n \in Int, n <= Len(p) PROVE Enters(v, q, n, keys) <=> Enters(v, p, n, keys)
  <2>1. n \in 1..Len(q) <=> n \in 1..Len(p)
    BY <1>1, <1>4
  <2>2. n \in 1..Len(p) => n - 1 \in 0..Len(p)
    BY <1>1
  <2> QED BY <1>1, <1>2, <2>1, <2>2 DEF Enters
<1> QED BY <1>3, <1>4 DEF q

\* What a path ends in.
InPayload(v, p) ==
  Enters(v, p, Len(p), {"data", "stringData"}) /\ IsSecretManifest(At(v, Prefix(p, Len(p) - 1)))
InMetadata(v, p) == Enters(v, p, Len(p), {"metadata"})
InAnnotations(v, p) == Enters(v, p, Len(p), {"annotations"}) /\ Enters(v, p, Len(p) - 1, {"metadata"})
InArguments(v, p) == \E i \in 1..Len(p) : Enters(v, p, i, {"forProvider", "initProvider"})

\* Nothing of this holds at the root.
LEMMA AtStart ==
  ASSUME NEW v
  PROVE  /\ ~InPayload(v, <<>>) /\ ~InMetadata(v, <<>>) /\ ~InAnnotations(v, <<>>)
         /\ ~InArguments(v, <<>>) /\ ~Withheld(v, <<>>)
<1>1. Len(<<>>) = 0
  BY AtRoot
<1>2. \A n \in Int : n <= 0 => \A keys : ~Enters(v, <<>>, n, keys)
  BY <1>1 DEF Enters
<1>3. 1..Len(<<>>) = {} /\ \A i \in 1..(Len(<<>>) - 1) : FALSE
  BY <1>1
<1>4. 0 - 1 <= 0 /\ 0 - 1 \in Int /\ 0 - 2 <= 0 /\ 0 - 2 \in Int /\ 0 <= 0 /\ 0 \in Int
  OBVIOUS
<1>5. ~InPayload(v, <<>>) /\ ~InMetadata(v, <<>>) /\ ~InAnnotations(v, <<>>)
  BY <1>1, <1>2, <1>4 DEF InPayload, InMetadata, InAnnotations
<1>6. ~InArguments(v, <<>>)
  BY <1>3 DEF InArguments
<1>7. ~Withheld(v, <<>>)
  BY <1>1, <1>2, <1>4 DEF Withheld
<1> QED BY <1>5, <1>6, <1>7

\* And one step further, by what the step is and what held before it.
LEMMA StepEnters ==
  ASSUME NEW v, NEW p \in Path, NEW k \in Step
  PROVE  LET u == At(v, p)
             q == Append(p, k)
             there == At(v, q)
         IN  /\ InPayload(v, q) <=> IsMap(u) /\ IsPayload(k) /\ IsSecretManifest(u)
             /\ InMetadata(v, q) <=> IsMap(u) /\ k = "metadata"
             /\ InAnnotations(v, q) <=> IsMap(u) /\ k = "annotations" /\ InMetadata(v, p)
             /\ InArguments(v, q) <=> InArguments(v, p) \/ (IsMap(u) /\ IsProvider(k))
             /\ Withheld(v, q) <=> \/ InPayload(v, p) /\ IsMap(u)
                                   \/ InPayload(v, q) /\ ~IsMap(there) /\ there # Null
                                   \/ IsMap(u) /\ k = "lastApplied" /\ InAnnotations(v, p)
                                   \/ IsMap(u) /\ IsWriteOnlyArg(k) /\ there # Null /\ InArguments(v, p)
<1> DEFINE u == At(v, p)
           q == Append(p, k)
           there == At(v, q)
           n == Len(p)
<1>1. n \in Nat /\ Len(q) = n + 1
  BY AppendPath
<1>2. Prefix(q, n) = p /\ \A i \in 0..n : Prefix(q, i) = Prefix(p, i)
  BY PrefixOfAppend
<1>3. \A keys : /\ Enters(v, q, n + 1, keys) <=> IsMap(u) /\ k \in keys
                /\ Enters(v, q, n, keys) <=> Enters(v, p, n, keys)
                /\ Enters(v, q, n - 1, keys) <=> Enters(v, p, n - 1, keys)
  <2>1. n \in Int /\ n <= n /\ n - 1 \in Int /\ n - 1 <= n
    BY <1>1
  <2> QED BY <2>1, EntersAppend
<1>4. \A keys : \A i \in 1..n : Enters(v, q, i, keys) <=> Enters(v, p, i, keys)
  <2>1. \A i \in 1..n : i \in Int /\ i <= n
    BY <1>1
  <2> QED BY <2>1, EntersAppend
<1>5. n + 1 - 1 = n /\ n + 1 - 2 = n - 1
  BY <1>1
<1> HIDE DEF q, there, n
<1>6. InPayload(v, q) <=> IsMap(u) /\ IsPayload(k) /\ IsSecretManifest(u)
  BY <1>1, <1>2, <1>3, <1>5 DEF InPayload, IsPayload, n
<1>7. InMetadata(v, q) <=> IsMap(u) /\ k = "metadata"
  BY <1>1, <1>3 DEF InMetadata
<1>8. InAnnotations(v, q) <=> IsMap(u) /\ k = "annotations" /\ InMetadata(v, p)
  BY <1>1, <1>3, <1>5 DEF InAnnotations, InMetadata, n
<1>9. InArguments(v, q) <=> InArguments(v, p) \/ (IsMap(u) /\ IsProvider(k))
  <2>1. \A i : i \in 1..(n + 1) <=> i \in 1..n \/ i = n + 1
    BY <1>1
  <2>2. InArguments(v, p) <=> \E i \in 1..n : Enters(v, q, i, {"forProvider", "initProvider"})
    BY <1>4 DEF InArguments, n
  <2>3. InArguments(v, q) <=> \E i \in 1..(n + 1) : Enters(v, q, i, {"forProvider", "initProvider"})
    BY <1>1 DEF InArguments
  <2>4. Enters(v, q, n + 1, {"forProvider", "initProvider"}) <=> IsMap(u) /\ IsProvider(k)
    BY <1>3 DEF IsProvider
  <2> HIDE DEF u
  <2> QED BY <2>1, <2>2, <2>3, <2>4
<1>10. Withheld(v, q) <=> \/ InPayload(v, p) /\ IsMap(u)
                          \/ InPayload(v, q) /\ ~IsMap(there) /\ there # Null
                          \/ IsMap(u) /\ k = "lastApplied" /\ InAnnotations(v, p)
                          \/ IsMap(u) /\ IsWriteOnlyArg(k) /\ there # Null /\ InArguments(v, p)
  <2> DEFINE payload == {"data", "stringData"}
             one == /\ Enters(v, q, n, payload) /\ IsMap(At(v, Prefix(q, n)))
                    /\ IsSecretManifest(At(v, Prefix(q, n - 1)))
             two == /\ Enters(v, q, n + 1, payload) /\ IsSecretManifest(At(v, Prefix(q, n)))
                    /\ ~IsMap(At(v, q)) /\ At(v, q) # Null
             three == /\ Enters(v, q, n + 1, {"lastApplied"}) /\ Enters(v, q, n, {"annotations"})
                      /\ Enters(v, q, n - 1, {"metadata"})
             four == /\ Enters(v, q, n + 1, WriteOnlyArgs) /\ At(v, q) # Null
                     /\ \E i \in 1..n : Enters(v, q, i, {"forProvider", "initProvider"})
  <2>1. Withheld(v, q) <=> one \/ two \/ three \/ four
    BY <1>1, <1>5 DEF Withheld
  <2>2. one <=> InPayload(v, p) /\ IsMap(u)
    <3>1. Enters(v, p, n, payload) => n - 1 \in 0..n
      BY <1>1 DEF Enters, n
    <3>2. Enters(v, p, n, payload) => Prefix(q, n - 1) = Prefix(p, n - 1)
      BY <1>2, <3>1
    <3> HIDE DEF payload
    <3>3. one <=> Enters(v, p, n, payload) /\ IsMap(u) /\ IsSecretManifest(At(v, Prefix(p, n - 1)))
      BY <1>2, <1>3, <3>2
    <3> HIDE DEF one
    <3> QED BY <3>3 DEF InPayload, n, payload
  <2>3. two <=> InPayload(v, q) /\ ~IsMap(there) /\ there # Null
    BY <1>1, <1>5 DEF InPayload, there
  <2>4. three <=> IsMap(u) /\ k = "lastApplied" /\ InAnnotations(v, p)
    BY <1>3 DEF InAnnotations, n
  <2>5. four <=> IsMap(u) /\ IsWriteOnlyArg(k) /\ there # Null /\ InArguments(v, p)
    <3>1. InArguments(v, p) <=> \E i \in 1..n : Enters(v, q, i, {"forProvider", "initProvider"})
      BY <1>4 DEF InArguments, n
    <3>2. Enters(v, q, n + 1, WriteOnlyArgs) <=> IsMap(u) /\ IsWriteOnlyArg(k)
      BY <1>3 DEF IsWriteOnlyArg
    <3> QED BY <3>1, <3>2 DEF there
  <2> HIDE DEF one, two, three, four
  <2> QED BY <2>1, <2>2, <2>3, <2>4, <2>5
<1> QED BY <1>6, <1>7, <1>8, <1>9, <1>10 DEF q, there

-----------------------------------------------------------------------------
(* What get_resource makes of a place.                                     *)

IsList(u) == ~IsLeaf(u) /\ ~IsMap(u)

\* RedactLastApplied, once within the annotations.
Strip(u) == IF Has(u, "lastApplied") THEN [u EXCEPT !.f["lastApplied"] = Marker] ELSE u

\* Strip changes one entry and keeps the shape.
LEMMA Stripped ==
  ASSUME NEW u, Shaped(u)
  PROVE  /\ Shaped(Strip(u)) /\ Strip(u).t = u.t /\ (~IsMap(u) => Strip(u) = u)
         /\ IsMap(u) =>
              /\ DOMAIN Strip(u).f = DOMAIN u.f
              /\ \A k \in DOMAIN u.f : Strip(u).f[k] = IF k = "lastApplied" THEN Marker ELSE u.f[k]
<1>1. CASE Has(u, "lastApplied")
  <2>1. Strip(u) = [u EXCEPT !.f["lastApplied"] = Marker] /\ IsMap(u)
    BY <1>1 DEF Strip, Has
  <2>2. Strip(u).t = u.t
    BY <2>1
  <2>3. u = Map([k \in DOMAIN u.f |-> u.f[k]]) /\ DOMAIN u.f \subseteq STRING
    BY <2>1 DEF Shaped, IsMap
  <2>4. Strip(u).f = [u.f EXCEPT !["lastApplied"] = Marker] /\ Strip(u) = Map(Strip(u).f)
    BY <2>1, <2>3 DEF Map
  <2>5. Strip(u).f = [k \in DOMAIN u.f |-> Strip(u).f[k]] /\ DOMAIN Strip(u).f = DOMAIN u.f
    BY <2>4
  <2>6. Shaped(Strip(u))
    BY <2>1, <2>2, <2>3, <2>4, <2>5 DEF Shaped, IsMap
  <2> QED BY <2>1, <2>2, <2>4, <2>6
<1>2. CASE ~Has(u, "lastApplied")
  BY <1>2 DEF Strip, Has
<1> QED BY <1>1, <1>2

\* RedactLastApplied changes one entry of one entry, and keeps the shape.
LEMMA LastApplied ==
  ASSUME NEW u, Shaped(u)
  PROVE  /\ Shaped(RedactLastApplied(u)) /\ RedactLastApplied(u).t = u.t
         /\ ~IsMap(u) => RedactLastApplied(u) = u
         /\ IsMap(u) =>
              /\ DOMAIN RedactLastApplied(u).f = DOMAIN u.f
              /\ \A k \in DOMAIN u.f :
                   RedactLastApplied(u).f[k] = IF k = "annotations" THEN Strip(u.f[k]) ELSE u.f[k]
<1> DEFINE r == RedactLastApplied(u)
<1>1. CASE Has(u, "annotations") /\ Has(u.f["annotations"], "lastApplied")
  <2>1. /\ r = [u EXCEPT !.f["annotations"].f["lastApplied"] = Marker]
        /\ IsMap(u) /\ Strip(u.f["annotations"]) = [u.f["annotations"] EXCEPT !.f["lastApplied"] = Marker]
    BY <1>1 DEF RedactLastApplied, Strip, Has
  <2>2. r.t = u.t
    BY <2>1
  <2>3. u = Map([k \in DOMAIN u.f |-> u.f[k]]) /\ DOMAIN u.f \subseteq STRING
    BY <2>1 DEF Shaped, IsMap
  <2>4. r.f = [u.f EXCEPT !["annotations"] = Strip(u.f["annotations"])] /\ r = Map(r.f)
    BY <2>1, <2>3 DEF Map
  <2> HIDE DEF r
  <2>5. r.f = [k \in DOMAIN u.f |-> r.f[k]] /\ DOMAIN r.f = DOMAIN u.f
    BY <2>4
  <2>6. Shaped(r)
    BY <2>1, <2>2, <2>3, <2>4, <2>5 DEF Shaped, IsMap
  <2>7. \A k \in DOMAIN u.f : r.f[k] = IF k = "annotations" THEN Strip(u.f[k]) ELSE u.f[k]
    BY <2>4
  <2> QED BY <2>1, <2>2, <2>5, <2>6, <2>7 DEF r
<1>2. CASE ~Has(u, "annotations")
  BY <1>2 DEF RedactLastApplied, Has
<1>3. CASE Has(u, "annotations") /\ ~Has(u.f["annotations"], "lastApplied")
  <2>1. RedactLastApplied(u) = u /\ Strip(u.f["annotations"]) = u.f["annotations"]
    BY <1>3 DEF RedactLastApplied, Strip
  <2> QED BY <2>1
<1> QED BY <1>1, <1>2, <1>3

\* The walk of the place, before what is cut out of it afterwards.
Through(walk, v, p) == walk[<<At(v, p), InArguments(v, p)>>]

Shown(walk, v, p) ==
  IF Withheld(v, p) THEN Marker
  ELSE IF InPayload(v, p) THEN RedactSecretValues(At(v, p))
  ELSE IF InAnnotations(v, p) THEN Strip(Through(walk, v, p))
  ELSE IF InMetadata(v, p) THEN RedactLastApplied(Through(walk, v, p))
  ELSE Through(walk, v, p)

\* The walk of a place keeps its kind of value and its keys.
LEMMA ThroughPart ==
  ASSUME NEW v, IsDocument(v), NEW walk, IsWalk(walk, v), NEW p \in Paths(v)
  PROVE  LET u == At(v, p)
             there == Through(walk, v, p)
         IN  /\ Shaped(there) /\ there.t = u.t /\ (IsLeaf(u) => there = u)
             /\ IsMap(u) => /\ DOMAIN there.f = DOMAIN u.f
                            /\ \A k \in DOMAIN u.f :
                                 there.f[k] = RedactEntry(walk, u, InArguments(v, p), k)
             /\ IsList(u) => /\ DOMAIN there.e = DOMAIN u.e
                             /\ \A i \in DOMAIN u.e : there.e[i] = walk[<<u.e[i], InArguments(v, p)>>]
<1> DEFINE u == At(v, p)
           there == Through(walk, v, p)
           b == InArguments(v, p)
<1>1. b \in BOOLEAN
  BY DEF InArguments
<1>2. there = RedactPart(walk, u, b)
  BY <1>1 DEF IsWalk, Through
<1>3. Shaped(u)
  BY DocumentPaths
<1> HIDE DEF u, b, there
<1>4. CASE IsMap(u)
  <2>1. there = Map([k \in DOMAIN u.f |-> RedactEntry(walk, u, b, k)])
    BY <1>2, <1>4 DEF RedactPart
  <2>2. there.t = u.t /\ ~IsLeaf(u) /\ ~IsList(u)
    BY <1>4, <2>1 DEF Map, IsMap, IsLeaf, IsList
  <2>3. there.f = [k \in DOMAIN u.f |-> RedactEntry(walk, u, b, k)] /\ there = Map(there.f)
    BY <2>1 DEF Map
  <2>4. Shaped(there)
    <3>1. DOMAIN u.f \subseteq STRING
      BY <1>3, <1>4 DEF Shaped, IsMap
    <3>2. there.f = [k \in DOMAIN there.f |-> there.f[k]]
      BY <2>3
    <3> QED BY <1>4, <2>2, <2>3, <3>1, <3>2 DEF Shaped, IsMap
  <2> QED BY <1>4, <2>2, <2>3, <2>4 DEF u, b, there
<1>5. CASE IsLeaf(u)
  <2>1. there = u /\ ~IsMap(u) /\ ~IsList(u)
    BY <1>2, <1>5 DEF RedactPart, IsMap, IsLeaf, IsList
  <2> QED BY <1>3, <1>5, <2>1 DEF u, b, there
<1>6. CASE IsList(u)
  <2>1. there = List([i \in DOMAIN u.e |-> walk[<<u.e[i], b>>]])
    BY <1>2, <1>6 DEF RedactPart, IsList
  <2>2. there.t = u.t /\ ~IsLeaf(u) /\ ~IsMap(u)
    BY <1>3, <1>6, <2>1 DEF List, IsList, IsLeaf, IsMap, Shaped
  <2>3. there.e = [i \in DOMAIN u.e |-> walk[<<u.e[i], b>>]] /\ there = List(there.e)
    BY <2>1 DEF List
  <2>4. Shaped(there)
    <3>1. DOMAIN u.e \subseteq Nat /\ u.t = "list"
      BY <1>3, <1>6 DEF Shaped, IsList, IsLeaf, IsMap
    <3>2. there.e = [i \in DOMAIN there.e |-> there.e[i]]
      BY <2>3
    <3> QED BY <2>2, <2>3, <3>1, <3>2 DEF Shaped
  <2> QED BY <1>6, <2>2, <2>3, <2>4 DEF u, b, there
<1> QED BY <1>4, <1>5, <1>6 DEF IsList

\* An entry of a map, by what the path to it ends in.
LEMMA EntryShown ==
  ASSUME NEW v, IsDocument(v), NEW walk, NEW p \in Paths(v), IsMap(At(v, p)), ~InPayload(v, p),
         NEW k \in DOMAIN At(v, p).f
  PROVE  LET q     == Append(p, k)
             entry == RedactEntry(walk, At(v, p), InArguments(v, p), k)
         IN  /\ Withheld(v, q) => entry = Marker \/ (k = "lastApplied" /\ InAnnotations(v, p))
             /\ ~Withheld(v, q) =>
                  entry = IF InPayload(v, q) THEN RedactSecretValues(At(v, q))
                          ELSE IF InMetadata(v, q) THEN RedactLastApplied(Through(walk, v, q))
                          ELSE Through(walk, v, q)
<1> DEFINE u == At(v, p)
           q == Append(p, k)
           x == u.f[k]
           b == InArguments(v, p)
           entry == RedactEntry(walk, u, b, k)
<1>1. p \in Path /\ k \in Steps(u) /\ Inside(u) = u.f
  BY DocumentPaths DEF Steps, Inside, IsMap, IsLeaf
<1>2. k \in Step /\ At(v, q) = x
  <2>1. k \in Step
    BY <1>1, DocumentPaths
  <2> QED BY <1>1, <2>1, AtStep
<1>3. /\ InPayload(v, q) <=> IsPayload(k) /\ IsSecretManifest(u)
      /\ InMetadata(v, q) <=> k = "metadata"
      /\ InArguments(v, q) <=> b \/ IsProvider(k)
      /\ Withheld(v, q) <=> \/ InPayload(v, q) /\ ~IsMap(x) /\ x # Null
                            \/ k = "lastApplied" /\ InAnnotations(v, p)
                            \/ IsWriteOnlyArg(k) /\ x # Null /\ b
  BY <1>1, <1>2, StepEnters
<1>4. InProvider(k, b) = InArguments(v, q)
  <2>1. InProvider(k, b) <=> InArguments(v, q)
    BY <1>3 DEF InProvider
  <2>2. InProvider(k, b) \in BOOLEAN /\ InArguments(v, q) \in BOOLEAN
    BY DEF InProvider, InArguments, IsProvider
  <2> QED BY <2>1, <2>2
<1>5. IsPayload(k) => ~IsWriteOnlyArg(k) /\ k # "metadata"
  BY NamesAssumption DEF IsPayload, IsWriteOnlyArg
<1>6. k = "metadata" => ~IsWriteOnlyArg(k) /\ ~IsProvider(k) /\ ~IsPayload(k)
  BY NamesAssumption DEF IsPayload, IsWriteOnlyArg, IsProvider
<1>7. Through(walk, v, q) = walk[<<x, InProvider(k, b)>>]
  BY <1>2, <1>4 DEF Through
<1>8. CASE IsSecretManifest(u) /\ IsPayload(k)
  <2>1. entry = RedactSecretValues(x)
    BY <1>5, <1>8 DEF RedactEntry
  <2>2. x # Null /\ ~IsMap(x) => RedactSecretValues(x) = Marker
    BY DEF RedactSecretValues
  <2> QED BY <1>2, <1>3, <1>5, <1>8, <2>1, <2>2
<1>9. CASE ~(IsSecretManifest(u) /\ IsPayload(k)) /\ k = "metadata"
  <2>1. entry = RedactLastApplied(walk[<<x, b>>])
    BY <1>9 DEF RedactEntry
  <2>2. InProvider(k, b) = b
    <3>1. InProvider(k, b) <=> b
      BY <1>6, <1>9 DEF InProvider
    <3>2. InProvider(k, b) \in BOOLEAN /\ b \in BOOLEAN
      BY DEF InProvider, InArguments, IsProvider
    <3> QED BY <3>1, <3>2
  <2> QED BY <1>3, <1>6, <1>7, <1>9, <2>1, <2>2
<1>10. CASE ~(IsSecretManifest(u) /\ IsPayload(k)) /\ k # "metadata"
  <2>1. entry = IF b /\ IsWriteOnlyArg(k) /\ x # Null THEN Marker ELSE walk[<<x, InProvider(k, b)>>]
    BY <1>10 DEF RedactEntry
  <2> QED BY <1>3, <1>7, <1>10, <2>1
<1> QED BY <1>8, <1>9, <1>10

\* A place that is not withheld keeps its kind of value and its keys, and shows
\* what its contents show.
LEMMA ShownStep ==
  ASSUME NEW v, IsDocument(v), NEW walk, IsWalk(walk, v), NEW p \in Paths(v), ~Withheld(v, p)
  PROVE  LET u == At(v, p)
             s == Shown(walk, v, p)
         IN  /\ Shaped(s) /\ s.t = u.t /\ (IsLeaf(u) => s = u) /\ Steps(s) = Steps(u)
             /\ \A k \in Steps(u) : Inside(s)[k] = Shown(walk, v, Append(p, k))
<1> DEFINE u == At(v, p)
           s == Shown(walk, v, p)
           there == Through(walk, v, p)
           b == InArguments(v, p)
<1>1. p \in Path /\ Shaped(u)
  BY DocumentPaths
<1>2. \A k \in Steps(u) : /\ k \in Step /\ Append(p, k) \in Paths(v)
                          /\ At(v, Append(p, k)) = Inside(u)[k]
  <2>1. \A k \in Steps(u) : k \in Step /\ Append(p, k) \in Paths(v)
    BY DocumentPaths
  <2> QED BY <1>1, <2>1, AtStep
<1>3. CASE InPayload(v, p)
  <2>1. IsMap(u) \/ u = Null
    BY <1>3 DEF Withheld, InPayload
  <2>2. s = RedactSecretValues(u)
    BY <1>3 DEF Shown
  <2>3. CASE u = Null
    <3>1. s = u /\ IsLeaf(u)
      BY <2>2, <2>3 DEF RedactSecretValues, Null, Leaf, IsLeaf
    <3> HIDE DEF s, u
    <3> QED BY <1>1, <3>1 DEF Steps, s, u
  <2>4. CASE IsMap(u) /\ u # Null
    <3>1. s = Map([k \in DOMAIN u.f |-> Marker])
      BY <2>2, <2>4 DEF RedactSecretValues
    <3>2. s.t = "map" /\ s.f = [k \in DOMAIN u.f |-> Marker]
      BY <3>1 DEF Map
    <3>3. /\ IsMap(s) /\ ~IsLeaf(s) /\ ~IsLeaf(u) /\ u.t = "map" /\ DOMAIN s.f = DOMAIN u.f
          /\ DOMAIN u.f \subseteq STRING
      BY <1>1, <2>4, <3>2 DEF IsMap, IsLeaf, Shaped
    <3>4. Shaped(s)
      BY <3>1, <3>2, <3>3 DEF Shaped
    <3>5. Steps(u) = DOMAIN u.f /\ Steps(s) = DOMAIN u.f /\ Inside(s) = s.f
      BY <2>4, <3>3 DEF Steps, Inside
    <3>6. \A k \in Steps(u) : Withheld(v, Append(p, k))
      BY <1>1, <1>2, <1>3, <2>4, StepEnters
    <3>7. \A k \in Steps(u) : Shown(walk, v, Append(p, k)) = Marker
      BY <3>6 DEF Shown
    <3> HIDE DEF s, u
    <3>8. \A k \in Steps(u) : Inside(s)[k] = Marker
      BY <3>2, <3>5
    <3> QED BY <3>2, <3>3, <3>4, <3>5, <3>7, <3>8 DEF s, u
  <2> QED BY <2>1, <2>3, <2>4
<1>4. CASE ~InPayload(v, p)
  <2>1. /\ Shaped(there) /\ there.t = u.t /\ (IsLeaf(u) => there = u)
        /\ IsMap(u) => /\ DOMAIN there.f = DOMAIN u.f
                       /\ \A k \in DOMAIN u.f : there.f[k] = RedactEntry(walk, u, b, k)
        /\ IsList(u) => /\ DOMAIN there.e = DOMAIN u.e
                        /\ \A i \in DOMAIN u.e : there.e[i] = walk[<<u.e[i], b>>]
    BY ThroughPart
  <2>2. /\ Shaped(s) /\ s.t = there.t /\ (~IsMap(there) => s = there)
        /\ IsMap(there) =>
             /\ DOMAIN s.f = DOMAIN there.f
             /\ \A k \in DOMAIN s.f :
                  s.f[k] = IF InAnnotations(v, p) /\ k = "lastApplied" THEN Marker
                           ELSE IF ~InAnnotations(v, p) /\ InMetadata(v, p) /\ k = "annotations"
                           THEN Strip(there.f[k]) ELSE there.f[k]
    <3> HIDE DEF there
    <3>1. CASE InAnnotations(v, p)
      <4>1. s = Strip(there)
        BY <1>4, <3>1 DEF Shown, there
      <4> QED BY <2>1, <3>1, <4>1, Stripped
    <3>2. CASE ~InAnnotations(v, p) /\ InMetadata(v, p)
      <4>1. s = RedactLastApplied(there)
        BY <1>4, <3>2 DEF Shown, there
      <4> QED BY <2>1, <3>2, <4>1, LastApplied
    <3>3. CASE ~InAnnotations(v, p) /\ ~InMetadata(v, p)
      <4>1. s = there
        BY <1>4, <3>3 DEF Shown, there
      <4> QED BY <2>1, <3>3, <4>1
    <3> QED BY <3>1, <3>2, <3>3
  <2> HIDE DEF s, there
  <2>3. CASE IsLeaf(u)
    <3>1. s = u /\ Steps(u) = {}
      BY <2>1, <2>2, <2>3 DEF Steps, IsLeaf, IsMap
    <3> HIDE DEF u
    <3> QED BY <1>1, <3>1 DEF s, u
  <2>4. CASE IsMap(u)
    <3>1. /\ IsMap(s) /\ ~IsLeaf(s) /\ ~IsLeaf(u) /\ IsMap(there) /\ s.t = u.t /\ DOMAIN s.f = DOMAIN u.f
      BY <2>1, <2>2, <2>4 DEF IsMap, IsLeaf
    <3>2. Steps(u) = DOMAIN u.f /\ Steps(s) = Steps(u) /\ Inside(s) = s.f
      BY <2>4, <3>1 DEF Steps, Inside
    <3>3. ASSUME NEW k \in Steps(u) PROVE s.f[k] = Shown(walk, v, Append(p, k))
      <4> DEFINE q == Append(p, k)
      <4>1. /\ k \in DOMAIN u.f /\ k \in DOMAIN s.f /\ k \in Step
            /\ there.f[k] = RedactEntry(walk, u, b, k)
        BY <1>2, <2>1, <2>4, <3>1, <3>2
      <4>2. /\ Withheld(v, q) => there.f[k] = Marker \/ (k = "lastApplied" /\ InAnnotations(v, p))
            /\ ~Withheld(v, q) =>
                 there.f[k] = IF InPayload(v, q) THEN RedactSecretValues(At(v, q))
                              ELSE IF InMetadata(v, q) THEN RedactLastApplied(Through(walk, v, q))
                              ELSE Through(walk, v, q)
        BY <1>4, <2>4, <4>1, EntryShown
      <4>3. /\ InPayload(v, q) => IsPayload(k)
            /\ InMetadata(v, q) <=> k = "metadata"
            /\ InAnnotations(v, q) <=> k = "annotations" /\ InMetadata(v, p)
            /\ k = "lastApplied" /\ InAnnotations(v, p) => Withheld(v, q)
        BY <1>1, <2>4, <4>1, StepEnters
      <4>4. k = "annotations" /\ InMetadata(v, p) => ~Withheld(v, q)
        <5>1. k = "annotations" => ~IsWriteOnlyArg(k) /\ ~IsPayload(k)
          BY NamesAssumption DEF IsWriteOnlyArg, IsPayload
        <5>2. /\ InPayload(v, q) => IsPayload(k)
              /\ Withheld(v, q) => \/ InPayload(v, q) \/ k = "lastApplied" \/ IsWriteOnlyArg(k)
          BY <1>1, <1>4, <4>1, StepEnters
        <5> QED BY <5>1, <5>2
      <4>5. InMetadata(v, p) => ~InAnnotations(v, p)
        BY DEF InMetadata, InAnnotations, Enters
      <4>6. s.f[k] = IF InAnnotations(v, p) /\ k = "lastApplied" THEN Marker
                     ELSE IF InMetadata(v, p) /\ k = "annotations" THEN Strip(there.f[k]) ELSE there.f[k]
        BY <2>2, <3>1, <4>1, <4>5
      <4>7. Shown(walk, v, q) = IF Withheld(v, q) THEN Marker
                                ELSE IF InPayload(v, q) THEN RedactSecretValues(At(v, q))
                                ELSE IF InAnnotations(v, q) THEN Strip(Through(walk, v, q))
                                ELSE IF InMetadata(v, q) THEN RedactLastApplied(Through(walk, v, q))
                                ELSE Through(walk, v, q)
        BY DEF Shown
      <4> SUFFICES s.f[k] = Shown(walk, v, q)
        OBVIOUS
      <4> HIDE DEF q, u, b
      <4>8. CASE InAnnotations(v, p) /\ k = "lastApplied"
        BY <4>3, <4>6, <4>7, <4>8
      <4>9. CASE InMetadata(v, p) /\ k = "annotations"
        <5>1. ~InPayload(v, q) /\ ~InMetadata(v, q)
          BY <4>3, <4>9 DEF IsPayload
        <5>2. k # "lastApplied"
          BY <4>9
        <5> QED BY <4>2, <4>3, <4>4, <4>6, <4>7, <4>9, <5>1, <5>2
      <4>10. CASE ~(InAnnotations(v, p) /\ k = "lastApplied") /\ ~(InMetadata(v, p) /\ k = "annotations")
        BY <4>2, <4>3, <4>6, <4>7, <4>10
      <4> QED BY <4>8, <4>9, <4>10
    <3> HIDE DEF u
    <3> QED BY <2>2, <3>1, <3>2, <3>3 DEF s, u
  <2>5. CASE IsList(u)
    <3>1. s = there /\ s.t = u.t /\ ~IsMap(u) /\ ~IsLeaf(u) /\ ~IsMap(s) /\ ~IsLeaf(s) /\ DOMAIN s.e = DOMAIN u.e
      BY <2>1, <2>2, <2>5 DEF IsList, IsMap, IsLeaf
    <3>2. Steps(u) = DOMAIN u.e /\ Inside(u) = u.e /\ Steps(s) = Steps(u) /\ Inside(s) = s.e
      BY <3>1 DEF Steps, Inside
    <3>3. ASSUME NEW k \in Steps(u) PROVE s.e[k] = Shown(walk, v, Append(p, k))
      <4> DEFINE q == Append(p, k)
      <4>1. k \in Step /\ At(v, q) = u.e[k] /\ s.e[k] = walk[<<u.e[k], b>>]
        BY <1>2, <2>1, <2>5, <3>1, <3>2
      <4>2. /\ ~InPayload(v, q) /\ ~InMetadata(v, q) /\ ~InAnnotations(v, q) /\ ~Withheld(v, q)
            /\ InArguments(v, q) <=> b
        BY <1>1, <3>1, <4>1, StepEnters
      <4>3. InArguments(v, q) = b
        <5>1. InArguments(v, q) \in BOOLEAN /\ b \in BOOLEAN
          BY DEF InArguments
        <5> QED BY <4>2, <5>1
      <4>4. Shown(walk, v, q) = walk[<<u.e[k], b>>]
        BY <4>1, <4>2, <4>3 DEF Shown, Through
      <4> QED BY <4>1, <4>4
    <3> HIDE DEF u
    <3> QED BY <2>2, <3>1, <3>2, <3>3 DEF s, u
  <2> QED BY <2>3, <2>4, <2>5 DEF IsList
<1> QED BY <1>3, <1>4

\* Below a withheld place.
Covered(v, p) == \E q \in Paths(v) : Withheld(v, q) /\ Len(q) < Len(p) /\ Prefix(p, Len(q)) = q

\* A place is below a withheld one if the place above it is, or is withheld.
LEMMA CoveredStep ==
  ASSUME NEW v, IsDocument(v), NEW p \in Paths(v), NEW k \in Step
  PROVE  Covered(v, Append(p, k)) <=> Covered(v, p) \/ Withheld(v, p)
<1>1. Paths(v) \in SUBSET Path /\ p \in Path
  BY DocumentPaths
<1>2. Len(Append(p, k)) = Len(p) + 1 /\ Len(p) \in Nat
  BY <1>1, AppendPath
<1>3. /\ Prefix(Append(p, k), Len(p)) = p
      /\ \A n \in 0..Len(p) : Prefix(Append(p, k), n) = Prefix(p, n)
  BY <1>1, PrefixOfAppend
<1>4. \A q \in Paths(v) : Len(q) \in Nat
  BY <1>1, LastStep
<1>5. ASSUME Covered(v, Append(p, k)) PROVE Covered(v, p) \/ Withheld(v, p)
  <2>1. PICK q \in Paths(v) : /\ Withheld(v, q) /\ Len(q) < Len(Append(p, k))
                              /\ Prefix(Append(p, k), Len(q)) = q
    BY <1>5 DEF Covered
  <2>2. CASE Len(q) = Len(p)
    BY <1>3, <2>1, <2>2
  <2>3. CASE Len(q) # Len(p)
    <3>1. Len(q) < Len(p) /\ Len(q) \in 0..Len(p)
      BY <1>2, <1>4, <2>1, <2>3
    <3> QED BY <1>3, <2>1, <3>1 DEF Covered
  <2> QED BY <2>2, <2>3
<1>6. ASSUME Covered(v, p) PROVE Covered(v, Append(p, k))
  <2>1. PICK q \in Paths(v) : Withheld(v, q) /\ Len(q) < Len(p) /\ Prefix(p, Len(q)) = q
    BY <1>6 DEF Covered
  <2>2. Len(q) < Len(Append(p, k)) /\ Len(q) \in 0..Len(p)
    BY <1>2, <1>4, <2>1
  <2> QED BY <1>3, <2>1, <2>2 DEF Covered
<1>7. ASSUME Withheld(v, p) PROVE Covered(v, Append(p, k))
  <2>1. Len(p) < Len(Append(p, k))
    BY <1>2
  <2> QED BY <1>3, <1>7, <2>1 DEF Covered
<1> QED BY <1>5, <1>6, <1>7

\* redact.go withholds exactly what Withheld says, of any document.
LEMMA RedactsExactly ==
  ASSUME NEW v, IsDocument(v)
  PROVE  /\ WithheldExactly(v, RedactEmbeddedSecrets(v))
         /\ IsDocument(RedactEmbeddedSecrets(v))
<1>1. PICK walk : IsWalk(walk, v)
  BY Walked
<1> DEFINE out == RedactEmbeddedSecrets(v)
           P == {p \in Paths(v) : ~Covered(v, p)}
           E == [p \in P |-> Shown(walk, v, p)]
<1>2. /\ <<>> \in Paths(v) /\ Paths(v) \in SUBSET Path
      /\ \A p \in Paths(v) : Shaped(At(v, p)) /\ Len(p) \in 0..MaxNesting
      /\ \A p \in Paths(v) : \A k \in Steps(At(v, p)) :
           k \in Step /\ Append(p, k) \in Paths(v) /\ Len(p) + 1 <= MaxNesting
      /\ \A p \in Path : \A k \in Step :
           Append(p, k) \in Paths(v) => p \in Paths(v) /\ k \in Steps(At(v, p))
  BY DocumentPaths
<1>3. <<>> \in P /\ Shown(walk, v, <<>>) = out
  <2>1. ~Covered(v, <<>>)
    <3>1. \A q \in Paths(v) : ~(Len(q) < 0)
      BY <1>2
    <3>2. Len(<<>>) = 0
      BY AtRoot
    <3> QED BY <3>1, <3>2 DEF Covered
  <2>2. InArguments(v, <<>>) = FALSE
    BY AtStart DEF InArguments
  <2>3. Shown(walk, v, <<>>) = walk[<<v, FALSE>>]
    BY <2>2, AtStart, AtRoot DEF Shown, Through
  <2> QED BY <1>1, <1>2, <2>1, <2>3 DEF IsWalk
<1>4. \A p \in P : Withheld(v, p) => Shown(walk, v, p) = Marker /\ IsLeaf(Shown(walk, v, p))
  BY DEF Shown, Marker, Leaf, IsLeaf
<1>5. \A p \in P : ~Withheld(v, p) =>
        /\ Shaped(Shown(walk, v, p)) /\ Shown(walk, v, p).t = At(v, p).t
        /\ IsLeaf(At(v, p)) => Shown(walk, v, p) = At(v, p)
        /\ Steps(Shown(walk, v, p)) = Steps(At(v, p))
        /\ \A k \in Steps(At(v, p)) : Inside(Shown(walk, v, p))[k] = Shown(walk, v, Append(p, k))
  BY <1>1, ShownStep
<1>6. ASSUME NEW p \in P
      PROVE  /\ Len(p) <= MaxNesting
             /\ \A k \in Steps(E[p]) : k \in Step /\ Append(p, k) \in P /\ Inside(E[p])[k] = E[Append(p, k)]
  <2>1. Len(p) <= MaxNesting /\ E[p] = Shown(walk, v, p)
    BY <1>2, NamesAssumption
  <2>2. CASE Withheld(v, p)
    BY <1>4, <2>1, <2>2 DEF Steps
  <2>3. CASE ~Withheld(v, p)
    <3>1. Steps(E[p]) = Steps(At(v, p))
      BY <1>5, <2>1, <2>3
    <3>2. ASSUME NEW k \in Steps(At(v, p))
          PROVE  k \in Step /\ Append(p, k) \in P /\ Inside(E[p])[k] = E[Append(p, k)]
      <4>1. k \in Step /\ Append(p, k) \in Paths(v)
        BY <1>2
      <4>2. ~Covered(v, Append(p, k))
        BY <2>3, <4>1, CoveredStep
      <4>3. Append(p, k) \in P
        BY <4>1, <4>2
      <4>4. E[Append(p, k)] = Shown(walk, v, Append(p, k))
        BY <4>3
      <4> QED BY <1>5, <2>1, <2>3, <4>1, <4>3, <4>4
    <3> QED BY <2>1, <3>1, <3>2
  <2> QED BY <2>2, <2>3
<1>7. ASSUME NEW p \in Path, NEW k \in Step, Append(p, k) \in P PROVE p \in P /\ k \in Steps(E[p])
  <2>1. p \in Paths(v) /\ k \in Steps(At(v, p))
    BY <1>2, <1>7
  <2>2. ~Covered(v, p) /\ ~Withheld(v, p)
    BY <1>7, <2>1, CoveredStep
  <2> QED BY <1>5, <2>1, <2>2
<1>8. Unfolds(E, P, out)
  <2>1. P \in SUBSET Path /\ E[<<>>] = out
    BY <1>2, <1>3
  <2> HIDE DEF P, E, out
  <2> QED BY <1>3, <1>6, <1>7, <2>1 DEF Unfolds
<1>9. Paths(out) = P /\ \A p \in P : At(out, p) = Shown(walk, v, p)
  <2>1. \A p \in P : E[p] = Shown(walk, v, p)
    OBVIOUS
  <2> HIDE DEF P, E, out
  <2> QED BY <1>8, <2>1, Unfold
<1> HIDE DEF out, E
<1>10. WithheldExactly(v, out)
  <2> DEFINE withheld == {p \in Paths(v) : Withheld(v, p)}
  <2>1. \A p \in Paths(v) : Covered(v, p) <=> \E q \in withheld : Len(q) < Len(p) /\ Prefix(p, Len(q)) = q
    BY DEF Covered
  <2>2. Paths(out) = {p \in Paths(v) : ~(\E q \in withheld : Len(q) < Len(p) /\ Prefix(p, Len(q)) = q)}
    BY <1>9, <2>1
  <2>3. \A p \in Paths(out) : IF p \in withheld THEN At(out, p) = Marker
                              ELSE At(out, p).t = At(v, p).t /\ (IsLeaf(At(v, p)) => At(out, p) = At(v, p))
    BY <1>4, <1>5, <1>9
  <2> QED BY <2>2, <2>3 DEF WithheldExactly
<1>11. IsDocument(out)
  <2>1. Shaped(Marker)
    BY DEF Shaped, Marker, Leaf
  <2>2. \A p \in P : Len(p) = MaxNesting => IsLeaf(At(v, p))
    BY DEF IsDocument
  <2>3. \A p \in P : Shaped(At(out, p))
    BY <1>4, <1>5, <1>9, <2>1
  <2>4. \A p \in P : Len(p) = MaxNesting => IsLeaf(At(out, p))
    BY <1>4, <1>5, <1>9, <2>2 DEF IsLeaf
  <2> QED BY <1>9, <2>3, <2>4 DEF IsDocument
<1> QED BY <1>10, <1>11 DEF out

-----------------------------------------------------------------------------
(* The masking walk, the same way.                                         *)

\* What the mask makes of a value depends on what it makes of what is in it.
LEMMA MaskPartAgrees ==
  ASSUME NEW u, NEW f, NEW g, \A k \in Steps(u) : f[Inside(u)[k]] = g[Inside(u)[k]]
  PROVE  MaskPart(f, u) = MaskPart(g, u)
<1>1. CASE IsMap(u)
  <2>1. \A k \in DOMAIN u.f : f[u.f[k]] = g[u.f[k]]
    BY <1>1 DEF Steps, Inside, IsMap, IsLeaf
  <2> DEFINE Row(h) == [k \in DOMAIN u.f |-> IF SensitiveKey(k) /\ IsScalar(u.f[k]) THEN Marker
                                                  ELSE h[u.f[k]]]
  <2>2. Row(f) = Row(g)
    BY <2>1
  <2>3. MaskPart(f, u) = RedactPairEncoded(Map(Row(f))) /\ MaskPart(g, u) = RedactPairEncoded(Map(Row(g)))
    BY <1>1 DEF MaskPart
  <2> HIDE DEF Row
  <2> QED BY <2>2, <2>3
<1>2. CASE IsLeaf(u)
  BY <1>2 DEF MaskPart, IsLeaf, IsMap
<1>3. CASE IsList(u)
  <2>1. \A i \in DOMAIN u.e : f[u.e[i]] = g[u.e[i]]
    BY <1>3 DEF Steps, Inside, IsList
  <2>2. /\ MaskPart(f, u) = List([i \in DOMAIN u.e |-> f[u.e[i]]])
        /\ MaskPart(g, u) = List([i \in DOMAIN u.e |-> g[u.e[i]]])
    BY <1>3 DEF MaskPart, IsList
  <2> QED BY <2>1, <2>2
<1> QED BY <1>1, <1>2, <1>3 DEF IsList

Masks(f, S) == f = [u \in S |-> MaskPart(f, u)]

\* There is a mask of all parts of a document.
LEMMA MaskExists ==
  ASSUME NEW v, IsDocument(v) PROVE \E f : Masks(f, Parts(v))
<1>1. MaxNesting \in Nat
  BY NamesAssumption
<1> DEFINE D(n) == Deep(v, MaxNesting - n)
           S == {n \in 0..MaxNesting : \E f : Masks(f, D(n))}
<1>2. 0 \in S
  <2> DEFINE f == [u \in D(0) |-> ScrubSecrets(u)]
  <2>1. \A u \in D(0) : IsLeaf(u)
    BY <1>1, DeepParts
  <2>2. ASSUME NEW u \in D(0) PROVE MaskPart(f, u) = ScrubSecrets(u)
    <3>1. ~IsMap(u) /\ IsLeaf(u)
      BY <2>1 DEF IsLeaf, IsMap
    <3> QED BY <3>1 DEF MaskPart
  <2>3. Masks(f, D(0))
    BY <2>2 DEF Masks
  <2> HIDE DEF f, D
  <2> QED BY <1>1, <2>3
<1>3. ASSUME NEW n \in 0..(MaxNesting - 1), n \in S PROVE n + 1 \in S
  <2> DEFINE m == MaxNesting - (n + 1)
  <2>1. m \in 0..MaxNesting /\ m + 1 = MaxNesting - n /\ m < MaxNesting /\ n + 1 \in 0..MaxNesting
    BY <1>1
  <2>2. \A u \in D(n + 1) : \A k \in Steps(u) : Inside(u)[k] \in D(n)
    <3> HIDE DEF m
    <3>1. \A u \in Deep(v, m) : \A k \in Steps(u) : Inside(u)[k] \in Deep(v, m + 1)
      BY <2>1, DeepParts
    <3> QED BY <2>1, <3>1 DEF m
  <2>3. PICK g : Masks(g, D(n))
    BY <1>3
  <2>4. D(n) \in SUBSET D(n + 1)
    BY <1>1, <2>1, DocumentPaths DEF Deep
  <2> HIDE DEF D
  <2> DEFINE f == [u \in D(n + 1) |-> IF u \in D(n) THEN g[u] ELSE MaskPart(g, u)]
  <2>5. \A u \in D(n) : g[u] = MaskPart(g, u)
    BY <2>3 DEF Masks
  <2>6. \A u \in D(n + 1) : f[u] = MaskPart(g, u)
    BY <2>5
  <2>7. \A u \in D(n) : f[u] = g[u]
    BY <2>4
  <2>8. f = [u \in D(n + 1) |-> f[u]]
    OBVIOUS
  <2> HIDE DEF f
  <2>9. ASSUME NEW u \in D(n + 1) PROVE MaskPart(f, u) = MaskPart(g, u)
    <3>1. \A k \in Steps(u) : f[Inside(u)[k]] = g[Inside(u)[k]]
      BY <2>2, <2>7
    <3> QED BY <3>1, MaskPartAgrees
  <2>10. \A u \in D(n + 1) : f[u] = MaskPart(f, u)
    BY <2>6, <2>9
  <2>11. Masks(f, D(n + 1))
    BY <2>8, <2>10 DEF Masks
  <2> QED BY <2>1, <2>11
<1> HIDE DEF S
<1>4. \A n \in 0..MaxNesting : n \in S
  BY <1>1, <1>2, <1>3, UpToInduction
<1>5. MaxNesting \in 0..MaxNesting /\ MaxNesting - MaxNesting = 0
  BY <1>1
<1>6. PICK f : Masks(f, Deep(v, MaxNesting - MaxNesting))
  BY <1>4, <1>5 DEF S
<1>7. Deep(v, 0) = Parts(v)
  BY <1>1, <1>5, DeepParts
<1> QED BY <1>5, <1>6, <1>7

IsMask(f, v) ==
  /\ RedactValue(v) = f[v]
  /\ \A p \in Paths(v) : f[At(v, p)] = MaskPart(f, At(v, p))

\* RedactValue satisfies its equation.
LEMMA MaskOf ==
  ASSUME NEW v, IsDocument(v) PROVE \E f : IsMask(f, v)
<1> DEFINE mask[u \in Parts(v)] == MaskPart(mask, u)
<1>1. Masks(mask, Parts(v))
  <2>1. mask = CHOOSE f : Masks(f, Parts(v))
    BY DEF Masks
  <2>2. \E f : Masks(f, Parts(v))
    BY MaskExists
  <2> HIDE DEF mask
  <2> QED BY <2>1, <2>2
<1>2. RedactValue(v) = mask[v]
  BY DEF RedactValue
<1> HIDE DEF mask
<1>3. \A u \in Parts(v) : mask[u] = MaskPart(mask, u)
  BY <1>1 DEF Masks
<1>4. \A p \in Paths(v) : At(v, p) \in Parts(v)
  BY DEF Parts
<1>5. IsMask(mask, v)
  BY <1>2, <1>3, <1>4 DEF IsMask
<1> QED BY <1>5

\* A pair is headed by a sensitive name, as the log shows it.
SecretPair(u) ==
  \E n \in {"name", "key"} \cap DOMAIN u.f :
    IsString(u.f[n]) /\ ScrubSecrets(u.f[n]).v \in SensitiveNames

\* What the mask makes of a value keeps its kind.
LEMMA MaskPartKeeps ==
  ASSUME NEW u, Shaped(u), NEW f,
         \A k \in Steps(u) : f[Inside(u)[k]].t = Inside(u)[k].t
                             /\ (IsLeaf(Inside(u)[k]) => f[Inside(u)[k]] = ScrubSecrets(Inside(u)[k]))
  PROVE  LET m == MaskPart(f, u)
         IN  /\ m.t = u.t /\ (IsLeaf(u) => m = ScrubSecrets(u)) /\ Steps(m) = Steps(u)
             /\ IsMap(u) => \A k \in DOMAIN u.f :
                  m.f[k] = IF IsLeaf(u.f[k]) /\ (k \in SensitiveNames \/ (k \in {"value", "val"} /\ SecretPair(u)))
                           THEN Marker ELSE f[u.f[k]]
             /\ IsList(u) => \A i \in DOMAIN u.e : m.e[i] = f[u.e[i]]
<1> DEFINE m == MaskPart(f, u)
<1>1. CASE IsMap(u)
  <2>1. ~IsLeaf(u) /\ ~IsList(u) /\ u.t = "map" /\ Steps(u) = DOMAIN u.f /\ Inside(u) = u.f
    BY <1>1 DEF IsMap, IsLeaf, IsList, Steps, Inside
  <2> DEFINE E == [k \in DOMAIN u.f |-> IF SensitiveKey(k) /\ IsScalar(u.f[k]) THEN Marker ELSE f[u.f[k]]]
  <2>2. m = RedactPairEncoded(Map(E))
    BY <1>1 DEF MaskPart
  <2>3. DOMAIN E = DOMAIN u.f
    OBVIOUS
  <2>4. \A k \in DOMAIN u.f : IsLeaf(E[k]) <=> IsLeaf(u.f[k])
    <3>1. \A k \in DOMAIN u.f : f[u.f[k]].t = u.f[k].t
      BY <2>1
    <3>2. \A k \in DOMAIN u.f : E[k] = f[u.f[k]] \/ (E[k] = Marker /\ IsLeaf(u.f[k]))
      BY DEF IsScalar
    <3> HIDE DEF E
    <3> QED BY <3>1, <3>2 DEF IsLeaf, Marker, Leaf
  <2>5. \A k \in DOMAIN u.f :
          E[k] = IF k \in SensitiveNames /\ IsLeaf(u.f[k]) THEN Marker ELSE f[u.f[k]]
    BY DEF SensitiveKey, IsScalar
  <2>6. \A n \in {"name", "key"} \cap DOMAIN u.f :
          (IsString(E[n]) /\ SensitiveKey(E[n].v)) <=> (IsString(u.f[n]) /\ ScrubSecrets(u.f[n]).v \in SensitiveNames)
    <3> TAKE n \in {"name", "key"} \cap DOMAIN u.f
    <3>1. n \notin SensitiveNames
      BY NamesAssumption
    <3>2. E[n] = f[u.f[n]]
      BY <2>5, <3>1
    <3>3. CASE IsLeaf(u.f[n])
      <4>1. E[n] = ScrubSecrets(u.f[n])
        BY <2>1, <3>2, <3>3
      <4>2. IsString(ScrubSecrets(u.f[n])) <=> IsString(u.f[n])
        BY DEF ScrubSecrets, IsString, Leaf, IsLeaf
      <4> HIDE DEF E
      <4> QED BY <4>1, <4>2 DEF SensitiveKey
    <3>4. CASE ~IsLeaf(u.f[n])
      <4>1. ~IsLeaf(E[n])
        BY <2>4, <3>4
      <4> QED BY <3>4, <4>1 DEF IsString
    <3> QED BY <3>3, <3>4
  <2> HIDE DEF E, m
  <2>7. Map(E).f = E /\ IsMap(Map(E)) /\ Map(E).t = "map"
    BY DEF Map, IsMap
  <2>8. (\E n \in {"name", "key"} : Has(Map(E), n) /\ IsString(Map(E).f[n]) /\ SensitiveKey(Map(E).f[n].v))
          <=> SecretPair(u)
    BY <2>3, <2>6, <2>7 DEF Has, SecretPair
  <2>9. /\ m.t = "map" /\ DOMAIN m.f = DOMAIN u.f
        /\ \A k \in DOMAIN u.f : m.f[k] = IF SecretPair(u) /\ k \in {"value", "val"} /\ IsLeaf(E[k])
                                          THEN Marker ELSE E[k]
    <3>1. CASE SecretPair(u)
      <4> DEFINE g == [k \in DOMAIN E |-> IF k \in {"value", "val"} /\ IsScalar(E[k]) THEN Marker ELSE E[k]]
      <4>1. m = Map(g)
        BY <2>2, <2>7, <2>8, <3>1 DEF RedactPairEncoded
      <4>2. DOMAIN g = DOMAIN u.f /\ \A k \in DOMAIN u.f :
              g[k] = IF k \in {"value", "val"} /\ IsLeaf(E[k]) THEN Marker ELSE E[k]
        BY <2>3 DEF IsScalar
      <4> HIDE DEF g
      <4>3. m.f = g /\ m.t = "map"
        BY <4>1 DEF Map
      <4> QED BY <3>1, <4>2, <4>3
    <3>2. CASE ~SecretPair(u)
      <4>1. m = Map(E)
        BY <2>2, <2>8, <3>2 DEF RedactPairEncoded
      <4> QED BY <2>3, <2>7, <3>2, <4>1
    <3> QED BY <3>1, <3>2
  <2>10. \A k \in DOMAIN u.f :
           m.f[k] = IF IsLeaf(u.f[k]) /\ (k \in SensitiveNames \/ (k \in {"value", "val"} /\ SecretPair(u)))
                    THEN Marker ELSE f[u.f[k]]
    BY <2>4, <2>5, <2>9
  <2>11. Steps(m) = Steps(u)
    BY <2>1, <2>9 DEF Steps, Inside, IsMap, IsLeaf
  <2> QED BY <2>1, <2>9, <2>10, <2>11 DEF m
<1>2. CASE IsLeaf(u)
  <2>1. m = ScrubSecrets(u) /\ ~IsMap(u) /\ ~IsList(u)
    BY <1>2 DEF MaskPart, IsLeaf, IsMap, IsList
  <2>2. m.t = u.t
    BY <1>2, <2>1 DEF ScrubSecrets, Leaf, IsLeaf
  <2>3. Steps(m) = {} /\ Steps(u) = {}
    BY <1>2, <2>2 DEF Steps, IsLeaf
  <2> HIDE DEF m
  <2> QED BY <2>1, <2>2, <2>3 DEF m
<1>3. CASE IsList(u)
  <2>1. ~IsLeaf(u) /\ ~IsMap(u) /\ u.t = "list"
    BY <1>3 DEF IsList, IsLeaf, IsMap, Shaped
  <2>2. m = List([i \in DOMAIN u.e |-> f[u.e[i]]])
    BY <2>1 DEF MaskPart
  <2> HIDE DEF m
  <2>3. m.t = "list" /\ m.e = [i \in DOMAIN u.e |-> f[u.e[i]]]
    BY <2>2 DEF List
  <2>4. Steps(m) = Steps(u)
    BY <2>1, <2>3 DEF Steps, Inside, IsLeaf, IsMap
  <2> QED BY <2>1, <2>3, <2>4 DEF m
<1> QED BY <1>1, <1>2, <1>3 DEF IsList

\* The mask of a value is of its kind.
LEMMA MaskPartKind ==
  ASSUME NEW u, Shaped(u), NEW f
  PROVE  MaskPart(f, u).t = u.t /\ (IsLeaf(u) => MaskPart(f, u) = ScrubSecrets(u))
<1>1. CASE IsMap(u)
  <2>1. \A m : IsMap(m) => IsMap(RedactPairEncoded(m))
    BY DEF RedactPairEncoded, IsMap, Map
  <2>2. \A g : IsMap(Map(g))
    BY DEF IsMap, Map
  <2>3. IsMap(MaskPart(f, u))
    BY <1>1, <2>1, <2>2 DEF MaskPart
  <2> QED BY <1>1, <2>3 DEF IsMap, IsLeaf
<1>2. CASE IsLeaf(u)
  BY <1>2 DEF MaskPart, IsLeaf, IsMap, ScrubSecrets, Leaf
<1>3. CASE IsList(u)
  BY <1>3 DEF MaskPart, IsList, IsLeaf, IsMap, List, Shaped
<1> QED BY <1>1, <1>2, <1>3 DEF IsList

\* Whether a place is masked can be seen at the value that it is in.
LEMMA StepMasks ==
  ASSUME NEW v, NEW p \in Path, NEW k \in Step
  PROVE  LET u == At(v, p)
         IN  Masked(v, Append(p, k)) <=>
               /\ IsMap(u) /\ IsLeaf(At(v, Append(p, k)))
               /\ k \in SensitiveNames \/ (k \in {"value", "val"} /\ SecretPair(u))
<1> DEFINE q == Append(p, k)
<1>1. Len(q) = Len(p) + 1 /\ Len(p) \in Nat /\ q[Len(q)] = k /\ Len(q) - 1 = Len(p) /\ Len(q) > 0
  BY AppendPath
<1>2. Prefix(q, Len(p)) = p
  BY PrefixOfAppend
<1> HIDE DEF q
<1>3. Masked(v, q) <=> /\ IsLeaf(At(v, q)) /\ IsMap(At(v, p))
                       /\ k \in SensitiveNames \/ (k \in {"value", "val"} /\ SecretPair(At(v, p)))
  BY <1>1, <1>2 DEF Masked, SecretPair
<1> QED BY <1>3 DEF q

\* record.go masks exactly what Masked says, of any document.
LEMMA MasksExactly ==
  ASSUME NEW v, IsDocument(v) PROVE MaskedExactly(v, RedactValue(v))
<1>1. PICK mask : IsMask(mask, v)
  BY MaskOf
<1> DEFINE out == RedactValue(v)
           P == Paths(v)
           Line(p) == IF Masked(v, p) THEN Marker ELSE mask[At(v, p)]
           E == [p \in P |-> Line(p)]
<1>2. /\ <<>> \in P /\ P \in SUBSET Path
      /\ \A p \in P : Shaped(At(v, p)) /\ Len(p) \in 0..MaxNesting
      /\ \A p \in P : \A k \in Steps(At(v, p)) :
           k \in Step /\ Append(p, k) \in P /\ Len(p) + 1 <= MaxNesting
      /\ \A p \in Path : \A k \in Step :
           Append(p, k) \in P => p \in P /\ k \in Steps(At(v, p))
  BY DocumentPaths
<1>3. \A p \in P : mask[At(v, p)] = MaskPart(mask, At(v, p))
  BY <1>1 DEF IsMask
<1>4. \A p \in P : /\ mask[At(v, p)].t = At(v, p).t
                   /\ IsLeaf(At(v, p)) => mask[At(v, p)] = ScrubSecrets(At(v, p))
  BY <1>2, <1>3, MaskPartKind
<1>5. \A p \in P : \A k \in Steps(At(v, p)) : At(v, Append(p, k)) = Inside(At(v, p))[k]
  BY <1>2, AtStep
<1>6. Line(<<>>) = out
  <2>1. ~Masked(v, <<>>)
    BY AtRoot DEF Masked
  <2> QED BY <1>1, <2>1, AtRoot DEF IsMask
<1>7. ASSUME NEW p \in P
      PROVE  /\ Steps(E[p]) = Steps(At(v, p))
             /\ \A k \in Steps(At(v, p)) : Inside(E[p])[k] = E[Append(p, k)]
  <2> DEFINE u == At(v, p)
             m == mask[u]
  <2>1. E[p] = Line(p)
    OBVIOUS
  <2>2. p \in Path /\ Shaped(u)
    BY <1>2
  <2>3. \A k \in Steps(u) : /\ mask[Inside(u)[k]].t = Inside(u)[k].t
                            /\ IsLeaf(Inside(u)[k]) => mask[Inside(u)[k]] = ScrubSecrets(Inside(u)[k])
    BY <1>2, <1>4, <1>5
  <2>4. /\ m.t = u.t /\ Steps(m) = Steps(u)
        /\ IsMap(u) => \A k \in DOMAIN u.f :
             m.f[k] = IF IsLeaf(u.f[k]) /\ (k \in SensitiveNames \/ (k \in {"value", "val"} /\ SecretPair(u)))
                      THEN Marker ELSE mask[u.f[k]]
        /\ IsList(u) => \A i \in DOMAIN u.e : m.e[i] = mask[u.e[i]]
    <3>1. m = MaskPart(mask, u)
      BY <1>3
    <3> HIDE DEF m, u
    <3> QED BY <2>2, <2>3, <3>1, MaskPartKeeps
  <2>5. CASE Masked(v, p)
    <3>1. IsLeaf(u) /\ IsLeaf(Marker)
      BY <2>5 DEF Masked, Marker, Leaf, IsLeaf
    <3>2. Steps(u) = {} /\ Steps(E[p]) = {}
      BY <2>1, <2>5, <3>1 DEF Steps
    <3> QED BY <3>2
  <2>6. CASE ~Masked(v, p)
    <3>1. E[p] = m
      BY <2>1, <2>6
    <3>2. ASSUME NEW k \in Steps(u) PROVE Inside(m)[k] = Line(Append(p, k))
      <4>1. k \in Step /\ At(v, Append(p, k)) = Inside(u)[k] /\ ~IsLeaf(u)
        BY <1>2, <1>5, <3>2 DEF Steps
      <4>2. Masked(v, Append(p, k)) <=>
              /\ IsMap(u) /\ IsLeaf(Inside(u)[k])
              /\ k \in SensitiveNames \/ (k \in {"value", "val"} /\ SecretPair(u))
        BY <2>2, <4>1, StepMasks
      <4> HIDE DEF m, u
      <4>3. CASE IsMap(u)
        <5>1. Inside(u) = u.f /\ Inside(m) = m.f /\ k \in DOMAIN u.f
          BY <2>4, <3>2, <4>1, <4>3 DEF Inside, IsMap, Steps
        <5> QED BY <2>4, <4>1, <4>2, <4>3, <5>1
      <4>4. CASE ~IsMap(u)
        <5>1. IsList(u) /\ Inside(u) = u.e /\ Inside(m) = m.e /\ k \in DOMAIN u.e
          BY <2>4, <3>2, <4>1, <4>4 DEF Inside, IsMap, Steps, IsList
        <5> QED BY <2>4, <4>1, <4>2, <4>4, <5>1
      <4> QED BY <4>3, <4>4
    <3>3. \A k \in Steps(u) : E[Append(p, k)] = Line(Append(p, k))
      BY <1>2
    <3> HIDE DEF E, Line
    <3> QED BY <2>4, <3>1, <3>2, <3>3
  <2> QED BY <2>5, <2>6
<1>8. Unfolds(E, P, out)
  <2>1. E[<<>>] = out
    BY <1>2, <1>6
  <2>2. \A p \in P : Len(p) <= MaxNesting
    BY <1>2, NamesAssumption
  <2> HIDE DEF P, E, out
  <2> QED BY <1>2, <1>7, <2>1, <2>2 DEF Unfolds
<1>9. Paths(out) = P /\ \A p \in P : At(out, p) = Line(p)
  <2>1. \A p \in P : E[p] = Line(p)
    OBVIOUS
  <2> HIDE DEF P, E, out, Line
  <2> QED BY <1>8, <2>1, Unfold
<1> HIDE DEF out, E
<1>10. \A p \in P : IF Masked(v, p) THEN At(out, p) = Marker
                    ELSE /\ At(out, p).t = At(v, p).t
                         /\ IsLeaf(At(v, p)) =>
                              At(out, p) = IF IsString(At(v, p)) /\ At(v, p).v \in SecretShapes
                                           THEN Leaf("scrubbed") ELSE At(v, p)
  BY <1>4, <1>9 DEF ScrubSecrets
<1> QED BY <1>9, <1>10 DEF MaskedExactly, out

-----------------------------------------------------------------------------
(* What get_resource shows of an object is a document again.               *)

\* A path of a part, seen from the whole.
LEMMA FirstStep ==
  ASSUME NEW p \in Path, NEW k \in Step
  PROVE  /\ <<k>> \o p \in Path /\ Len(<<k>> \o p) = Len(p) + 1
         /\ <<k>> \o <<>> = Append(<<>>, k)
         /\ \A j \in Step : <<k>> \o Append(p, j) = Append(<<k>> \o p, j)
<1>1. <<k>> \in Seq(Step) /\ Len(<<k>>) = 1 /\ p \in Seq(Step) /\ Len(p) \in Nat
  BY LastStep DEF Path
<1>2. <<k>> \o p \in Seq(Step) /\ Len(<<k>> \o p) = 1 + Len(p)
  BY <1>1, ConcatProperties
<1>3. <<k>> \o <<>> = Append(<<>>, k)
  <2>1. <<k>> \o <<>> = <<k>>
    BY <1>1, ConcatEmptySeq
  <2>2. Append(<<>>, k) = <<>> \o <<k>> /\ <<>> \o <<k>> = <<k>>
    BY <1>1, EmptySeq, AppendIsConcat, ConcatEmptySeq
  <2> QED BY <2>1, <2>2
<1>4. ASSUME NEW j \in Step PROVE <<k>> \o Append(p, j) = Append(<<k>> \o p, j)
  <2>1. <<j>> \in Seq(Step)
    OBVIOUS
  <2>2. Append(p, j) = p \o <<j>>
    BY <1>1, AppendIsConcat
  <2>3. Append(<<k>> \o p, j) = (<<k>> \o p) \o <<j>>
    BY <1>2, AppendIsConcat
  <2>4. (<<k>> \o p) \o <<j>> = <<k>> \o (p \o <<j>>)
    BY <1>1, <2>1, ConcatAssociative
  <2> QED BY <2>2, <2>3, <2>4
<1> QED BY <1>1, <1>2, <1>3, <1>4 DEF Path

\* Nested one less deep than any document may be.
Shallow(v) ==
  \A p \in Paths(v) : Len(p) < MaxNesting /\ (Len(p) = MaxNesting - 1 => IsLeaf(At(v, p)))

\* What is in a document is a document, one level less deep.
LEMMA PartDocument ==
  ASSUME NEW v, IsDocument(v), NEW k \in Steps(v)
  PROVE  IsDocument(Inside(v)[k]) /\ Shallow(Inside(v)[k])
<1> DEFINE part == Inside(v)[k]
           P == {p \in Path : <<k>> \o p \in Paths(v)}
           E == [p \in P |-> At(v, <<k>> \o p)]
<1>1. /\ <<>> \in Paths(v) /\ Paths(v) \in SUBSET Path
      /\ \A p \in Paths(v) : Shaped(At(v, p)) /\ Len(p) \in 0..MaxNesting
      /\ \A p \in Paths(v) : \A j \in Steps(At(v, p)) :
           j \in Step /\ Append(p, j) \in Paths(v) /\ Len(p) + 1 <= MaxNesting
      /\ \A p \in Path : \A j \in Step :
           Append(p, j) \in Paths(v) => p \in Paths(v) /\ j \in Steps(At(v, p))
  BY DocumentPaths
<1>2. k \in Step /\ Append(<<>>, k) \in Paths(v)
  BY <1>1, AtRoot
<1>3. \A p \in Path : /\ <<k>> \o p \in Path /\ Len(<<k>> \o p) = Len(p) + 1 /\ Len(p) \in Nat
                      /\ \A j \in Step : <<k>> \o Append(p, j) = Append(<<k>> \o p, j)
                      /\ At(v, <<k>> \o p) = At(part, p)
  <2> TAKE p \in Path
  <2>1. <<k>> \o p \in Path /\ Len(<<k>> \o p) = Len(p) + 1
    BY <1>2, FirstStep
  <2>2. \A j \in Step : <<k>> \o Append(p, j) = Append(<<k>> \o p, j)
    BY <1>2, FirstStep
  <2>3. At(v, <<k>> \o p) = At(part, p)
    BY <1>2, AtFirst
  <2>4. Len(p) \in Nat
    BY LastStep
  <2> QED BY <2>1, <2>2, <2>3, <2>4
<1>4. <<>> \in P /\ At(v, <<k>> \o <<>>) = part
  <2>1. <<>> \in Path /\ <<k>> \o <<>> = Append(<<>>, k)
    BY <1>2, AtRoot, FirstStep
  <2>2. At(part, <<>>) = part
    BY AtRoot
  <2> QED BY <1>2, <1>3, <2>1, <2>2
<1>5. \A p \in P : Len(p) + 1 <= MaxNesting /\ Len(p) \in Nat
  <2> TAKE p \in P
  <2>1. Len(<<k>> \o p) \in 0..MaxNesting /\ Len(<<k>> \o p) = Len(p) + 1 /\ Len(p) \in Nat
    BY <1>1, <1>3
  <2> QED BY <2>1, NamesAssumption
<1>6. ASSUME NEW p \in P, NEW j \in Steps(E[p])
      PROVE  j \in Step /\ Append(p, j) \in P /\ Inside(E[p])[j] = E[Append(p, j)]
  <2>1. <<k>> \o p \in Paths(v) /\ E[p] = At(v, <<k>> \o p)
    OBVIOUS
  <2>2. j \in Step /\ Append(<<k>> \o p, j) \in Paths(v)
    BY <1>1, <1>6, <2>1
  <2>3. Append(p, j) \in P
    BY <1>3, <2>2, AppendPath
  <2>4. E[Append(p, j)] = At(v, Append(<<k>> \o p, j))
    BY <1>3, <2>2, <2>3
  <2>5. At(v, Append(<<k>> \o p, j)) = Inside(E[p])[j]
    BY <1>3, <2>1, <2>2, AtStep
  <2> QED BY <2>2, <2>3, <2>4, <2>5
<1>7. ASSUME NEW p \in Path, NEW j \in Step, Append(p, j) \in P PROVE p \in P /\ j \in Steps(E[p])
  <2>1. Append(<<k>> \o p, j) \in Paths(v) /\ <<k>> \o p \in Path
    BY <1>3, <1>7
  <2>2. <<k>> \o p \in Paths(v) /\ j \in Steps(At(v, <<k>> \o p))
    BY <1>1, <2>1
  <2> QED BY <2>2
<1>8. Unfolds(E, P, part)
  <2>1. P \in SUBSET Path /\ E[<<>>] = part
    BY <1>4
  <2>2. \A p \in P : Len(p) <= MaxNesting
    BY <1>5, NamesAssumption
  <2> HIDE DEF P, E, part
  <2> QED BY <1>4, <1>6, <1>7, <2>1, <2>2 DEF Unfolds
<1>9. Paths(part) = P /\ \A p \in P : At(part, p) = At(v, <<k>> \o p)
  <2>1. \A p \in P : E[p] = At(v, <<k>> \o p)
    OBVIOUS
  <2> HIDE DEF P, E, part
  <2> QED BY <1>8, <2>1, Unfold
<1>10. \A p \in P : Shaped(At(part, p)) /\ (Len(p) = MaxNesting - 1 => IsLeaf(At(part, p)))
  <2> TAKE p \in P
  <2>1. <<k>> \o p \in Paths(v) /\ p \in Path
    OBVIOUS
  <2>2. Len(p) = MaxNesting - 1 => Len(<<k>> \o p) = MaxNesting
    BY <1>3, <2>1, NamesAssumption
  <2>3. Len(<<k>> \o p) = MaxNesting => IsLeaf(At(v, <<k>> \o p))
    BY <2>1 DEF IsDocument
  <2> QED BY <1>1, <1>9, <2>1, <2>2, <2>3
<1> HIDE DEF part, P, E
<1>11. Shallow(part)
  <2>1. \A p \in P : Len(p) < MaxNesting
    BY <1>5, NamesAssumption
  <2> QED BY <1>9, <1>10, <2>1 DEF Shallow
<1>12. IsDocument(part)
  <2>1. \A p \in P : Len(p) # MaxNesting
    BY <1>5, NamesAssumption
  <2> QED BY <1>9, <1>10, <2>1 DEF IsDocument
<1> QED BY <1>11, <1>12 DEF part

\* A map of such documents is a document.
LEMMA MapDocument ==
  ASSUME NEW f, f = [k \in DOMAIN f |-> f[k]], DOMAIN f \in SUBSET STRING, MaxNesting > 0,
         \A k \in DOMAIN f : IsDocument(f[k]) /\ Shallow(f[k])
  PROVE  IsDocument(Map(f))
<1> DEFINE m == Map(f)
           P == {<<>>} \cup UNION {{<<k>> \o p : p \in Paths(f[k])} : k \in DOMAIN f}
           E == [p \in P |-> At(m, p)]
<1>1. m.t = "map" /\ m.f = f /\ IsMap(m) /\ ~IsLeaf(m) /\ Steps(m) = DOMAIN f /\ Inside(m) = f
  BY DEF Map, IsMap, IsLeaf, Steps, Inside
<1>2. \A q : q \in P <=> q = <<>> \/ \E k \in DOMAIN f : \E p \in Paths(f[k]) : q = <<k>> \o p
  <2> DEFINE Under(k) == {<<k>> \o p : p \in Paths(f[k])}
  <2>1. ASSUME NEW k \in DOMAIN f, NEW q PROVE q \in Under(k) <=> \E p \in Paths(f[k]) : q = <<k>> \o p
    OBVIOUS
  <2>2. P = {<<>>} \cup UNION {Under(k) : k \in DOMAIN f}
    OBVIOUS
  <2>3. \A q : q \in P <=> q = <<>> \/ \E k \in DOMAIN f : q \in Under(k)
    <3> HIDE DEF P, Under
    <3> QED BY <2>2
  <2> HIDE DEF P, Under
  <2> TAKE q
  <2>4. (\E k \in DOMAIN f : q \in Under(k)) <=> \E k \in DOMAIN f : \E p \in Paths(f[k]) : q = <<k>> \o p
    BY <2>1
  <2> QED BY <2>3, <2>4
<1>3. \A k \in DOMAIN f :
        /\ k \in Step /\ <<>> \in Paths(f[k]) /\ Paths(f[k]) \in SUBSET Path
        /\ \A p \in Paths(f[k]) : Shaped(At(f[k], p))
        /\ \A p \in Paths(f[k]) : \A j \in Steps(At(f[k], p)) : j \in Step /\ Append(p, j) \in Paths(f[k])
        /\ \A p \in Path : \A j \in Step :
             Append(p, j) \in Paths(f[k]) => p \in Paths(f[k]) /\ j \in Steps(At(f[k], p))
  BY DocumentPaths DEF Step
<1>4. \A k \in DOMAIN f : \A p \in Path :
        /\ <<k>> \o p \in Path /\ Len(<<k>> \o p) = Len(p) + 1 /\ Len(p) \in Nat
        /\ <<k>> \o <<>> = Append(<<>>, k)
        /\ \A j \in Step : <<k>> \o Append(p, j) = Append(<<k>> \o p, j)
        /\ At(m, <<k>> \o p) = At(f[k], p)
  <2> TAKE k \in DOMAIN f
  <2> TAKE p \in Path
  <2>1. k \in Step
    BY <1>3
  <2>2. <<k>> \o p \in Path /\ Len(<<k>> \o p) = Len(p) + 1 /\ <<k>> \o <<>> = Append(<<>>, k)
    BY <2>1, FirstStep
  <2>3. \A j \in Step : <<k>> \o Append(p, j) = Append(<<k>> \o p, j)
    BY <2>1, FirstStep
  <2>4. At(m, <<k>> \o p) = At(f[k], p)
    BY <1>1, <2>1, AtFirst
  <2>5. Len(p) \in Nat
    BY LastStep
  <2> QED BY <2>2, <2>3, <2>4, <2>5
<1>5. <<>> \in Path /\ Len(<<>>) = 0 /\ At(m, <<>>) = m
  BY AtRoot
<1> HIDE DEF m, P
<1>6. P \in SUBSET Path /\ <<>> \in P
  <2>1. <<>> \in P
    BY <1>2
  <2>2. ASSUME NEW q \in P PROVE q \in Path
    <3>1. CASE q = <<>>
      BY <1>5, <3>1
    <3>2. CASE q # <<>>
      <4> PICK k \in DOMAIN f : \E p \in Paths(f[k]) : q = <<k>> \o p
        BY <1>2, <3>2
      <4> PICK p \in Paths(f[k]) : q = <<k>> \o p
        OBVIOUS
      <4>1. p \in Path
        BY <1>3
      <4> QED BY <1>4, <4>1
    <3> QED BY <3>1, <3>2
  <2> QED BY <2>1, <2>2
<1>7. ASSUME NEW q \in P
      PROVE  /\ Len(q) <= MaxNesting /\ Shaped(At(m, q))
             /\ Len(q) = MaxNesting => IsLeaf(At(m, q))
             /\ \A j \in Steps(At(m, q)) : j \in Step /\ Append(q, j) \in P
  <2>1. CASE q = <<>>
    <3>1. Shaped(m)
      BY <1>1 DEF Shaped, m
    <3>2. \A j \in Steps(m) : j \in Step /\ Append(<<>>, j) \in P
      <4> TAKE j \in Steps(m)
      <4>1. j \in DOMAIN f /\ j \in Step /\ <<>> \in Paths(f[j]) /\ Append(<<>>, j) = <<j>> \o <<>>
        BY <1>1, <1>3, <1>4, <1>5
      <4> QED BY <1>2, <4>1
    <3> QED BY <1>5, <2>1, <3>1, <3>2, NamesAssumption
  <2>2. CASE q # <<>>
    <3> PICK k \in DOMAIN f : \E p \in Paths(f[k]) : q = <<k>> \o p
      BY <1>2, <2>2
    <3>1. PICK p \in Paths(f[k]) : q = <<k>> \o p
      OBVIOUS
    <3>2. p \in Path /\ Len(q) = Len(p) + 1 /\ Len(p) \in Nat /\ At(m, q) = At(f[k], p) /\ Shaped(At(m, q))
      BY <1>3, <1>4, <3>1
    <3>3. Len(p) < MaxNesting /\ (Len(p) = MaxNesting - 1 => IsLeaf(At(f[k], p)))
      BY DEF Shallow
    <3>4. Len(q) <= MaxNesting /\ (Len(q) = MaxNesting => Len(p) = MaxNesting - 1)
      BY <3>2, <3>3, NamesAssumption
    <3>5. \A j \in Steps(At(m, q)) : j \in Step /\ Append(q, j) \in P
      <4> TAKE j \in Steps(At(m, q))
      <4>1. j \in Step /\ Append(p, j) \in Paths(f[k])
        BY <1>3, <3>2
      <4>2. Append(q, j) = <<k>> \o Append(p, j)
        BY <1>4, <3>1, <3>2, <4>1
      <4> QED BY <1>2, <4>1, <4>2
    <3> QED BY <3>2, <3>3, <3>4, <3>5
  <2> QED BY <2>1, <2>2
<1>8. ASSUME NEW q \in Path, NEW j \in Step, Append(q, j) \in P PROVE q \in P /\ j \in Steps(At(m, q))
  <2>1. Append(q, j) # <<>>
    BY AppendProperties DEF Path
  <2> PICK k \in DOMAIN f : \E p \in Paths(f[k]) : Append(q, j) = <<k>> \o p
    BY <1>2, <1>8, <2>1
  <2>2. PICK p \in Paths(f[k]) : Append(q, j) = <<k>> \o p
    OBVIOUS
  <2>3. p \in Path /\ k \in Step
    BY <1>3
  <2>4. CASE p = <<>>
    <3>1. Append(q, j) = Append(<<>>, k)
      BY <1>4, <1>5, <2>2, <2>4
    <3>2. q = <<>> /\ j = k
      <4> DEFINE e == <<>>
      <4>1. e \in Path /\ Append(q, j) = Append(e, k)
        BY <1>5, <3>1
      <4> HIDE DEF e
      <4>2. q = e /\ j = k
        BY <2>3, <4>1, SameAppend
      <4> QED BY <4>2 DEF e
    <3> QED BY <1>1, <1>5, <1>6, <3>2
  <2>5. CASE p # <<>>
    <3>1. PICK r \in Path, i \in Step : p = Append(r, i)
      BY <2>3, <2>5, LastStep
    <3>2. r \in Paths(f[k]) /\ i \in Steps(At(f[k], r))
      BY <1>3, <3>1
    <3>3. Append(q, j) = Append(<<k>> \o r, i) /\ <<k>> \o r \in Path
      BY <1>4, <2>2, <3>1
    <3>4. q = <<k>> \o r /\ j = i
      <4> DEFINE longer == <<k>> \o r
      <4>1. longer \in Path /\ Append(q, j) = Append(longer, i)
        BY <3>3
      <4> HIDE DEF longer
      <4>2. q = longer /\ j = i
        BY <4>1, AppendInjective DEF Path
      <4> QED BY <4>2 DEF longer
    <3>5. q \in P
      BY <1>2, <3>2, <3>4
    <3> QED BY <1>4, <3>2, <3>4, <3>5
  <2> QED BY <2>4, <2>5
<1>9. \A q \in P : \A j \in Steps(At(m, q)) : Inside(At(m, q))[j] = At(m, Append(q, j))
  BY <1>6, <1>7, AtStep
<1>10. Unfolds(E, P, m)
  <2>1. \A q \in P : E[q] = At(m, q)
    OBVIOUS
  <2> HIDE DEF E
  <2> QED BY <1>5, <1>6, <1>7, <1>8, <1>9, <2>1 DEF Unfolds
<1>11. Paths(m) = P
  <2> HIDE DEF E
  <2> QED BY <1>10, Unfold
<1>12. IsDocument(m)
  BY <1>7, <1>11 DEF IsDocument
<1> QED BY <1>12 DEF m

\* The view of an object: its kind, and its spec with exactly what Withheld says
\* withheld; a document, which the log can mask.
LEMMA ViewDocument ==
  ASSUME NEW o, IsMap(o), IsDocument(o)
  PROVE  /\ DOMAIN ResourceView(o).f = {"kind", "spec"} \cap DOMAIN o.f
         /\ "spec" \in DOMAIN o.f => WithheldExactly(o.f["spec"], ResourceView(o).f["spec"])
         /\ IsDocument(ResourceView(o))
<1> DEFINE f == [k \in {"kind", "spec"} \cap DOMAIN o.f |->
                   IF k = "spec" THEN RedactEmbeddedSecrets(o.f[k]) ELSE o.f[k]]
<1>1. ResourceView(o) = Map(f) /\ Map(f).f = f
  BY DEF ResourceView, Map
<1>2. Steps(o) = DOMAIN o.f /\ Inside(o) = o.f
  BY DEF Steps, Inside, IsMap, IsLeaf
<1>3. \A k \in DOMAIN o.f : IsDocument(o.f[k]) /\ Shallow(o.f[k])
  BY <1>2, PartDocument
<1>4. ASSUME NEW k \in DOMAIN o.f
      PROVE  LET out == RedactEmbeddedSecrets(o.f[k])
             IN  WithheldExactly(o.f[k], out) /\ IsDocument(out) /\ Shallow(out)
  <2> DEFINE out == RedactEmbeddedSecrets(o.f[k])
  <2>1. WithheldExactly(o.f[k], out) /\ IsDocument(out)
    BY <1>3, RedactsExactly
  <2>2. /\ Paths(out) \in SUBSET Paths(o.f[k])
        /\ \A p \in Paths(out) : At(out, p) = Marker \/ At(out, p).t = At(o.f[k], p).t
    <3> HIDE DEF out
    <3> QED BY <2>1 DEF WithheldExactly
  <2>3. Shallow(out)
    <3> HIDE DEF out
    <3>1. \A p \in Paths(out) : IsLeaf(At(o.f[k], p)) => IsLeaf(At(out, p))
      BY <2>2 DEF IsLeaf, Marker, Leaf
    <3> QED BY <1>3, <2>2, <3>1 DEF Shallow
  <2> QED BY <2>1, <2>3
<1>5. MaxNesting > 0
  <2>1. ~IsLeaf(o) /\ <<>> \in Paths(o) /\ Len(<<>>) = 0 /\ At(o, <<>>) = o
    BY DocumentPaths, AtRoot DEF IsMap, IsLeaf
  <2>2. MaxNesting # 0
    BY <2>1 DEF IsDocument
  <2> QED BY <2>2, NamesAssumption
<1>6. IsDocument(Map(f))
  <2>1. f = [k \in DOMAIN f |-> f[k]] /\ DOMAIN f = {"kind", "spec"} \cap DOMAIN o.f
    OBVIOUS
  <2>3. DOMAIN f \in SUBSET STRING
    <3>1. Shaped(o)
      BY DocumentPaths, AtRoot
    <3>2. DOMAIN o.f \subseteq STRING
      BY <3>1 DEF Shaped, IsMap
    <3> HIDE DEF f
    <3> QED BY <2>1, <3>2
  <2>2. \A k \in DOMAIN f : IsDocument(f[k]) /\ Shallow(f[k])
    BY <1>3, <1>4
  <2> HIDE DEF f
  <2> QED BY <1>5, <2>1, <2>2, <2>3, MapDocument
<1> QED BY <1>1, <1>4, <1>6

-----------------------------------------------------------------------------
(* The lock and the file.                                                  *)

Excused(c) == pc[c] = "dead" \/ disk # "sound"

LockInv ==
  /\ \A c \in Calls : pc[c] \in {"locked", "half"} <=> mu = c
  /\ w = "file" <=> isOpen

HalfInv ==
  \A c \in Calls : pc[c] = "half" =>
    isOpen /\ file # <<>> /\ file[Len(file)] = Entry(c, "piece")

PieceOK(i) ==
  /\ file[i].part # "rest"
  /\ file[i].part = "piece" =>
       \/ i = Len(file) /\ pc[file[i].call] = "half"
       \/ Excused(file[i].call)

PieceInv == \A i \in 1..Len(file) : PieceOK(i)

HasLine(c) == \E i \in 1..Len(file) : file[i] = Entry(c, "whole") /\ OwnLine(i)

RecordedInv ==
  \A c \in Calls : pc[c] = "recorded" =>
    ~isOpen \/ disk # "sound" \/ c \in Unencodable \/ HasLine(c)

IInv == TypeOK /\ LockInv /\ HalfInv /\ PieceInv /\ RecordedInv

USE RecorderAssumption

\* A call that moves leaves the others where they are.
LEMMA GotoType ==
  ASSUME TypeOK, NEW c \in Calls, NEW place \in Places, Goto(c, place)
  PROVE  /\ pc' \in [Calls -> Places] /\ pc'[c] = place
         /\ \A d \in Calls : d # c => pc'[d] = pc[d]
BY DEF TypeOK, Goto

\* The file holds entries of calls.
LEMMA EntryType ==
  ASSUME TypeOK, NEW i \in 1..Len(file)
  PROVE  file[i].call \in Calls /\ file[i] \in [call : Calls, part : {"piece", "whole", "rest"}]
<1>1. file[i] \in [call : Calls, part : {"piece", "whole", "rest"}]
  BY ElementOfSeq DEF TypeOK
<1> QED BY <1>1

\* The disk and the death of a process are never forgotten.
LEMMA OwnLineStays ==
  ASSUME TypeOK, file' = file, disk # "sound" => disk' # "sound",
         \A d \in Calls : pc[d] = "dead" => pc'[d] = "dead",
         NEW i \in 1..Len(file), OwnLine(i)
  PROVE  OwnLine(i)'
<1>1. CASE i = 1
  BY <1>1 DEF OwnLine
<1>2. CASE i # 1
  <2>1. i - 1 \in 1..Len(file)
    BY <1>2 DEF TypeOK
  <2> QED BY <2>1, EntryType DEF OwnLine
<1> QED BY <1>1, <1>2

\* The invariant holds at the start,
LEMMA InitInv == Init => IInv
<1> SUFFICES ASSUME Init PROVE IInv
  OBVIOUS
<1>1. TypeOK
  BY DEF Init, TypeOK, Places
<1>2. LockInv /\ HalfInv /\ PieceInv /\ RecordedInv
  BY DEF Init, LockInv, HalfInv, PieceInv, RecordedInv
<1> QED BY <1>1, <1>2 DEF IInv

\* A step that moves one call outside the lock and leaves the file alone.
LEMMA OutsideLock ==
  ASSUME IInv, NEW c \in Calls, NEW place \in Places \ {"locked", "half", "dead"},
         place = "recorded" => c \in Unencodable,
         Goto(c, place), pc[c] \notin {"locked", "half", "dead"},
         UNCHANGED <<session, mu, w, isOpen, file, serving, disk>>
  PROVE  IInv'
<1>1. /\ pc' \in [Calls -> Places] /\ pc'[c] = place
      /\ \A d \in Calls : d # c => pc'[d] = pc[d]
  BY GotoType DEF IInv
<1>2. TypeOK'
  BY <1>1 DEF IInv, TypeOK
<1>3. LockInv' /\ HalfInv'
  BY <1>1 DEF IInv, LockInv, HalfInv
<1>4. \A d \in Calls : (pc[d] = "half" => pc'[d] = "half") /\ (Excused(d) => Excused(d)')
  BY <1>1 DEF Excused
<1>5. PieceInv'
  BY <1>4, EntryType DEF IInv, PieceInv, PieceOK
<1>6. \A i \in 1..Len(file) : OwnLine(i) => OwnLine(i)'
  BY <1>1, OwnLineStays DEF IInv
<1>7. RecordedInv'
  BY <1>1, <1>6 DEF IInv, RecordedInv, HasLine
<1> QED BY <1>2, <1>3, <1>5, <1>7 DEF IInv

\* when a call takes the lock,
LEMMA LockStep == ASSUME IInv, NEW c \in Calls, Lock(c) PROVE IInv'
<1>1. /\ pc' \in [Calls -> Places] /\ pc'[c] = "locked"
      /\ \A d \in Calls : d # c => pc'[d] = pc[d]
  BY GotoType DEF IInv, Lock, Places
<1>2. TypeOK' /\ LockInv' /\ HalfInv'
  BY <1>1 DEF IInv, Lock, values, TypeOK, LockInv, HalfInv
<1>3. PieceInv'
  BY <1>1, EntryType DEF IInv, Lock, PieceInv, PieceOK, Excused
<1>4. \A i \in 1..Len(file) : OwnLine(i) => OwnLine(i)'
  BY <1>1, OwnLineStays DEF IInv, Lock
<1>5. RecordedInv'
  BY <1>1, <1>4 DEF IInv, Lock, RecordedInv, HasLine
<1> QED BY <1>2, <1>3, <1>5 DEF IInv

\* A record that ends without its bytes, at the recorder or at the disk.
LEMMA Unlogged ==
  ASSUME IInv, NEW c \in Calls, Goto(c, "recorded"), mu' = None, pc[c] \in {"locked", "half"},
         ~isOpen \/ disk # "sound",
         UNCHANGED <<session, w, isOpen, file, serving, disk>>
  PROVE  IInv'
<1>1. /\ pc' \in [Calls -> Places] /\ pc'[c] = "recorded"
      /\ \A d \in Calls : d # c => pc'[d] = pc[d]
  BY GotoType DEF IInv, Places
<1>2. \A d \in Calls : d # c => pc[d] \notin {"locked", "half"}
  BY DEF IInv, LockInv
<1>3. TypeOK' /\ LockInv' /\ HalfInv'
  BY <1>1, <1>2 DEF IInv, TypeOK, LockInv, HalfInv
<1>4. pc[c] = "half" => disk # "sound"
  BY DEF IInv, HalfInv
<1>5. PieceInv'
  BY <1>1, <1>2, <1>4, EntryType DEF IInv, PieceInv, PieceOK, Excused
<1>6. \A i \in 1..Len(file) : OwnLine(i) => OwnLine(i)'
  BY <1>1, OwnLineStays DEF IInv
<1>7. RecordedInv'
  BY <1>1, <1>6 DEF IInv, RecordedInv, HasLine
<1> QED BY <1>3, <1>5, <1>7 DEF IInv

\* when it has written a piece,
LEMMA BeginStep == ASSUME IInv, NEW c \in Calls, WriteBegins(c) PROVE IInv'
<1>1. /\ pc' \in [Calls -> Places] /\ pc'[c] = "half"
      /\ \A d \in Calls : d # c => pc'[d] = pc[d]
  BY GotoType DEF IInv, WriteBegins, Places
<1>2. \A d \in Calls : d # c => pc[d] \notin {"locked", "half"}
  BY DEF IInv, LockInv, WriteBegins
<1> DEFINE e == Entry(c, "piece")
<1>3. e \in [call : Calls, part : {"piece", "whole", "rest"}] /\ e.call = c /\ e.part = "piece"
  BY DEF Entry
<1>4. file' = Append(file, e)
  BY DEF WriteBegins
<1> HIDE DEF e
<1>5. /\ file' \in Seq([call : Calls, part : {"piece", "whole", "rest"}])
      /\ Len(file') = Len(file) + 1 /\ file'[Len(file')] = e /\ Len(file) \in Nat
      /\ \A i \in 1..Len(file) : file'[i] = file[i]
  BY <1>3, <1>4, AppendProperties DEF IInv, TypeOK
<1>6. TypeOK' /\ LockInv'
  BY <1>1, <1>2, <1>5 DEF IInv, WriteBegins, values, TypeOK, LockInv
<1>7. HalfInv'
  <2>1. file' # <<>>
    BY <1>5
  <2>2. file'[Len(file')] = Entry(c, "piece")
    BY <1>5 DEF e
  <2> QED BY <1>1, <1>2, <2>1, <2>2 DEF HalfInv, WriteBegins
<1>8. \A d \in Calls : Excused(d) => Excused(d)'
  BY <1>1 DEF Excused, WriteBegins
<1>9. PieceInv'
  <2> SUFFICES ASSUME NEW i \in 1..Len(file') PROVE PieceOK(i)'
    BY DEF PieceInv
  <2>1. CASE i = Len(file')
    BY <2>1, <1>1, <1>3, <1>5 DEF PieceOK
  <2>2. CASE i \in 1..Len(file)
    <3>1. file'[i] = file[i] /\ i # Len(file') /\ file[i].call \in Calls
      BY <2>2, <1>5, EntryType DEF IInv
    <3>2. pc[file[i].call] # "half"
      BY <3>1, <1>2 DEF WriteBegins
    <3> QED BY <2>2, <3>1, <3>2, <1>8 DEF IInv, PieceInv, PieceOK, Excused
  <2> QED BY <2>1, <2>2, <1>5
<1>10. \A i \in 1..Len(file) : OwnLine(i) => OwnLine(i)'
  <2> SUFFICES ASSUME NEW i \in 1..Len(file), OwnLine(i), i # 1 PROVE OwnLine(i)'
    BY DEF OwnLine
  <2>1. i - 1 \in 1..Len(file)
    BY <1>5
  <2> QED BY <2>1, <1>1, <1>5, EntryType DEF OwnLine, WriteBegins, IInv
<1>11. RecordedInv'
  BY <1>1, <1>5, <1>10 DEF IInv, WriteBegins, RecordedInv, HasLine
<1> QED BY <1>6, <1>7, <1>9, <1>11 DEF IInv

\* when it has written the rest,
LEMMA EndStep == ASSUME IInv, NEW c \in Calls, WriteEnds(c) PROVE IInv'
<1>1. /\ pc' \in [Calls -> Places] /\ pc'[c] = "recorded"
      /\ \A d \in Calls : d # c => pc'[d] = pc[d]
  BY GotoType DEF IInv, WriteEnds, Places
<1>2. \A d \in Calls : d # c => pc[d] \notin {"locked", "half"}
  BY DEF IInv, LockInv, WriteEnds
<1>3. file # <<>> /\ file[Len(file)] = Entry(c, "piece") /\ pc[c] = "half"
  BY DEF IInv, HalfInv, WriteEnds
<1>4. Len(file) \in Nat \ {0} /\ file \in Seq([call : Calls, part : {"piece", "whole", "rest"}])
  BY <1>3, EmptySeq DEF IInv, TypeOK
<1> DEFINE n == Len(file)
           e == Entry(c, "whole")
<1>5. e \in [call : Calls, part : {"piece", "whole", "rest"}] /\ e.call = c /\ e.part = "whole"
  BY DEF Entry
<1>6. file' = [file EXCEPT ![n] = e]
  BY <1>3 DEF WriteEnds
<1> HIDE DEF e
<1>7. /\ file' \in Seq([call : Calls, part : {"piece", "whole", "rest"}])
      /\ Len(file') = n /\ file'[n] = e
      /\ \A i \in 1..n : i # n => file'[i] = file[i]
  BY <1>4, <1>5, <1>6
<1>8. TypeOK' /\ LockInv'
  BY <1>1, <1>2, <1>7 DEF IInv, WriteEnds, values, TypeOK, LockInv
<1>9. HalfInv'
  BY <1>1, <1>2 DEF HalfInv
<1>10. \A d \in Calls : Excused(d) => Excused(d)'
  BY <1>1, <1>3 DEF Excused, WriteEnds
<1>11. ASSUME NEW i \in 1..n, i # n, file'[i].part # "whole"
       PROVE  Excused(file[i].call)' /\ file'[i] = file[i] /\ file[i].part = "piece"
  <2>1. file'[i] = file[i] /\ file[i].call \in Calls
        /\ file[i].part \in {"piece", "whole", "rest"}
    BY <1>7, <1>11, EntryType DEF IInv
  <2> QED BY <2>1, <1>10, <1>11 DEF IInv, PieceInv, PieceOK, Excused
<1>12. PieceInv'
  <2> SUFFICES ASSUME NEW i \in 1..n PROVE PieceOK(i)'
    BY <1>7 DEF PieceInv
  <2>1. CASE file'[i].part = "whole"
    BY <2>1 DEF PieceOK
  <2>2. CASE file'[i].part # "whole"
    <3>1. i # n
      BY <2>2, <1>5, <1>7
    <3> QED BY <2>2, <3>1, <1>11 DEF PieceOK, Excused
  <2> QED BY <2>1, <2>2
<1>13. \A i \in 1..n : OwnLine(i)'
  <2> SUFFICES ASSUME NEW i \in 1..n, i # 1, file'[i - 1].part = "piece" PROVE OwnLine(i)'
    BY DEF OwnLine
  <2>1. i - 1 \in 1..n /\ i - 1 # n
    BY <1>4
  <2> QED BY <2>1, <1>11 DEF OwnLine, Excused
<1>14. HasLine(c)'
  BY <1>4, <1>7, <1>13 DEF HasLine, e
<1>15. \A d \in Calls : d # c /\ HasLine(d) => HasLine(d)'
  <2> SUFFICES ASSUME NEW d \in Calls, d # c, NEW i \in 1..n, file[i] = Entry(d, "whole")
               PROVE  HasLine(d)'
    BY DEF HasLine
  <2>1. i # n
    BY <1>3 DEF Entry
  <2> QED BY <2>1, <1>7, <1>13 DEF HasLine
<1>16. RecordedInv'
  BY <1>1, <1>14, <1>15 DEF IInv, WriteEnds, RecordedInv
<1> QED BY <1>8, <1>9, <1>12, <1>16 DEF IInv

\* after a restart,
LEMMA RestartStep == ASSUME IInv, Restart PROVE IInv'
<1>1. /\ pc' \in [Calls -> Places]
      /\ \A c \in Calls : pc'[c] = IF pc[c] \in {"new", "answered", "dead"} THEN pc[c] ELSE "dead"
  BY DEF IInv, TypeOK, Restart, Alive, Places
<1>2. TypeOK' /\ LockInv' /\ HalfInv' /\ RecordedInv'
  BY <1>1 DEF IInv, Restart, NewRecorder, values, TypeOK, LockInv, HalfInv, RecordedInv
<1>3. \A c \in Calls : pc[c] = "half" \/ Excused(c) => Excused(c)'
  BY <1>1 DEF Excused, Restart
<1>4. PieceInv'
  BY <1>3, EntryType DEF IInv, PieceInv, PieceOK, Excused, Restart, NewRecorder
<1> QED BY <1>2, <1>4 DEF IInv

\* main, the disk, and stuttering.
LEMMA OtherStep ==
  ASSUME IInv, RunReturns \/ CloseRecorder \/ DiskFails \/ DiskMends \/ UNCHANGED vars
  PROVE  IInv'
<1> USE DEF RunReturns, CloseRecorder, DiskFails, DiskMends, vars, values
<1>1. pc' = pc /\ file' = file /\ mu' = mu /\ (disk # "sound" => disk' # "sound")
  OBVIOUS
<1>2. mu # None => isOpen' = isOpen /\ w' = w
  OBVIOUS
<1>3. TypeOK' /\ LockInv'
  <2>1. TypeOK'
    BY DEF IInv, TypeOK
  <2>2. w' = "file" <=> isOpen'
    BY DEF IInv, TypeOK, LockInv
  <2> QED BY <2>1, <2>2, <1>1 DEF IInv, LockInv
<1>4. HalfInv'
  <2> SUFFICES ASSUME NEW c \in Calls, pc[c] = "half"
               PROVE  isOpen' /\ file # <<>> /\ file[Len(file)] = Entry(c, "piece")
    BY <1>1 DEF HalfInv
  <2>1. mu = c /\ mu # None
    BY DEF IInv, LockInv
  <2> QED BY <2>1, <1>2 DEF IInv, HalfInv
<1>5. PieceInv'
  BY <1>1 DEF IInv, PieceInv, PieceOK, Excused
<1>6. \A i \in 1..Len(file) : OwnLine(i) => OwnLine(i)'
  BY <1>1 DEF OwnLine
<1>7. ~isOpen => ~isOpen'
  OBVIOUS
<1>8. RecordedInv'
  BY <1>1, <1>6, <1>7 DEF IInv, RecordedInv, HasLine
<1> QED BY <1>3, <1>4, <1>5, <1>8 DEF IInv

\* and so after every step.
LEMMA NextInv == IInv /\ [Next]_vars => IInv'
<1> SUFFICES ASSUME IInv, [Next]_vars PROVE IInv'
  OBVIOUS
<1>1. ASSUME NEW c \in Calls, CallStep(c) PROVE IInv'
  <2>1. CASE Start(c)
    BY <2>1, OutsideLock DEF Start, values, Places
  <2>2. CASE Handle(c)
    BY <2>2, OutsideLock DEF Handle, Places
  <2>3. CASE Encode(c)
    BY <2>3, OutsideLock DEF Encode, Places
  <2>4. CASE Lock(c)
    BY <2>4, LockStep
  <2>5. CASE WriteDiscarded(c)
    BY <2>5, Unlogged DEF WriteDiscarded, values, IInv, LockInv
  <2>6. CASE WriteBegins(c)
    BY <2>6, BeginStep
  <2>7. CASE WriteEnds(c)
    BY <2>7, EndStep
  <2>8. CASE WriteFails(c)
    BY <2>8, Unlogged DEF WriteFails, values
  <2>9. CASE Answer(c)
    BY <2>9, OutsideLock DEF Answer, values, Places
  <2> QED BY <1>1, <2>1, <2>2, <2>3, <2>4, <2>5, <2>6, <2>7, <2>8, <2>9 DEF CallStep, Write
<1>2. CASE Restart
  BY <1>2, RestartStep
<1> QED BY <1>1, <1>2, OtherStep DEF Next

\* The recorder's state is well-formed, the lock has one holder who alone may be
\* in the middle of a write, and a recorded call has its line or an excuse.
THEOREM RecorderInvariant == Spec => []IInv
BY InitInv, NextInv, PTL DEF Spec

\* The type invariant of the recorder.
THEOREM RecorderTypes == Spec => []TypeOK
BY RecorderInvariant, PTL DEF IInv

\* An answered call can be read about in the log: see AnsweredIsLogged.
THEOREM AnswersAreLogged == Spec => AnsweredIsLogged
<1> DEFINE A == \A c \in Calls :
       (pc[c] # "answered" /\ pc'[c] = "answered") =>
         \/ ~isOpen \/ disk # "sound" \/ c \in Unencodable
         \/ \E i \in 1..Len(file) : file[i] = Entry(c, "whole") /\ OwnLine(i)
<1>1. IInv /\ [Next]_vars => [A]_vars
  <2> SUFFICES ASSUME IInv, Next, NEW c \in Calls, pc[c] # "answered", pc'[c] = "answered"
               PROVE  \/ ~isOpen \/ disk # "sound" \/ c \in Unencodable
                      \/ HasLine(c)
    BY DEF HasLine
  <2>1. pc[c] = "recorded"
    <3>1. ASSUME NEW d \in Calls, NEW place \in Places, Goto(d, place) PROVE c = d /\ place = "answered"
      BY <3>1, GotoType DEF IInv
    <3>2. CASE \E d \in Calls : CallStep(d)
      <4> PICK d \in Calls : CallStep(d)
        BY <3>2
      <4>1. Answer(d) \/ \E place \in Places \ {"answered"} : Goto(d, place)
        BY DEF CallStep, Write, Start, Handle, Encode, Lock, WriteDiscarded, WriteBegins,
               WriteEnds, WriteFails, Places
      <4>2. Answer(d) /\ c = d
        BY <4>1, <3>1 DEF Answer, Places
      <4> QED BY <4>2 DEF Answer
    <3>3. CASE Restart
      BY <3>3 DEF Restart, IInv, TypeOK
    <3> QED BY <3>2, <3>3 DEF Next, RunReturns, CloseRecorder, DiskFails, DiskMends
  <2> QED BY <2>1 DEF IInv, RecordedInv
<1> QED BY <1>1, RecorderInvariant, PTL DEF Spec, AnsweredIsLogged
-----------------------------------------------------------------------------
(* The recorder implements the log: every step of it, its lock, its two-   *)
(* part write, Close and the end of the process included, is a step of     *)
(* CallLog or invisible to it.  The mapping hides the record that is being *)
(* written: RecorderInvariant says that it can only be the last one.       *)

\* What was appended can be cut off again.
LEMMA FrontOfAppend ==
  ASSUME NEW S, NEW s \in Seq(S), NEW e \in S
  PROVE  SubSeq(Append(s, e), 1, Len(Append(s, e)) - 1) = s
<1> DEFINE t == Append(s, e)
           u == SubSeq(t, 1, Len(t) - 1)
<1>1. t \in Seq(S) /\ Len(t) = Len(s) + 1 /\ Len(s) \in Nat /\ \A i \in 1..Len(s) : t[i] = s[i]
  BY AppendProperties
<1> HIDE DEF t
<1>2. \A i \in 1..(Len(t) - 1) : t[i] \in S
  BY <1>1, ElementOfSeq
<1>3. u \in Seq(S) /\ Len(u) = Len(s) /\ \A i \in 1..Len(s) : u[i] = s[i]
  BY <1>1, <1>2, SubSeqProperties
<1> HIDE DEF u
<1>4. u = s
  BY <1>3, SeqEqual
<1> QED BY <1>4 DEF t, u

\* To change the last entry is to cut it off and append another.
LEMMA ReplaceLast ==
  ASSUME NEW S, NEW s \in Seq(S), s # <<>>, NEW e \in S
  PROVE  [s EXCEPT ![Len(s)] = e] = Append(SubSeq(s, 1, Len(s) - 1), e)
<1> DEFINE n == Len(s)
           u == SubSeq(s, 1, n - 1)
           t == [s EXCEPT ![n] = e]
           a == Append(u, e)
<1>1. n \in Nat \ {0}
  BY EmptySeq
<1>2. t \in Seq(S) /\ Len(t) = n /\ t[n] = e /\ \A i \in 1..(n - 1) : t[i] = s[i]
  BY <1>1
<1>3. \A i \in 1..(n - 1) : s[i] \in S
  BY <1>1, ElementOfSeq
<1>4. u \in Seq(S) /\ Len(u) = n - 1 /\ \A i \in 1..(n - 1) : u[i] = s[i]
  <2> HIDE DEF n
  <2>1. n - 1 \in Int /\ 1 \in Int /\ (n - 1) - 1 + 1 = n - 1
    BY <1>1
  <2>2. /\ u \in Seq(S)
        /\ Len(u) = IF 1 <= n - 1 THEN (n - 1) - 1 + 1 ELSE 0
        /\ \A i \in 1..((n - 1) - 1 + 1) : u[i] = s[1 + i - 1]
    BY <1>3, <2>1, SubSeqProperties
  <2> QED BY <1>1, <2>1, <2>2
<1> HIDE DEF u, t
<1>5. a \in Seq(S) /\ Len(a) = n /\ a[n] = e /\ \A i \in 1..(n - 1) : a[i] = u[i]
  BY <1>1, <1>4, AppendProperties
<1> HIDE DEF a
<1>6. \A i \in 1..n : t[i] = a[i]
  BY <1>1, <1>2, <1>4, <1>5
<1>7. t = a
  BY <1>2, <1>5, <1>6, SeqEqual
<1> QED BY <1>7 DEF t, a, u

Entries == [call : Calls, part : {"piece", "whole", "rest"}]

Outside == [c \in Calls |-> Status(c)]

\* A step of one call is seen as what becomes of its status.
LEMMA StatusStep ==
  ASSUME IInv, NEW c \in Calls, NEW place \in Places, Goto(c, place)
  PROVE  Outside' = [Outside EXCEPT ![c] = Status(c)'] /\ pc'[c] = place
<1>1. pc'[c] = place /\ \A d \in Calls : d # c => pc'[d] = pc[d]
  BY GotoType DEF IInv
<1>2. \A d \in Calls : d # c => Status(d)' = Status(d)
  BY <1>1 DEF Status
<1> QED BY <1>1, <1>2 DEF Outside

\* The settled log depends on the file and on who is half way alone.
LEMMA SettledStays ==
  ASSUME file' = file, \A c \in Calls : pc[c] = "half" <=> pc'[c] = "half"
  PROVE  Settled' = Settled
BY DEF Settled

\* With nobody half way the whole file is settled.
LEMMA NoHalf ==
  ASSUME IInv, \A c \in Calls : mu = c => pc[c] # "half"
  PROVE  Settled = file
BY DEF IInv, LockInv, Settled

\* The recorder starts as an empty log,
LEMMA InitRefines == Init => Abstract!LogInit
BY DEF Init, Abstract!LogInit, Status, Settled

\* The step of a call that only its own status shows.
LEMMA QuietStep ==
  ASSUME IInv, NEW c \in Calls, NEW place \in Places \ {"half"}, Goto(c, place),
         pc[c] # "half", UNCHANGED <<isOpen, file, disk>>
  PROVE  /\ Outside' = [Outside EXCEPT ![c] = Status(c)'] /\ pc'[c] = place
         /\ Settled' = Settled
<1>1. Outside' = [Outside EXCEPT ![c] = Status(c)'] /\ pc'[c] = place
  BY StatusStep
<1>2. \A d \in Calls : pc[d] = "half" <=> pc'[d] = "half"
  BY <1>1, GotoType DEF IInv
<1> QED BY <1>1, <1>2, SettledStays

\* A call is opened, lost, logged and answered as CallLog has it.
LEMMA CallRefines ==
  ASSUME IInv, NEW c \in Calls, CallStep(c)
  PROVE  Abstract!LogNext \/ (Outside' = Outside /\ Settled' = Settled /\ UNCHANGED <<isOpen, disk>>)
<1>1. \A d \in Calls : Outside[d] = Status(d)
  BY DEF Outside
<1>2. CASE Start(c)
  <2>1. Status(c) = "new" /\ Status(c)' = "open" /\ Settled' = Settled
        /\ Outside' = [Outside EXCEPT ![c] = Status(c)']
    BY <1>2, QuietStep DEF Start, Status, Places, values
  <2> QED BY <1>1, <1>2, <2>1 DEF Abstract!LogNext, Abstract!Open, Outside, Start
<1>3. CASE Handle(c) \/ Lock(c) \/ (Encode(c) /\ c \notin Unencodable)
  <2>1. Status(c) = "open" /\ Status(c)' = "open" /\ Settled' = Settled
        /\ Outside' = [Outside EXCEPT ![c] = Status(c)']
    BY <1>3, QuietStep DEF Handle, Lock, Encode, Status, Places
  <2>2. Outside' = Outside
    BY <1>1, <2>1 DEF Outside
  <2> QED BY <1>3, <2>1, <2>2 DEF Handle, Lock, Encode
<1>4. CASE Encode(c) /\ c \in Unencodable
  <2>1. Status(c) = "open" /\ Status(c)' = "settled" /\ Settled' = Settled
        /\ Outside' = [Outside EXCEPT ![c] = Status(c)']
    BY <1>4, QuietStep DEF Encode, Status, Places
  <2> QED BY <1>1, <1>4, <2>1 DEF Abstract!LogNext, Abstract!Finish, Abstract!Lose, Abstract!Settle,
                                  Outside, Encode
<1>5. CASE WriteDiscarded(c)
  <2>1. Status(c) = "open" /\ Status(c)' = "settled" /\ Settled' = Settled
        /\ Outside' = [Outside EXCEPT ![c] = Status(c)']
    BY <1>5, QuietStep DEF WriteDiscarded, Status, Places
  <2>2. ~isOpen
    BY <1>5 DEF WriteDiscarded, IInv, LockInv
  <2> QED BY <1>1, <1>5, <2>1, <2>2 DEF Abstract!LogNext, Abstract!Finish, Abstract!Lose, Abstract!Settle,
                                        Outside, WriteDiscarded
<1>6. CASE WriteFails(c) /\ pc[c] = "locked"
  <2>1. Status(c) = "open" /\ Status(c)' = "settled" /\ Settled' = Settled
        /\ Outside' = [Outside EXCEPT ![c] = Status(c)']
    BY <1>6, QuietStep DEF WriteFails, Status, Places
  <2> QED BY <1>1, <1>6, <2>1 DEF Abstract!LogNext, Abstract!Finish, Abstract!Lose, Abstract!Settle,
                                  Outside, WriteFails
<1> DEFINE n == Len(file)
<1>7. pc[c] = "half" => /\ isOpen /\ file # <<>> /\ file[n] = Entry(c, "piece") /\ file \in Seq(Entries)
                        /\ Settled = SubSeq(file, 1, n - 1) /\ n \in Nat \ {0}
  BY EmptySeq DEF IInv, HalfInv, TypeOK, Settled, Entries
<1>8. pc[c] \in {"locked", "half"} => \A d \in Calls : d # c => pc[d] \notin {"locked", "half"}
  BY DEF IInv, LockInv
<1>9. CASE WriteFails(c) /\ pc[c] = "half"
  <2>1. /\ Status(c) = "open" /\ Status(c)' = "settled" /\ pc'[c] = "recorded"
        /\ Outside' = [Outside EXCEPT ![c] = Status(c)']
    BY <1>9, StatusStep DEF WriteFails, Status, Places
  <2>2. Settled' = file
    BY <1>8, <1>9, <2>1, GotoType DEF IInv, WriteFails, Settled, Places
  <2>3. Entry(c, "piece") \in Entries
    BY DEF Entry, Entries
  <2> DEFINE piece == Entry(c, "piece")
  <2>4. file # <<>> /\ file \in Seq(Entries) /\ Settled = SubSeq(file, 1, Len(file) - 1)
        /\ piece \in Entries /\ file[Len(file)] = piece
    BY <1>7, <1>9, <2>3
  <2> HIDE DEF piece, n
  <2>5. [file EXCEPT ![Len(file)] = piece] = Append(Settled, piece)
    BY <2>4, ReplaceLast
  <2>6. [file EXCEPT ![Len(file)] = piece] = file
    BY <2>4
  <2>7. file = Append(Settled, piece)
    BY <2>5, <2>6
  <2>8. Abstract!Append1(c, "piece")
    BY <2>2, <2>7 DEF Abstract!Append1, Entry, piece
  <2> QED BY <1>1, <1>7, <1>9, <2>1, <2>8 DEF Abstract!LogNext, Abstract!Finish, Abstract!Tear,
                                              Abstract!Settle, Outside, WriteFails
<1>10. CASE WriteBegins(c)
  <2>1. /\ Status(c) = "open" /\ Status(c)' = "open" /\ pc'[c] = "half"
        /\ Outside' = [Outside EXCEPT ![c] = Status(c)']
    BY <1>10, StatusStep DEF WriteBegins, Status, Places
  <2>2. Outside' = Outside
    BY <1>1, <2>1 DEF Outside
  <2>3. Settled = file
    BY <1>8, <1>10 DEF WriteBegins, Settled
  <2>4. Settled' = SubSeq(file', 1, Len(file') - 1)
    BY <2>1 DEF Settled
  <2>5. Entry(c, "piece") \in Entries /\ file \in Seq(Entries)
    BY DEF Entry, Entries, IInv, TypeOK
  <2>6. Settled' = file
    BY <1>10, <2>4, <2>5, FrontOfAppend DEF WriteBegins
  <2> QED BY <1>10, <2>2, <2>3, <2>6 DEF WriteBegins
<1>11. CASE WriteEnds(c)
  <2>1. /\ Status(c) = "open" /\ Status(c)' = "settled" /\ pc'[c] = "recorded"
        /\ Outside' = [Outside EXCEPT ![c] = Status(c)']
    BY <1>11, StatusStep DEF WriteEnds, Status, Places
  <2>2. Settled' = file'
    BY <1>8, <1>11, <2>1, GotoType DEF IInv, WriteEnds, Settled, Places
  <2>3. Entry(c, "whole") \in Entries
    BY DEF Entry, Entries
  <2>4. file' = Append(Settled, Entry(c, "whole"))
    BY <1>7, <1>11, <2>3, ReplaceLast DEF WriteEnds
  <2>5. Abstract!Append1(c, "whole")
    BY <2>2, <2>4 DEF Abstract!Append1, Entry
  <2> QED BY <1>1, <1>11, <2>1, <2>5 DEF Abstract!LogNext, Abstract!Finish, Abstract!Log,
                                         Abstract!Settle, Outside, WriteEnds
<1>12. CASE Answer(c)
  <2>1. Status(c) = "settled" /\ Status(c)' = "answered" /\ Settled' = Settled
        /\ Outside' = [Outside EXCEPT ![c] = Status(c)']
    BY <1>12, QuietStep DEF Answer, Status, Places
  <2> QED BY <1>1, <1>12, <2>1 DEF Abstract!LogNext, Abstract!Return, Outside, Answer
<1>13. WriteFails(c) => pc[c] \in {"locked", "half"}
  BY DEF WriteFails
<1> QED BY <1>2, <1>3, <1>4, <1>5, <1>6, <1>9, <1>10, <1>11, <1>12, <1>13 DEF CallStep, Write

\* its restart is the log's,
LEMMA RestartRefines == ASSUME IInv, Restart PROVE Abstract!Restart
<1>1. \A c \in Calls : pc'[c] = IF pc[c] \in {"new", "answered", "dead"} THEN pc[c] ELSE "dead"
  BY DEF IInv, TypeOK, Restart, Alive, Places
<1>2. /\ \A c \in Calls : Outside[c] = Status(c)
      /\ Outside' = [c \in Calls |-> Status(c)']
  BY DEF Outside
<1>3. \A c \in Calls : Status(c)' = IF Status(c) \in {"open", "settled"} THEN "gone" ELSE Status(c)
  BY <1>1 DEF IInv, TypeOK, Places, Status
<1>4. Settled' = file
  BY <1>1 DEF Settled, Restart, NewRecorder
<1>5. CASE \A c \in Calls : pc[c] # "half"
  <2>1. Settled = file
    BY <1>5 DEF Settled
  <2> QED BY <1>2, <1>3, <1>4, <2>1 DEF Abstract!Restart, Outside, Restart, NewRecorder
<1>6. ASSUME NEW c \in Calls, pc[c] = "half" PROVE Abstract!Restart
  <2>1. /\ file # <<>> /\ file[Len(file)] = Entry(c, "piece") /\ file \in Seq(Entries)
        /\ Settled = SubSeq(file, 1, Len(file) - 1) /\ Len(file) \in Nat \ {0}
    BY <1>6, EmptySeq DEF IInv, HalfInv, TypeOK, Settled, Entries
  <2>2. Entry(c, "piece") \in Entries
    BY DEF Entry, Entries
  <2>3. [file EXCEPT ![Len(file)] = Entry(c, "piece")] = Append(Settled, Entry(c, "piece"))
    BY <2>1, <2>2, ReplaceLast
  <2>4. Abstract!Append1(c, "piece")
    BY <1>4, <2>1, <2>3 DEF Abstract!Append1, Entry
  <2>5. Status(c) = "open"
    BY <1>6 DEF Status
  <2> QED BY <1>2, <1>3, <2>4, <2>5 DEF Abstract!Restart, Outside, Restart, NewRecorder
<1> QED BY <1>5, <1>6

\* and every step of it is one of the log, or none.
LEMMA NextRefines ==
  IInv /\ [Next]_vars => [Abstract!LogNext]_(Abstract!logVars)
<1> SUFFICES ASSUME IInv, [Next]_vars PROVE [Abstract!LogNext]_(Abstract!logVars)
  OBVIOUS
<1>1. CASE \E c \in Calls : CallStep(c)
  BY <1>1, CallRefines DEF Outside, Abstract!logVars
<1>2. CASE Restart
  BY <1>2, RestartRefines DEF Abstract!LogNext
<1>3. CASE RunReturns \/ CloseRecorder \/ DiskFails \/ DiskMends \/ UNCHANGED vars
  <2>1. Settled' = Settled /\ Outside' = Outside
    BY <1>3 DEF RunReturns, CloseRecorder, DiskFails, DiskMends, vars, Settled, Outside, Status
  <2> QED BY <1>3, <2>1 DEF RunReturns, CloseRecorder, DiskFails, DiskMends, vars, Outside,
             IInv, TypeOK, Abstract!logVars, Abstract!LogNext, Abstract!Close, Abstract!DiskStep
<1> QED BY <1>1, <1>2, <1>3 DEF Next

\* The safety part of RefinesLog: hidden the lock and the halves of a write, every
\* behaviour of the recorder is one of the log.
THEOREM RecorderIsLog == Spec => Abstract!LogInit /\ [][Abstract!LogNext]_(Abstract!logVars)
BY InitRefines, NextRefines, RecorderInvariant, PTL DEF Spec

-----------------------------------------------------------------------------
(* The values along a call: what it shows is the view of the object it     *)
(* asked for or the error it met, and no entry of the file is of a call    *)
(* that was not encoded.                                                   *)

SeenInv ==
  \A c \in Calls :
    /\ pc[c] # "new" => c \in DOMAIN session
    /\ result[c] # None \/ pc[c] \in {"recording", "encoded", "locked", "half"} =>
         c \in DOMAIN session /\ result[c] = Returned(c)
    /\ pc[c] \in {"encoded", "locked", "half"} => encoded[c] = RecordOf(c)

Kept(c) ==
  /\ c \in DOMAIN session /\ result[c] = Returned(c) /\ encoded[c] = RecordOf(c)
  /\ pc[c] \notin {"new", "handling", "recording"}

FileInv == \A i \in 1..Len(file) : Kept(file[i].call)

ValuesInv == DOMAIN result = Calls /\ DOMAIN encoded = Calls /\ SeenInv /\ FileInv

\* What a call was to be given is chosen once, and its record is of that and of
\* what its handler returned.
LEMMA SameRecord ==
  ASSUME session' = session, NEW c
  PROVE  Returned(c)' = Returned(c) /\ (result'[c] = result[c] => RecordOf(c)' = RecordOf(c))
<1>1. Failed(c)' <=> Failed(c)
  BY DEF Failed
<1>2. Returned(c)' = Returned(c)
  BY <1>1 DEF Returned
<1>3. ASSUME result'[c] = result[c] PROVE RecordOf(c)' = RecordOf(c)
  BY <1>1, <1>3 DEF RecordOf
<1> QED BY <1>2, <1>3

\* The invariant of the values holds at the start,
LEMMA InitValues == Init => ValuesInv
<1> SUFFICES ASSUME Init PROVE ValuesInv
  OBVIOUS
<1>1. DOMAIN result = Calls /\ DOMAIN encoded = Calls /\ Len(file) = 0
  BY DEF Init
<1>2. SeenInv
  BY DEF Init, SeenInv
<1>3. FileInv
  <2>1. 1..Len(file) = {}
    BY <1>1
  <2> QED BY <2>1 DEF FileInv
<1> QED BY <1>1, <1>2, <1>3 DEF ValuesInv

\* A step that leaves the values and the file alone and moves no call back keeps
\* all this.
LEMMA ValuesStay ==
  ASSUME TypeOK, ValuesInv, UNCHANGED <<values, file>>,
         \A c \in Calls : /\ pc'[c] # "new" => c \in DOMAIN session
                          /\ pc'[c] \in {"recording", "encoded", "locked", "half"} =>
                               pc[c] \in {"recording", "encoded", "locked", "half"}
                          /\ pc'[c] \in {"encoded", "locked", "half"} =>
                               pc[c] \in {"encoded", "locked", "half"}
                          /\ pc'[c] \in {"new", "handling", "recording"} =>
                               pc[c] \in {"new", "handling", "recording"}
  PROVE  ValuesInv'
<1>1. /\ session' = session /\ result' = result /\ encoded' = encoded /\ file' = file
      /\ DOMAIN result = Calls /\ DOMAIN encoded = Calls /\ SeenInv /\ FileInv
  BY DEF values, ValuesInv
<1> DEFINE Same(c) == Returned(c)' = Returned(c) /\ RecordOf(c)' = RecordOf(c)
<1>4. \A c : Same(c)
  BY <1>1, SameRecord
<1>2. SeenInv'
  <2> SUFFICES ASSUME NEW d \in Calls
               PROVE  /\ pc'[d] # "new" => d \in DOMAIN session
                      /\ result[d] # None \/ pc'[d] \in {"recording", "encoded", "locked", "half"} =>
                           d \in DOMAIN session /\ result[d] = Returned(d)'
                      /\ pc'[d] \in {"encoded", "locked", "half"} => encoded[d] = RecordOf(d)'
    BY <1>1 DEF SeenInv
  <2>1. Same(d)
    BY <1>4
  <2> QED BY <1>1, <2>1 DEF SeenInv
<1>3. FileInv'
  <2> SUFFICES ASSUME NEW i \in 1..Len(file), NEW d, d = file[i].call PROVE Kept(d)'
    BY <1>1 DEF FileInv
  <2>1. Kept(d) /\ d \in Calls
    BY <1>1, EntryType DEF FileInv
  <2>2. Same(d)
    BY <1>4
  <2> QED BY <1>1, <2>1, <2>2 DEF Kept
<1> QED BY <1>1, <1>2, <1>3 DEF ValuesInv

\* when a handler returns, before anything of its call is in the file,
LEMMA HandleValues == ASSUME TypeOK, ValuesInv, NEW c \in Calls, Handle(c) PROVE ValuesInv'
<1>1. /\ pc[c] = "handling" /\ pc'[c] = "recording" /\ \A d \in Calls : d # c => pc'[d] = pc[d]
      /\ session' = session /\ encoded' = encoded /\ file' = file
  <2>1. Goto(c, "recording") /\ "recording" \in Places
    BY DEF Handle, Places
  <2> QED BY <2>1, GotoType DEF Handle
<1>2. DOMAIN result = Calls /\ DOMAIN encoded = Calls /\ SeenInv /\ FileInv
  BY DEF ValuesInv
<1>3. /\ DOMAIN result' = Calls /\ result'[c] = Returned(c)
      /\ \A d \in Calls : d # c => result'[d] = result[d]
  BY <1>2 DEF Handle
<1>4. c \in DOMAIN session
  BY <1>1, <1>2 DEF SeenInv
<1>5. SeenInv'
  <2> SUFFICES ASSUME NEW d \in Calls
               PROVE  /\ pc'[d] # "new" => d \in DOMAIN session
                      /\ result'[d] # None \/ pc'[d] \in {"recording", "encoded", "locked", "half"} =>
                           d \in DOMAIN session /\ result'[d] = Returned(d)'
                      /\ pc'[d] \in {"encoded", "locked", "half"} => encoded[d] = RecordOf(d)'
    BY <1>1 DEF SeenInv
  <2>3. Returned(d)' = Returned(d) /\ (result'[d] = result[d] => RecordOf(d)' = RecordOf(d))
    BY <1>1, SameRecord
  <2>1. CASE d = c
    BY <1>1, <1>3, <1>4, <2>1, <2>3
  <2>2. CASE d # c
    BY <1>1, <1>2, <1>3, <2>2, <2>3 DEF SeenInv
  <2> QED BY <2>1, <2>2
<1>6. FileInv'
  <2> SUFFICES ASSUME NEW i \in 1..Len(file), NEW d, d = file[i].call PROVE Kept(d)'
    BY <1>1 DEF FileInv
  <2>1. Kept(d) /\ d \in Calls
    BY <1>2, EntryType DEF FileInv
  <2>2. d # c
    BY <1>1, <2>1 DEF Kept
  <2>3. Returned(d)' = Returned(d) /\ (result'[d] = result[d] => RecordOf(d)' = RecordOf(d))
    BY <1>1, SameRecord
  <2> QED BY <1>1, <1>3, <2>1, <2>2, <2>3 DEF Kept
<1> QED BY <1>1, <1>2, <1>3, <1>5, <1>6 DEF ValuesInv

\* when its record is encoded, before any of it is in the file,
LEMMA EncodeValues == ASSUME TypeOK, ValuesInv, NEW c \in Calls, Encode(c) PROVE ValuesInv'
<1> DEFINE place == IF c \in Unencodable THEN "recorded" ELSE "encoded"
<1>1. /\ pc[c] = "recording" /\ pc'[c] = place /\ \A d \in Calls : d # c => pc'[d] = pc[d]
      /\ session' = session /\ result' = result /\ file' = file
  <2>1. Goto(c, place) /\ place \in Places
    BY DEF Encode, Places
  <2> HIDE DEF place
  <2> QED BY <2>1, GotoType DEF Encode
<1>2. DOMAIN result = Calls /\ DOMAIN encoded = Calls /\ SeenInv /\ FileInv
  BY DEF ValuesInv
<1>3. /\ DOMAIN encoded' = Calls /\ (place = "encoded" => encoded'[c] = RecordOf(c))
      /\ \A d \in Calls : d # c => encoded'[d] = encoded[d]
  BY <1>2 DEF Encode
<1>4. SeenInv'
  <2> SUFFICES ASSUME NEW d \in Calls
               PROVE  /\ pc'[d] # "new" => d \in DOMAIN session
                      /\ result[d] # None \/ pc'[d] \in {"recording", "encoded", "locked", "half"} =>
                           d \in DOMAIN session /\ result[d] = Returned(d)'
                      /\ pc'[d] \in {"encoded", "locked", "half"} => encoded'[d] = RecordOf(d)'
    BY <1>1 DEF SeenInv
  <2>3. Returned(d)' = Returned(d) /\ RecordOf(d)' = RecordOf(d)
    BY <1>1, SameRecord
  <2>1. CASE d = c
    BY <1>1, <1>2, <1>3, <2>1, <2>3 DEF SeenInv
  <2>2. CASE d # c
    BY <1>1, <1>2, <1>3, <2>2, <2>3 DEF SeenInv
  <2> QED BY <2>1, <2>2
<1>5. FileInv'
  <2> SUFFICES ASSUME NEW i \in 1..Len(file), NEW d, d = file[i].call PROVE Kept(d)'
    BY <1>1 DEF FileInv
  <2>1. Kept(d) /\ d \in Calls
    BY <1>2, EntryType DEF FileInv
  <2>2. d # c
    BY <1>1, <2>1 DEF Kept
  <2>3. Returned(d)' = Returned(d) /\ (result'[d] = result[d] => RecordOf(d)' = RecordOf(d))
    BY <1>1, SameRecord
  <2> QED BY <1>1, <1>3, <2>1, <2>2, <2>3 DEF Kept
<1> QED BY <1>1, <1>2, <1>3, <1>4, <1>5 DEF ValuesInv

\* A write adds entries of its own call only, which has been encoded.
LEMMA WriteValues ==
  ASSUME IInv, ValuesInv, NEW c \in Calls, WriteBegins(c) \/ WriteEnds(c) PROVE ValuesInv'
<1>1. DOMAIN result = Calls /\ DOMAIN encoded = Calls /\ SeenInv /\ FileInv /\ TypeOK
  BY DEF ValuesInv, IInv
<1>2. /\ pc[c] \in {"locked", "half"} /\ pc'[c] \in {"half", "recorded"}
      /\ \A d \in Calls : d # c => pc'[d] = pc[d]
      /\ session' = session /\ result' = result /\ encoded' = encoded
  <2>1. Goto(c, "half") \/ Goto(c, "recorded")
    BY DEF WriteBegins, WriteEnds
  <2>2. "half" \in Places /\ "recorded" \in Places
    BY DEF Places
  <2>3. pc'[c] \in {"half", "recorded"} /\ \A d \in Calls : d # c => pc'[d] = pc[d]
    BY <1>1, <2>1, <2>2, GotoType
  <2> QED BY <2>3 DEF WriteBegins, WriteEnds, values
<1>3. Kept(c)
  BY <1>1, <1>2 DEF SeenInv, Kept
<1>4. \A d \in Calls : Kept(d) => Kept(d)'
  <2> SUFFICES ASSUME NEW d \in Calls, Kept(d) PROVE Kept(d)'
    OBVIOUS
  <2>1. Returned(d)' = Returned(d) /\ RecordOf(d)' = RecordOf(d)
    BY <1>2, SameRecord
  <2> QED BY <1>2, <2>1 DEF Kept
<1>5. \A i \in 1..Len(file') : file'[i].call = c \/ (i \in 1..Len(file) /\ file'[i].call = file[i].call)
  <2>1. file \in Seq(Entries)
    BY <1>1 DEF TypeOK, Entries
  <2>2. \A part \in {"piece", "whole", "rest"} : Entry(c, part) \in Entries /\ Entry(c, part).call = c
    BY DEF Entry, Entries
  <2>3. ASSUME NEW part \in {"piece", "rest"}, file' = Append(file, Entry(c, part))
        PROVE  \A i \in 1..Len(file') : file'[i].call = c \/ (i \in 1..Len(file) /\ file'[i].call = file[i].call)
    <3>1. /\ Len(file') = Len(file) + 1 /\ Len(file) \in Nat /\ file'[Len(file) + 1] = Entry(c, part)
          /\ \A i \in 1..Len(file) : file'[i] = file[i]
      BY <2>1, <2>2, <2>3, AppendProperties
    <3>2. \A i \in 1..Len(file') : i = Len(file) + 1 \/ i \in 1..Len(file)
      BY <3>1
    <3> QED BY <2>2, <3>1, <3>2
  <2>4. ASSUME file' = [file EXCEPT ![Len(file)] = Entry(c, "whole")]
        PROVE  \A i \in 1..Len(file') : file'[i].call = c \/ (i \in 1..Len(file) /\ file'[i].call = file[i].call)
    <3>1. Len(file') = Len(file) /\ \A i \in 1..Len(file) : i # Len(file) => file'[i] = file[i]
      BY <2>1, <2>4
    <3>2. Len(file) \in 1..Len(file) => file'[Len(file)] = Entry(c, "whole")
      BY <2>1, <2>4
    <3> QED BY <2>2, <3>1, <3>2
  <2>5. CASE WriteBegins(c)
    BY <2>3, <2>5 DEF WriteBegins
  <2>6. CASE WriteEnds(c)
    BY <2>3, <2>4, <2>6 DEF WriteEnds
  <2> QED BY <2>5, <2>6
<1>6. FileInv'
  <2> SUFFICES ASSUME NEW i \in 1..Len(file'), NEW d, d = file'[i].call PROVE Kept(d)'
    BY DEF FileInv
  <2>1. CASE file'[i].call = c
    BY <1>3, <1>4, <2>1
  <2>2. CASE i \in 1..Len(file) /\ file'[i].call = file[i].call
    <3>1. Kept(d) /\ d \in Calls
      BY <1>1, <2>2, EntryType DEF FileInv
    <3> QED BY <1>4, <3>1
  <2> QED BY <1>5, <2>1, <2>2
<1>7. SeenInv'
  <2> SUFFICES ASSUME NEW d \in Calls
               PROVE  /\ pc'[d] # "new" => d \in DOMAIN session
                      /\ result[d] # None \/ pc'[d] \in {"recording", "encoded", "locked", "half"} =>
                           d \in DOMAIN session /\ result[d] = Returned(d)'
                      /\ pc'[d] \in {"encoded", "locked", "half"} => encoded[d] = RecordOf(d)'
    BY <1>2 DEF SeenInv
  <2>3. Returned(d)' = Returned(d) /\ RecordOf(d)' = RecordOf(d)
    BY <1>2, SameRecord
  <2>1. CASE d = c
    BY <1>3, <2>1, <2>3 DEF Kept
  <2>2. CASE d # c
    BY <1>1, <1>2, <2>2, <2>3 DEF SeenInv
  <2> QED BY <2>1, <2>2
<1> QED BY <1>1, <1>2, <1>6, <1>7 DEF ValuesInv

\* and after every step.
LEMMA NextValues == IInv /\ ValuesInv /\ [Next]_vars => ValuesInv'
<1> SUFFICES ASSUME IInv, ValuesInv, [Next]_vars PROVE ValuesInv'
  OBVIOUS
<1>1. TypeOK /\ SeenInv /\ pc \in [Calls -> Places]
  BY DEF IInv, ValuesInv, TypeOK
<1> DEFINE Fine == \A c \in Calls :
             /\ pc'[c] # "new" => c \in DOMAIN session
             /\ pc'[c] \in {"recording", "encoded", "locked", "half"} =>
                  pc[c] \in {"recording", "encoded", "locked", "half"}
             /\ pc'[c] \in {"encoded", "locked", "half"} => pc[c] \in {"encoded", "locked", "half"}
             /\ pc'[c] \in {"new", "handling", "recording"} => pc[c] \in {"new", "handling", "recording"}
<1>2. ASSUME NEW c \in Calls, NEW place \in Places, Goto(c, place),
             \/ place = "handling" /\ pc[c] = "new" /\ c \in DOMAIN session
             \/ place = "locked" /\ pc[c] = "encoded"
             \/ place \in {"recorded", "answered"} /\ pc[c] \in {"locked", "half", "recorded"}
      PROVE  Fine
  <2>1. pc'[c] = place /\ \A d \in Calls : d # c => pc'[d] = pc[d]
    BY <1>1, <1>2, GotoType
  <2>2. \A d \in Calls : pc[d] # "new" => d \in DOMAIN session
    BY <1>1 DEF SeenInv
  <2> SUFFICES ASSUME NEW d \in Calls
               PROVE  /\ pc'[d] # "new" => d \in DOMAIN session
                      /\ pc'[d] \in {"recording", "encoded", "locked", "half"} =>
                           pc[d] \in {"recording", "encoded", "locked", "half"}
                      /\ pc'[d] \in {"encoded", "locked", "half"} => pc[d] \in {"encoded", "locked", "half"}
                      /\ pc'[d] \in {"new", "handling", "recording"} => pc[d] \in {"new", "handling", "recording"}
    OBVIOUS
  <2>3. CASE d = c
    BY <1>2, <2>1, <2>2, <2>3
  <2>4. CASE d # c
    BY <2>1, <2>2, <2>4
  <2> QED BY <2>3, <2>4
<1>3. UNCHANGED <<values, file>> /\ Fine => ValuesInv'
  BY <1>1, ValuesStay
<1>4. UNCHANGED pc => Fine
  BY <1>1 DEF SeenInv
<1>5. {"handling", "locked", "recorded", "answered"} \subseteq Places
  BY DEF Places
<1>6. ASSUME NEW c \in Calls, CallStep(c) PROVE ValuesInv'
  <2>1. CASE Start(c)
    <3>1. Fine
      BY <1>2, <1>5, <2>1 DEF Start
    <3> QED BY <1>3, <2>1, <3>1 DEF Start
  <2>2. CASE Handle(c)
    BY <1>1, <2>2, HandleValues
  <2>3. CASE Encode(c)
    BY <1>1, <2>3, EncodeValues
  <2>4. CASE Lock(c)
    <3>1. Fine
      BY <1>2, <1>5, <2>4 DEF Lock
    <3> QED BY <1>3, <2>4, <3>1 DEF Lock
  <2>5. CASE WriteBegins(c) \/ WriteEnds(c)
    BY <2>5, WriteValues
  <2>6. CASE WriteDiscarded(c) \/ WriteFails(c)
    <3>1. Goto(c, "recorded") /\ pc[c] \in {"locked", "half"} /\ UNCHANGED <<values, file>>
      BY <2>6 DEF WriteDiscarded, WriteFails
    <3>2. Fine
      BY <1>2, <1>5, <3>1
    <3> QED BY <1>3, <3>1, <3>2
  <2>7. CASE Answer(c)
    <3>1. Fine
      BY <1>2, <1>5, <2>7 DEF Answer
    <3> QED BY <1>3, <2>7, <3>1 DEF Answer
  <2> QED BY <1>6, <2>1, <2>2, <2>3, <2>4, <2>5, <2>6, <2>7 DEF CallStep, Write
<1>7. CASE Restart
  <2>1. \A c \in Calls : pc'[c] = IF pc[c] \notin {"new", "answered", "dead"} THEN "dead" ELSE pc[c]
    BY <1>7 DEF Restart, Alive
  <2>2. UNCHANGED <<values, file>>
    BY <1>7 DEF Restart, NewRecorder
  <2>3. Fine
    BY <1>1, <2>1 DEF SeenInv
  <2> QED BY <1>3, <2>2, <2>3
<1>8. CASE RunReturns \/ CloseRecorder \/ DiskFails \/ DiskMends \/ UNCHANGED vars
  <2>1. UNCHANGED <<values, file>> /\ UNCHANGED pc
    BY <1>8 DEF RunReturns, CloseRecorder, DiskFails, DiskMends, vars, values
  <2> QED BY <1>3, <1>4, <2>1
<1> QED BY <1>6, <1>7, <1>8 DEF Next

\* What a call shows is the walk of the object it asked for or the error it met,
\* and what the file holds of it is its arguments and that, masked, whatever the
\* interleaving, Close, the disk and the restarts.
THEOREM ValuesInvariant == Spec => []ValuesInv
<1>1. Init => ValuesInv
  BY InitValues
<1>2. IInv /\ ValuesInv /\ [Next]_vars => ValuesInv'
  BY NextValues
<1> QED BY <1>1, <1>2, RecorderInvariant, PTL DEF Spec

\* With what redact.go makes of any document, the values are as they should be,
LEMMA ViewWithholdsHolds == ASSUME TypeOK, ValuesInv PROVE ViewWithholds
<1> SUFFICES ASSUME NEW c \in Calls, Handled(c), ~Failed(c), NEW o, o = session[c].object
             PROVE  /\ DOMAIN result[c].f = {"kind", "spec"} \cap DOMAIN o.f
                    /\ "spec" \in DOMAIN o.f => WithheldExactly(o.f["spec"], result[c].f["spec"])
  BY DEF ViewWithholds
<1>1. c \in DOMAIN session /\ result[c] = View(o) /\ session \in Sessions /\ session[c].error = None
  BY DEF ValuesInv, SeenInv, Handled, TypeOK, Returned, Failed
<1>2. IsMap(o) /\ IsDocument(o) /\ result[c] = ResourceView(o)
  BY <1>1, HandlerAssumption
<1>3. /\ DOMAIN ResourceView(o).f = {"kind", "spec"} \cap DOMAIN o.f
      /\ "spec" \in DOMAIN o.f => WithheldExactly(o.f["spec"], ResourceView(o).f["spec"])
  BY <1>2, ViewDocument
<1> QED BY <1>2, <1>3

\* a text is masked as any document of one string,
LEMMA TextMasks ==
  ASSUME NEW v, IsString(v), IsDocument(v) PROVE MaskedExactly(v, ScrubSecrets(v))
<1>1. PICK mask : IsMask(mask, v)
  BY MaskOf
<1>2. IsLeaf(v) /\ v.t = "leaf"
  BY DEF IsString, IsLeaf
<1>3. RedactValue(v) = ScrubSecrets(v)
  <2>1. /\ <<>> \in Paths(v) /\ At(v, <<>>) = v
    BY DocumentPaths, AtRoot
  <2>2. mask[v] = MaskPart(mask, v) /\ RedactValue(v) = mask[v]
    BY <1>1, <2>1 DEF IsMask
  <2> QED BY <1>2, <2>2 DEF MaskPart, IsMap, IsLeaf
<1> QED BY <1>3, MasksExactly

\* and so are the records.
LEMMA LogMasksHolds == ASSUME TypeOK, ValuesInv PROVE LogMasks
<1> SUFFICES ASSUME NEW i \in DOMAIN file, NEW c, c = file[i].call
             PROVE  /\ MaskedExactly(session[c].input, encoded[c].input)
                    /\ IF Failed(c)
                       THEN encoded[c].output = None /\ MaskedExactly(result[c], encoded[c].error)
                       ELSE encoded[c].error = None /\ MaskedExactly(result[c], encoded[c].output)
  BY DEF LogMasks
<1>1. i \in 1..Len(file)
  BY LenProperties DEF TypeOK
<1>2. /\ c \in DOMAIN session /\ session \in Sessions
      /\ result[c] = Returned(c) /\ encoded[c] = RecordOf(c)
  BY <1>1 DEF ValuesInv, FileInv, Kept, TypeOK
<1>3. MaskedExactly(session[c].input, encoded[c].input)
  <2>1. IsDocument(session[c].input) /\ Prepare(session[c].input) = RedactValue(session[c].input)
    BY <1>2, HandlerAssumption
  <2>2. encoded[c].input = Prepare(session[c].input)
    BY <1>2 DEF RecordOf
  <2> QED BY <2>1, <2>2, MasksExactly
<1>4. CASE Failed(c)
  <2>1. /\ result[c] = session[c].error
        /\ encoded[c].output = None /\ encoded[c].error = Scrub(session[c].error)
    BY <1>2, <1>4 DEF RecordOf, Returned
  <2>2. /\ IsString(session[c].error) /\ IsDocument(session[c].error)
        /\ Scrub(session[c].error) = ScrubSecrets(session[c].error)
    BY <1>2, <1>4, HandlerAssumption DEF Failed
  <2>3. MaskedExactly(session[c].error, Scrub(session[c].error))
    BY <2>2, TextMasks
  <2> QED BY <1>3, <1>4, <2>1, <2>3
<1>5. CASE ~Failed(c)
  <2>1. /\ result[c] = View(session[c].object)
        /\ encoded[c].error = None /\ encoded[c].output = Prepare(View(session[c].object))
    BY <1>2, <1>5 DEF RecordOf, Returned
  <2>2. /\ IsMap(session[c].object) /\ IsDocument(session[c].object)
        /\ result[c] = ResourceView(session[c].object) /\ encoded[c].output = RedactValue(result[c])
    BY <1>2, <1>5, <2>1, HandlerAssumption DEF Failed
  <2>3. IsDocument(result[c])
    BY <2>2, ViewDocument
  <2>4. MaskedExactly(result[c], encoded[c].output)
    BY <2>2, <2>3, MasksExactly
  <2> QED BY <1>3, <1>5, <2>1, <2>4
<1> QED BY <1>4, <1>5

\* No call shows a value of an embedded Secret, kubectl's copy or a write-only
\* argument, and every other value as it is: for any objects and nesting, at any
\* moment of any session.
THEOREM ViewsWithhold == Spec => []ViewWithholds
<1>1. TypeOK /\ ValuesInv => ViewWithholds
  BY ViewWithholdsHolds
<1> QED BY <1>1, RecorderTypes, ValuesInvariant, PTL

\* No entry of the file shows, in the arguments or in the answer, a scalar under
\* a sensitive key or beside a sensitive name, nor a secret shape there or in the
\* error of a call that failed, and every entry shows all the rest.
THEOREM LogsMask == Spec => []LogMasks
<1>1. TypeOK /\ ValuesInv => LogMasks
  BY LogMasksHolds
<1> QED BY <1>1, RecorderTypes, ValuesInvariant, PTL
=============================================================================
