---------------------------- MODULE DiscoveryProofs ----------------------------
(***************************************************************************)
(* For any callers, CRDs and outages: a kind that was served long enough   *)
(* is reported missing only for one of three excuses, and the calls that   *)
(* miss at once share their re-discoveries.                                *)
(***************************************************************************)
EXTENDS Discovery, TLAPS

Types ==
  /\ served \subseteq CRDs
  /\ servedFor \in [CRDs -> 0..Interval]
  /\ \A c \in CRDs : c \notin served => servedFor[c] = 0
  /\ cache \in Cache
  /\ since \in 0..Interval
  /\ calls \in [Callers -> Call]
  /\ burst \in Nat

\* r can be found in the snapshot, or its list is one that failed.
Covered(c, r) == r \in c.found \/ r.gv \in c.failed

\* A snapshot is no older than the last drop of the cache, so it has what was
\* served before that.
CacheCovers ==
  cache.valid => \A r \in ServedNow : servedFor[r.crd] > since => Covered(cache, r)

Long == {c \in served : servedFor[c] = Interval}

\* The call asks for something that was served long enough.
Wanted(call) == \E r \in Resources : r.crd \in call.long /\ Asked(call.query, r)

\* A call that missed what it asks for though nothing was degraded drops the
\* cache next, unless another call does.
MissedOK(call) ==
  (call.pc = "missed" /\ Wanted(call)) =>
    Excused(call) \/ call.overtaken \/ since = Interval

\* Once it has dropped the cache it cannot miss that again, however much later
\* it looks.
RescanOK(call) ==
  (call.pc = "rescan" /\ cache.valid) =>
    \A r \in Resources : r.crd \in call.long => Covered(cache, r)

\* A call that is over is what NoUnexcusedMiss asks for.
DoneOK(call) == Overlooked(call) => Excused(call) \/ call.overtaken

CallOK(call) == call.long \subseteq Long /\ MissedOK(call) /\ RescanOK(call) /\ DoneOK(call)
CallsInv == \A p \in Callers : CallOK(calls[p])

\* An invalid cache and an interval that is over are one re-discovery each.
BurstInv ==
  burst + (IF cache.valid THEN 0 ELSE 1) + (IF since = Interval THEN 1 ELSE 0) <= 2

IInv == Types /\ CacheCovers /\ CallsInv /\ BurstInv

-----------------------------------------------------------------------------
(* One read, one scan.                                                     *)

\* What is covered stays covered by a read, and a cache that is filled covers
\* all that is served.
LEMMA ReadCovers ==
  ASSUME Types
  PROVE  /\ Read(cache) \in Cache
         /\ cache.valid => Read(cache).valid
         /\ \A r \in ServedNow :
              (Read(cache).valid /\ (cache.valid => Covered(cache, r))) => Covered(Read(cache), r)
<1>1. CASE cache.valid
  <2> DEFINE c == Read(cache)
  <2>1. /\ c.valid /\ c.failed = cache.failed \cap down
        /\ c.found = cache.found \cup {r \in ServedNow : r.gv \in cache.failed \ down}
        /\ c \in Cache
    BY <1>1 DEF Types, Cache, Read, ServedNow
  <2>2. \A r \in ServedNow : Covered(cache, r) => Covered(c, r)
    BY <2>1 DEF Covered
  <2> QED BY <1>1, <2>1, <2>2
<1>2. CASE ~cache.valid /\ "server" \in down
  BY <1>2 DEF Types, Read
<1>3. CASE ~cache.valid /\ "server" \notin down
  <2> DEFINE c == Read(cache)
  <2>1. c = [valid |-> TRUE, failed |-> {r.gv : r \in ServedNow} \cap down,
             found |-> {r \in ServedNow : r.gv \notin down}]
    BY <1>3 DEF Read
  <2>2. c \in Cache
    BY <2>1 DEF Cache, Versions, ServedNow
  <2>3. \A r \in ServedNow : Covered(c, r)
    BY <2>1 DEF Covered
  <2> QED BY <1>3, <2>2, <2>3
<1> QED BY <1>1, <1>2, <1>3

\* A scan of a snapshot that covers all the versions of what it looks for finds
\* it, or meets a list that failed.
LEMMA ScanFinds ==
  ASSUME NEW c \in Cache, NEW q, NEW crds,
         \A r \in Resources : r.crd \in crds => Covered(c, r),
         NEW r0 \in Resources, r0.crd \in crds, Asked(q, r0),
         Attempt(q, c).status = "missing"
  PROVE  Attempt(q, c).partial
<1> SUFFICES ASSUME c.failed = {} PROVE FALSE
  BY DEF Attempt
<1>1. Matches(q, c.found) = {}
  BY DEF Attempt
<1>2. PICK s \in Resources : s \in View(q, c.found) /\ s.kind = r0.kind /\ s.names = r0.names
  <2>1. CASE q.gv = ""
    BY <2>1, PreferredAssumption DEF View, Covered
  <2>2. CASE q.gv # ""
    BY <2>2 DEF View, Covered, Asked
  <2> QED BY <2>1, <2>2
<1>3. s \in Matches(q, c.found) \/ Matches(q, c.found) # {}
  BY <1>2 DEF Matches, Asked
<1> QED BY <1>1, <1>3

-----------------------------------------------------------------------------
(* What a step does to the cache, and what it does to the calls.           *)

\* A step that may read the cache, at one moment.
Reads ==
  /\ UNCHANGED <<served, servedFor, since>>
  /\ \/ UNCHANGED <<cache, burst>>
     \/ cache' = Read(cache) /\ burst' = burst + Rediscovered(cache)

\* Reading through the cache keeps it covering, and what it covered covered.
LEMMA ReadKeeps ==
  ASSUME IInv, Reads
  PROVE  /\ cache' \in Cache /\ burst' \in Nat /\ CacheCovers' /\ BurstInv'
         /\ \A r \in ServedNow : (cache.valid => Covered(cache, r)) /\ cache'.valid => Covered(cache', r)
<1>1. CASE UNCHANGED <<cache, burst>>
  BY <1>1 DEF IInv, Types, Reads, CacheCovers, BurstInv, ServedNow, Covered
<1>2. CASE cache' = Read(cache) /\ burst' = burst + Rediscovered(cache)
  <2>1. cache' \in Cache /\ (cache.valid => cache'.valid)
    BY <1>2, ReadCovers DEF IInv
  <2>2. \A r \in ServedNow : (cache.valid => Covered(cache, r)) /\ cache'.valid => Covered(cache', r)
    BY <1>2, ReadCovers DEF IInv
  <2>3. CacheCovers'
    BY <2>2 DEF IInv, Reads, CacheCovers, ServedNow
  <2>4. cache.valid \in BOOLEAN /\ cache'.valid \in BOOLEAN /\ burst \in Nat
    BY <2>1 DEF IInv, Types, Cache
  <2>5. burst' = burst + (IF ~cache.valid /\ cache'.valid THEN 1 ELSE 0)
    BY <1>2 DEF Rediscovered
  <2>6. BurstInv' /\ burst' \in Nat
    BY <2>1, <2>4, <2>5 DEF IInv, BurstInv, Reads
  <2> QED BY <2>1, <2>2, <2>3, <2>6
<1> QED BY <1>1, <1>2 DEF Reads

\* The other calls do not notice a read.
LEMMA OneCall ==
  ASSUME IInv, Reads, NEW p \in Callers, calls' \in [Callers -> Call],
         \A o \in Callers : o # p => calls'[o] = calls[o], CallOK(calls[p])'
  PROVE  IInv'
<1>1. Types'
  BY ReadKeeps DEF IInv, Types, Reads
<1>2. CallsInv'
  <2> SUFFICES ASSUME NEW o \in Callers, o # p PROVE CallOK(calls[o])'
    BY DEF CallsInv
  <2>1. calls'[o] = calls[o] /\ CallOK(calls[o])
    BY DEF IInv, CallsInv
  <2>2. RescanOK(calls[o])'
    <3> SUFFICES ASSUME calls[o].pc = "rescan", cache'.valid,
                        NEW r \in Resources, r.crd \in calls[o].long
                 PROVE  Covered(cache', r)
      BY <2>1 DEF RescanOK
    <3>1. r \in ServedNow
      BY <2>1 DEF CallOK, Long, ServedNow
    <3>2. cache.valid => Covered(cache, r)
      BY <2>1 DEF CallOK, RescanOK
    <3> QED BY <3>1, <3>2, ReadKeeps
  <2>3. /\ calls'[o].long \subseteq Long' /\ MissedOK(calls[o])' /\ DoneOK(calls[o])'
    BY <2>1 DEF CallOK, Long, MissedOK, DoneOK, Reads, Wanted, Overlooked, Missed, Excused, Degraded
  <2> QED BY <2>2, <2>3 DEF CallOK
<1> QED BY <1>1, <1>2, ReadKeeps DEF IInv

\* A call that is idle, or about to be looked up or scanned, owes nothing.
LEMMA Unconcerned ==
  ASSUME NEW p \in Callers, calls'[p].long \subseteq Long',
         calls'[p].pc \notin {"missed", "rescan"}, ~Missed(calls[p])'
  PROVE  CallOK(calls[p])'
BY DEF CallOK, MissedOK, RescanOK, DoneOK, Overlooked

\* A caller that asks for nothing has missed nothing.
LEMMA IdleCall == Idle \in Call /\ Idle.long = {} /\ Idle.pc = "done" /\ ~Missed(Idle)
<1>1. (CHOOSE q \in Queries : TRUE) \in Queries
  BY QueriesAssumption
<1> QED BY <1>1 DEF Idle, Call, NoAnswer, Answer, Missed

-----------------------------------------------------------------------------
(* The steps.                                                              *)

\* A step of one caller changes that caller alone.
LEMMA Changed ==
  ASSUME IInv, NEW p \in Callers, NEW X \in Call, calls' = [calls EXCEPT ![p] = X]
  PROVE  /\ calls' \in [Callers -> Call] /\ calls'[p] = X
         /\ \A o \in Callers : o # p => calls'[o] = calls[o]
BY DEF IInv, Types

\* A call that returns, but for a miss.
LEMMA ReturnStep ==
  ASSUME IInv, Reads, NEW p \in Callers, calls' = [calls EXCEPT ![p] = Idle]
  PROVE  IInv'
<1>1. /\ calls' \in [Callers -> Call] /\ calls'[p] = Idle
      /\ \A o \in Callers : o # p => calls'[o] = calls[o]
  BY IdleCall, Changed
<1>2. CallOK(calls[p])'
  BY <1>1, IdleCall, Unconcerned DEF Missed
<1> QED BY <1>1, <1>2, OneCall

\* An answer "missing" is given with an excuse.
LEMMA ReportStep ==
  ASSUME IInv, Reads, NEW p \in Callers, NEW X \in Call, X.long = calls[p].long,
         NEW a \in Answer, calls' = [calls EXCEPT ![p] = Returned(X, a)],
         Reported(X, a).status = "missing" /\ Wanted(X) => Excused(X) \/ X.overtaken
  PROVE  IInv'
<1> DEFINE b == Reported(X, a)
           Y == [X EXCEPT !.pc = "done", !.answer = b]
<1>1. CASE b.status # "missing"
  <2>1. calls' = [calls EXCEPT ![p] = Idle]
    BY <1>1 DEF Returned
  <2> QED BY <2>1, ReturnStep
<1>2. CASE b.status = "missing"
  <2>1. calls' = [calls EXCEPT ![p] = Y]
    BY <1>2 DEF Returned
  <2>2. b \in Answer
    BY DEF Reported, Call
  <2>3. /\ Y \in Call /\ Y.pc = "done" /\ Y.long = X.long /\ Y.query = X.query
        /\ Y.scanned = X.scanned /\ Y.overtaken = X.overtaken
    BY <2>2 DEF Call
  <2>4. /\ calls' \in [Callers -> Call] /\ calls'[p] = Y
        /\ \A o \in Callers : o # p => calls'[o] = calls[o]
    BY <2>1, <2>3, Changed
  <2> HIDE DEF Y
  <2>5. Wanted(Y) => Excused(Y) \/ Y.overtaken
    BY <1>2, <2>3 DEF Wanted, Excused, Degraded
  <2>6. calls[p].long \subseteq Long
    BY DEF IInv, CallsInv, CallOK
  <2>7. DoneOK(calls[p])'
    BY <2>4, <2>5 DEF DoneOK, Overlooked, Wanted, Excused, Degraded
  <2>8. CallOK(calls[p])'
    BY <2>3, <2>4, <2>6, <2>7 DEF CallOK, Long, MissedOK, RescanOK, Reads
  <2> QED BY <2>4, <2>8, OneCall
<1> QED BY <1>1, <1>2

\* A call that starts,
LEMMA ResolveStep ==
  ASSUME IInv, NEW p \in Callers, NEW q \in Queries, Resolve(p, q)
  PROVE  IInv'
<1> DEFINE X == [pc |-> IF q.gv = "" THEN "scan" ELSE "lookup", query |-> q, answer |-> NoAnswer,
                 scanned |-> NoAnswer, long |-> {c \in served : servedFor[c] = Interval},
                 overtaken |-> FALSE]
<1>1. X \in Call /\ X.pc \in {"scan", "lookup"} /\ X.long = Long
  BY DEF IInv, Types, Call, NoAnswer, Answer, Long
<1>2. Reads /\ calls' = [calls EXCEPT ![p] = X] /\ Long' = Long
  BY DEF Resolve, Reads, Long
<1>3. /\ calls' \in [Callers -> Call] /\ calls'[p] = X
      /\ \A o \in Callers : o # p => calls'[o] = calls[o]
  BY <1>1, <1>2, Changed
<1> HIDE DEF X
<1>4. CallOK(calls[p])'
  BY <1>1, <1>2, <1>3, Unconcerned DEF Missed
<1> QED BY <1>2, <1>3, <1>4, OneCall

\* one that looks its version up,
LEMMA LookupStep ==
  ASSUME IInv, NEW p \in Callers, RESTMapping(p)
  PROVE  IInv'
<1>1. Reads
  <2>1. /\ UNCHANGED <<served, servedFor, since>>
        /\ \/ cache' = cache /\ burst' = burst + 0
           \/ cache' = Read(cache) /\ burst' = burst + Rediscovered(cache)
    BY Zenon DEF RESTMapping
  <2>2. burst + 0 = burst
    BY DEF IInv, Types
  <2> QED BY <2>1, <2>2 DEF Reads
<1>2. calls[p] \in Call /\ CallOK(calls[p])
  BY DEF IInv, Types, CallsInv
<1>3. ASSUME NEW s \in {"missing", "unavailable"},
             calls' = [calls EXCEPT ![p] =
               [calls[p] EXCEPT !.pc = "scan", !.answer = [status |-> s, partial |-> FALSE]]]
      PROVE  IInv'
  <2> DEFINE X == [calls[p] EXCEPT !.pc = "scan", !.answer = [status |-> s, partial |-> FALSE]]
  <2>1. X \in Call /\ X.pc = "scan" /\ X.long = calls[p].long
    BY <1>2 DEF Call, Answer
  <2>2. /\ calls' \in [Callers -> Call] /\ calls'[p] = X
        /\ \A o \in Callers : o # p => calls'[o] = calls[o]
    BY <1>3, <2>1, Changed
  <2> HIDE DEF X
  <2>3. CallOK(calls[p])'
    BY <1>1, <1>2, <2>1, <2>2, Unconcerned DEF CallOK, Long, Reads, Missed
  <2> QED BY <1>1, <2>2, <2>3, OneCall
<1>4. CASE calls' = [calls EXCEPT ![p] = Idle]
  BY <1>1, <1>4, ReturnStep
<1>5. \/ calls' = [calls EXCEPT ![p] = Idle]
      \/ \E s \in {"missing", "unavailable"} :
           calls' = [calls EXCEPT ![p] =
             [calls[p] EXCEPT !.pc = "scan", !.answer = [status |-> s, partial |-> FALSE]]]
  BY DEF RESTMapping
<1> QED BY <1>3, <1>4, <1>5

\* An attempt answers, and says missing only of a cache that was filled.
LEMMA AttemptType ==
  ASSUME NEW q, NEW c \in Cache
  PROVE  /\ Attempt(q, c) \in Answer
         /\ Attempt(q, c).status = "missing" => c.valid
         /\ Attempt(q, c).status \in {"found", "missing", "ambiguous", "unavailable"}
BY DEF Attempt, Answer, Cache

\* An error other than a plain miss is an excuse of its own.
LEMMA OtherError ==
  ASSUME NEW X, X.scanned.status \in {"found", "missing", "ambiguous", "unavailable"},
         X.scanned.status # "missing", Reported(X, X.scanned).status = "missing"
  PROVE  Excused(X)
BY DEF Reported, Excused, Degraded

\* A scan soon after the last drop misses nothing that was served long enough.
LEMMA ScanStep ==
  ASSUME IInv, NEW p \in Callers, ScanForKind(p)
  PROVE  IInv'
<1> DEFINE c == Read(cache)
           a == Attempt(calls[p].query, c)
           X == [calls[p] EXCEPT !.scanned = a]
           Y == [X EXCEPT !.pc = "missed", !.answer = Reported(X, a)]
<1>1. Reads /\ cache' = c
  BY DEF ScanForKind, Reads
<1>2. calls[p] \in Call /\ CallOK(calls[p])
  BY DEF IInv, Types, CallsInv
<1>3. c \in Cache
  BY ReadCovers DEF IInv
<1>4. a \in Answer /\ a.status \in {"found", "missing", "ambiguous", "unavailable"}
  BY <1>3, AttemptType
<1>5. /\ X \in Call /\ X.scanned = a /\ X.long = calls[p].long
      /\ X.query = calls[p].query /\ X.overtaken = calls[p].overtaken
  BY <1>2, <1>4 DEF Call
<1>6. CASE a.status # "missing"
  <2>1. calls' = [calls EXCEPT ![p] = Returned(X, a)]
    BY <1>6 DEF ScanForKind
  <2> HIDE DEF X, a
  <2>2. Reported(X, a).status = "missing" => Excused(X)
    BY <1>4, <1>5, <1>6, OtherError
  <2> QED BY <1>1, <1>4, <1>5, <2>1, <2>2, ReportStep
<1>7. CASE a.status = "missing"
  <2>1. calls' = [calls EXCEPT ![p] = Y]
    BY <1>7 DEF ScanForKind
  <2>2. /\ Y \in Call /\ Y.pc = "missed" /\ Y.scanned = a
        /\ Y.long = calls[p].long /\ Y.query = calls[p].query
    <3>1. Reported(X, a) \in Answer
      BY <1>4, <1>5 DEF Reported, Call
    <3> HIDE DEF X
    <3> QED BY <1>5, <3>1 DEF Call
  <2>3. /\ calls' \in [Callers -> Call] /\ calls'[p] = Y
        /\ \A o \in Callers : o # p => calls'[o] = calls[o]
    BY <2>1, <2>2, Changed
  <2> HIDE DEF X, Y
  <2>4. MissedOK(calls[p])'
    <3> SUFFICES ASSUME NEW r0 \in Resources, r0.crd \in Y.long, Asked(Y.query, r0), since < Interval
                 PROVE  a.partial
      <4>1. since' < Interval \/ since' = Interval
        BY <1>1, IntervalAssumption DEF Reads, IInv, Types
      <4> QED BY <1>1, <2>2, <2>3, <4>1 DEF MissedOK, Wanted, Reads, Excused, Degraded
    <3>1. c.valid
      BY <1>3, <1>7, AttemptType
    <3>2. \A r \in Resources : r.crd \in Y.long => Covered(c, r)
      BY <1>1, <1>2, <2>2, <3>1, ReadKeeps DEF CacheCovers, CallOK, Long, ServedNow, Reads
    <3> QED BY <1>3, <1>7, <2>2, <3>2, ScanFinds
  <2>5. CallOK(calls[p])'
    BY <1>1, <1>2, <2>2, <2>3, <2>4 DEF CallOK, Long, RescanOK, DoneOK, Overlooked, Missed, Reads
  <2> QED BY <1>1, <2>3, <2>5, OneCall
<1> QED BY <1>6, <1>7

\* A call that is refused its turn has its excuse already.
LEMMA RefusedStep ==
  ASSUME IInv, NEW p \in Callers, InvalidateDiscoveryOnce(p), since < Interval
  PROVE  IInv'
<1> DEFINE X == calls[p]
<1>1. /\ Reads /\ X.pc = "missed"
      /\ calls' = [calls EXCEPT ![p] = Returned(X, X.answer)]
  BY DEF InvalidateDiscoveryOnce, Reads, IInv, Types
<1>2. X \in Call /\ X.answer \in Answer /\ CallOK(X)
  BY DEF IInv, Types, CallsInv, Call
<1>3. Wanted(X) => Excused(X) \/ X.overtaken
  BY <1>1, <1>2 DEF CallOK, MissedOK, IInv, Types
<1> HIDE DEF X
<1> QED BY <1>1, <1>2, <1>3, ReportStep DEF X

\* the first drop in an interval,
LEMMA DropStep ==
  ASSUME IInv, NEW p \in Callers, InvalidateDiscoveryOnce(p), since = Interval
  PROVE  IInv'
<1>1. /\ cache' = Empty /\ ~cache'.valid /\ cache' \in Cache /\ since' = 0
      /\ UNCHANGED <<served, servedFor, burst>>
  <2>1. DropCache(p) /\ since' = 0 /\ UNCHANGED <<served, servedFor, burst>>
    <3>1. ~(since < Interval)
      BY IntervalAssumption
    <3> QED BY <3>1 DEF InvalidateDiscoveryOnce
  <2> QED BY <2>1 DEF DropCache, Empty, Cache
<1>2. /\ calls' \in [Callers -> Call]
      /\ \A o \in Callers : /\ calls'[o].long = calls[o].long /\ calls'[o].answer = calls[o].answer
                            /\ calls'[o].query = calls[o].query /\ calls'[o].scanned = calls[o].scanned
                            /\ calls'[o].pc = "missed" => calls'[o].overtaken
                            /\ calls'[o].pc = "done" => calls'[o] = calls[o]
  <2>1. calls' = [o \in Callers |->
          IF o = p THEN [calls[o] EXCEPT !.pc = "rescan"]
          ELSE IF calls[o].pc = "missed" THEN [calls[o] EXCEPT !.overtaken = TRUE]
          ELSE calls[o]]
    BY IntervalAssumption DEF InvalidateDiscoveryOnce, DropCache
  <2>2. \A o \in Callers : calls[o] \in Call
    BY DEF IInv, Types
  <2>3. SUFFICES ASSUME NEW o \in Callers
        PROVE /\ calls'[o] \in Call
              /\ calls'[o].long = calls[o].long /\ calls'[o].answer = calls[o].answer
              /\ calls'[o].query = calls[o].query /\ calls'[o].scanned = calls[o].scanned
              /\ calls'[o].pc = "missed" => calls'[o].overtaken
              /\ calls'[o].pc = "done" => calls'[o] = calls[o]
    BY <2>1
  <2>4. CASE o = p
    BY <2>1, <2>2, <2>4 DEF Call
  <2>5. CASE o # p /\ calls[o].pc = "missed"
    BY <2>1, <2>2, <2>5 DEF Call
  <2>6. CASE o # p /\ calls[o].pc # "missed"
    BY <2>1, <2>2, <2>6
  <2> QED BY <2>4, <2>5, <2>6
<1>3. Types' /\ CacheCovers' /\ BurstInv'
  <2>1. Types'
    BY <1>1, <1>2, IntervalAssumption DEF IInv, Types
  <2>2. CacheCovers'
    BY <1>1 DEF CacheCovers
  <2>3. BurstInv'
    BY <1>1, IntervalAssumption DEF IInv, Types, Cache, BurstInv
  <2> QED BY <2>1, <2>2, <2>3
<1>4. CallsInv'
  BY <1>1, <1>2 DEF IInv, CallsInv, CallOK, Long, MissedOK, RescanOK, DoneOK, Overlooked, Missed, Excused, Degraded
<1> QED BY <1>3, <1>4 DEF IInv

\* the scan after it,
LEMMA RescanStep ==
  ASSUME IInv, NEW p \in Callers, Rescan(p)
  PROVE  IInv'
<1> DEFINE c == Read(cache)
           a == Attempt(calls[p].query, c)
           X == [calls[p] EXCEPT !.scanned = a]
           e == IF a.status = "missing" THEN X.answer ELSE a
<1>1. /\ Reads /\ cache' = c /\ calls' = [calls EXCEPT ![p] = Returned(X, e)]
  BY DEF Rescan, Reads
<1>2. calls[p] \in Call /\ CallOK(calls[p]) /\ calls[p].pc = "rescan"
  BY DEF IInv, Types, CallsInv, Rescan
<1>3. c \in Cache
  BY ReadCovers DEF IInv
<1>4. a \in Answer /\ a.status \in {"found", "missing", "ambiguous", "unavailable"}
  BY <1>3, AttemptType
<1>5. /\ X \in Call /\ X.scanned = a /\ X.long = calls[p].long /\ X.query = calls[p].query
      /\ X.answer \in Answer
  BY <1>2, <1>4 DEF Call
<1> HIDE DEF X, c
<1>6. Reported(X, e).status = "missing" /\ Wanted(X) => Excused(X)
  <2>1. CASE a.status = "missing"
    <3> SUFFICES ASSUME NEW r0 \in Resources, r0.crd \in X.long, Asked(X.query, r0)
                 PROVE  a.partial
      BY <1>5 DEF Excused, Degraded, Wanted
    <3>1. c.valid
      BY <1>3, <2>1, AttemptType
    <3>2. \A r \in Resources : r.crd \in X.long => Covered(c, r)
      BY <1>1, <1>2, <1>5, <3>1, ReadKeeps DEF RescanOK, CallOK, Long, ServedNow
    <3> QED BY <1>3, <1>5, <2>1, <3>2, ScanFinds
  <2>2. CASE a.status # "missing"
    <3> HIDE DEF a
    <3> QED BY <1>4, <1>5, <2>2, OtherError
  <2> QED BY <2>1, <2>2
<1>7. e \in Answer
  BY <1>4, <1>5
<1> HIDE DEF e
<1> QED BY <1>1, <1>5, <1>6, <1>7, ReportStep

\* the time that passes,
LEMMA TickStep == IInv /\ Tick => IInv'
<1> SUFFICES ASSUME IInv, Tick PROVE IInv'
  OBVIOUS
<1>1. /\ UNCHANGED <<served, cache, calls>> /\ burst' = 0
      /\ since' = IF since < Interval THEN since + 1 ELSE since
      /\ since \in 0..Interval /\ since' \in 0..Interval /\ since <= since'
  BY IntervalAssumption DEF Tick, IInv, Types
<1>2. \A c \in CRDs :
        /\ servedFor[c] \in 0..Interval
        /\ servedFor'[c] = IF c \in served /\ servedFor[c] < Interval THEN servedFor[c] + 1 ELSE servedFor[c]
  BY DEF Tick, IInv, Types
<1>3. Types'
  <2>1. servedFor' \in [CRDs -> 0..Interval]
    BY <1>2, IntervalAssumption DEF Tick
  <2>2. \A c \in CRDs : c \notin served' => servedFor'[c] = 0
    BY <1>1, <1>2 DEF IInv, Types
  <2> QED BY <1>1, <2>1, <2>2 DEF IInv, Types
<1>4. CacheCovers'
  <2> SUFFICES ASSUME cache.valid, NEW r \in ServedNow, servedFor'[r.crd] > since'
               PROVE  Covered(cache, r)
    BY <1>1 DEF CacheCovers, ServedNow, Covered
  <2>1. r.crd \in CRDs
    BY DEF ServedNow, CRDs
  <2>2. servedFor[r.crd] > since
    BY <1>1, <1>2, <2>1, IntervalAssumption
  <2> QED BY <2>2 DEF IInv, CacheCovers
<1>5. CallsInv'
  <2>1. Long \subseteq Long'
    <3> SUFFICES ASSUME NEW c \in Long PROVE c \in Long'
      OBVIOUS
    <3>1. c \in CRDs /\ c \in served /\ servedFor[c] = Interval
      BY DEF Long, IInv, Types
    <3>2. servedFor'[c] = Interval
      BY <1>2, <3>1, IntervalAssumption
    <3> QED BY <1>1, <3>1, <3>2 DEF Long
  <2>2. since = Interval => since' = Interval
    BY <1>1, IntervalAssumption
  <2> QED BY <1>1, <2>1, <2>2
       DEF IInv, CallsInv, CallOK, MissedOK, Wanted, RescanOK, DoneOK, Overlooked, Missed, Covered,
           Excused, Degraded
<1>6. BurstInv'
  BY <1>1 DEF BurstInv
<1> QED BY <1>3, <1>4, <1>5, <1>6 DEF IInv

\* What is installed now is not served for long, and what is removed is not any
\* more.
LEMMA InstallStep == \A c \in CRDs : IInv /\ Install(c) => IInv'
<1> SUFFICES ASSUME NEW c \in CRDs, IInv, Install(c) PROVE IInv'
  OBVIOUS
<1>1. /\ c \notin served /\ served' = served \cup {c} /\ servedFor[c] = 0
      /\ UNCHANGED <<servedFor, cache, since, calls, burst>>
  BY DEF Install, IInv, Types
<1>2. Types' /\ BurstInv'
  BY <1>1 DEF IInv, Types, BurstInv
<1>3. CacheCovers'
  <2> SUFFICES ASSUME cache.valid, NEW r \in ServedNow', servedFor[r.crd] > since
               PROVE  Covered(cache, r)
    BY <1>1 DEF CacheCovers, Covered
  <2>1. r.crd # c
    BY <1>1 DEF IInv, Types
  <2> QED BY <1>1, <2>1 DEF IInv, CacheCovers, ServedNow
<1>4. CallsInv'
  <2>1. Long \subseteq Long'
    BY <1>1 DEF Long
  <2> QED BY <1>1, <2>1
       DEF IInv, CallsInv, CallOK, MissedOK, Wanted, RescanOK, DoneOK, Overlooked, Missed, Covered,
           Excused, Degraded
<1> QED BY <1>2, <1>3, <1>4 DEF IInv

\* and a CRD that goes each keep the invariant.
LEMMA UninstallStep == \A c \in CRDs : IInv /\ Uninstall(c) => IInv'
<1> SUFFICES ASSUME NEW c \in CRDs, IInv, Uninstall(c) PROVE IInv'
  OBVIOUS
<1>1. /\ served' = served \ {c} /\ servedFor' = [servedFor EXCEPT ![c] = 0]
      /\ UNCHANGED <<cache, since, burst>>
  BY DEF Uninstall
<1>2. \A p \in Callers :
        /\ calls'[p] \in Call /\ calls'[p].long = calls[p].long \ {c}
        /\ calls'[p].pc = calls[p].pc /\ calls'[p].query = calls[p].query
        /\ calls'[p].answer = calls[p].answer /\ calls'[p].scanned = calls[p].scanned
        /\ calls'[p].overtaken = calls[p].overtaken
  <2> SUFFICES ASSUME NEW p \in Callers
      PROVE /\ calls'[p] \in Call /\ calls'[p].long = calls[p].long \ {c}
            /\ calls'[p].pc = calls[p].pc /\ calls'[p].query = calls[p].query
            /\ calls'[p].answer = calls[p].answer /\ calls'[p].scanned = calls[p].scanned
            /\ calls'[p].overtaken = calls[p].overtaken
    OBVIOUS
  <2>1. calls[p] \in Call
    BY DEF IInv, Types
  <2>2. calls'[p] = [calls[p] EXCEPT !.long = calls[p].long \ {c}]
    BY DEF Uninstall
  <2> QED BY <2>1, <2>2 DEF Call
<1>3. Types' /\ BurstInv'
  <2>1. calls' = [p \in Callers |-> calls'[p]]
    BY DEF Uninstall
  <2>2. calls' \in [Callers -> Call]
    BY <1>2, <2>1
  <2>3. servedFor' \in [CRDs -> 0..Interval] /\ servedFor'[c] = 0
    BY <1>1, IntervalAssumption DEF IInv, Types
  <2> QED BY <1>1, <2>2, <2>3 DEF IInv, Types, BurstInv
<1>4. CacheCovers'
  BY <1>1 DEF IInv, Types, CacheCovers, ServedNow, Covered, CRDs
<1>5. CallsInv'
  <2>1. Long' = Long \ {c}
    BY <1>1, IntervalAssumption DEF Long, IInv, Types
  <2> QED BY <1>1, <1>2, <2>1
       DEF IInv, CallsInv, CallOK, MissedOK, Wanted, RescanOK, DoneOK, Overlooked, Missed, Covered,
           Excused, Degraded
<1> QED BY <1>3, <1>4, <1>5 DEF IInv

-----------------------------------------------------------------------------
(* The theorems.                                                           *)

\* The invariant holds at the start,
LEMMA InitInv == Init => IInv
<1> SUFFICES ASSUME Init PROVE IInv
  OBVIOUS
<1>1. Types
  BY IdleCall, IntervalAssumption DEF Init, Types, Empty, Cache
<1>2. CacheCovers /\ BurstInv
  BY DEF Init, Empty, CacheCovers, BurstInv
<1>3. CallsInv
  BY IdleCall DEF Init, CallsInv, CallOK, MissedOK, RescanOK, DoneOK, Overlooked
<1> QED BY <1>1, <1>2, <1>3 DEF IInv

\* and every step keeps it.
LEMMA NextInv == IInv /\ [Next]_vars => IInv'
<1> SUFFICES ASSUME IInv, [Next]_vars PROVE IInv'
  OBVIOUS
<1>1. CASE \E p \in Callers, q \in Queries : Resolve(p, q)
  BY <1>1, ResolveStep
<1>2. CASE \E p \in Callers : RESTMapping(p)
  BY <1>2, LookupStep
<1>3. CASE \E p \in Callers : ScanForKind(p)
  BY <1>3, ScanStep
<1>4. ASSUME NEW p \in Callers, InvalidateDiscoveryOnce(p) PROVE IInv'
  <2>1. since < Interval \/ since = Interval
    BY IntervalAssumption DEF IInv, Types
  <2> QED BY <1>4, <2>1, RefusedStep, DropStep
<1>5. CASE \E p \in Callers : Rescan(p)
  BY <1>5, RescanStep
<1>6. CASE Tick
  BY <1>6, TickStep
<1>7. CASE \E c \in CRDs : Install(c) \/ Uninstall(c)
  BY <1>7, InstallStep, UninstallStep
<1>8. CASE \E o \in Outages : Outage(o)
  <2>1. UNCHANGED <<served, servedFor, cache, since, calls, burst>>
    BY <1>8 DEF Outage
  <2> QED BY <2>1
       DEF IInv, Types, CacheCovers, BurstInv, ServedNow, Long, CallsInv, CallOK, MissedOK,
           Wanted, RescanOK, DoneOK, Overlooked, Missed, Covered,
           Excused, Degraded
<1>9. CASE UNCHANGED vars
  BY <1>9 DEF vars, IInv, Types, CacheCovers, BurstInv, ServedNow, Long, CallsInv, CallOK,
              MissedOK, Wanted, RescanOK, DoneOK, Overlooked, Missed, Covered,
           Excused, Degraded
<1> QED BY <1>1, <1>2, <1>3, <1>4, <1>5, <1>6, <1>7, <1>8, <1>9 DEF Next, CallerStep, Environment

\* Whatever the callers, CRDs, outages and ticks do, the discovery state of
\* client.go keeps the inductive invariant.
THEOREM DiscoveryInvariant == Spec => []IInv
<1> QED BY InitInv, NextInv, PTL DEF Spec

\* Resolve reports a kind missing that was served for invalidateInterval only
\* when its last scan could not read some group or met an ambiguity, or when
\* another call dropped the cache in between.
THEOREM MissesExcused == Spec => []NoUnexcusedMiss
<1>1. IInv => NoUnexcusedMiss
  BY DEF IInv, CallsInv, CallOK, DoneOK, NoUnexcusedMiss
<1> QED BY <1>1, DiscoveryInvariant, PTL

\* However many calls miss at once, invalidateDiscoveryOnce lets them read the
\* whole discovery at most twice before time passes.
THEOREM RediscoveryBounded == Spec => []BoundedRediscovery
<1>1. IInv => BoundedRediscovery
  BY DEF IInv, Types, Cache, BurstInv, BoundedRediscovery
<1> QED BY <1>1, DiscoveryInvariant, PTL
=============================================================================
