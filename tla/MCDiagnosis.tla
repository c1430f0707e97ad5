------------------------------ MODULE MCDiagnosis ------------------------------
(***************************************************************************)
(* Families of trees.  A single object says everything it can say: up to   *)
(* two conditions, events that qualify or not, paused and deleted or not;  *)
(* or it is a native one that a rule judges; or it carries an error of any *)
(* five lines.  And a composite with three more resources below it, of     *)
(* every kind of health, that mirror their errors.                         *)
(***************************************************************************)
EXTENDS Prefetch, NativeReadiness

C(type, status, text) == [type |-> type, status |-> status, text |-> text, hints |-> <<>>]

Conds == {C("Ready", "True", ""), C("Ready", "False", "noise"), C("Ready", "False", ""),
          C("Ready", "Unknown", "genuine"), C("Synced", "False", "genuine"),
          C("Synced", "True", ""), C("Responsive", "True", "")}

E(reason, composition, count, last) ==
  [reason |-> reason, warning |-> TRUE, composition |-> composition,
   count |-> count, last |-> last, hints |-> <<>>]

\* The same thing with the payloads of provider-terraform in its message.
With(said, hints) == [said EXCEPT !.hints = hints]

\* A composition error that recurs, with a later and with an earlier rival,
\* behind newer and louder events that do not qualify.
Recurring == <<E("ComposeResources", TRUE, 9, 1), E("Compose", TRUE, 9, 2),
               E("Flake", FALSE, 99, 3), E("Flake", FALSE, 1, 4)>>
Quiet == <<E("Compose", TRUE, 1, 1), E("Flake", FALSE, 99, 2)>>

N(depth, native, conds, rule, deleting, paused, events) ==
  [depth |-> depth, native |-> native, conds |-> conds, rule |-> rule, error |-> FALSE,
   deleting |-> deleting, paused |-> paused, events |-> events]

CondSeqs == {<<>>} \cup {<<c>> : c \in Conds} \cup {<<c, d>> : c, d \in Conds}

SingleObjects ==
  {<<N(0, native, conds, Declined, deleting, paused, events)>> :
     native \in BOOLEAN, conds \in CondSeqs,
     deleting \in BOOLEAN, paused \in BOOLEAN, events \in {<<>>, Recurring, Quiet}}

\* One object of each native kind: all that its rule tells apart.
Objects(gk, conds, phases) ==
  {[gk |-> gk, conds |-> cs, phase |-> p, said |-> "", hints |-> <<>>, status |-> status,
    ready |-> ready, want |-> 1] :
     cs \in conds, p \in phases, status \in BOOLEAN, ready \in {0, 1}}

Rollout == {<<p, a, r>> : p \in {C("Progressing", "False", "deadline"), C("Progressing", "False", "genuine")},
                          a \in {C("Available", "True", ""), C("Available", "Unknown", "noise")},
                          r \in {C("ReplicaFailure", "True", ""), C("ReplicaFailure", "False", "")}}
           \cup {<<a>> : a \in {C("Available", "True", ""), C("Available", "Unknown", "noise")}}

\* A pod also says things beside its conditions.
Pods ==
  {[o EXCEPT !.said = said, !.hints = IF said = "" THEN <<>> ELSE hints] :
     o \in Objects("/Pod", {<<>>, <<C("Ready", "False", "")>>, <<C("Ready", "False", "genuine")>>},
                    {"", "Running", "Succeeded", "Failed"}),
     said \in {"", "noise", "genuine"}, hints \in {<<>>, <<9>>}}

NativeObjects ==
  Objects("apps/Deployment", Rollout, {""})
  \cup Objects("batch/Job", {<<>>, <<C("Complete", "True", "")>>, <<C("Failed", "True", "")>>,
                             <<C("Failed", "True", "noise"), C("Complete", "False", "")>>}, {""})
  \cup Objects("/PersistentVolumeClaim", {<<>>, <<C("Resizing", "False", "")>>}, {"", "Bound", "Lost", "Pending"})
  \cup Pods
  \cup Objects("apps/StatefulSet", {<<>>}, {""})
  \cup Objects("/Node", {<<C("MemoryPressure", "False", "genuine")>>}, {""})

NativeSingles ==
  {<<N(0, TRUE, o.conds, NativeReadiness(o), deleting, FALSE, events)>> :
     o \in NativeObjects, deleting \in BOOLEAN, events \in {<<>>, Recurring}}

\* Payloads 0 to 1023 decode to every mix of five lines, 2000 to what 1 decodes
\* to, wrapped another way, and 6000 to nothing.
Class == <<"blank", "error", "log", "plain">>

MCHints == 0..2000

MCText(h) == h % 1999
MCLinesIn(text) == [i \in 1..5 |-> Class[((text \div 4^(i - 1)) % 4) + 1]]

Blobs ==
  {<<N(0, FALSE, <<With(C("Synced", "False", "genuine"), <<h>>)>>, Declined, FALSE, FALSE, <<>>)>> :
     h \in 0..1023}

\* The first failure is a flake without a payload, and the events repeat what
\* the conditions carry, or bring something else.
Mirror(hints) ==
  <<C("Ready", "False", "noise"), With(C("Synced", "False", "genuine"), hints)>>

Kinds(depth) ==
  {N(depth, FALSE, <<C("Ready", "True", "")>>, Declined, FALSE, FALSE, <<>>),
   N(depth, FALSE, <<C("Ready", "True", "")>>, Declined, TRUE, FALSE, Quiet),
   N(depth, FALSE, <<C("Ready", "False", "noise")>>, Declined, FALSE, FALSE, Recurring),
   N(depth, FALSE, Mirror(<<6000, 2000>>), Declined, FALSE, FALSE,
     <<With(E("Compose", TRUE, 9, 1), <<1>>)>>),
   N(depth, FALSE, <<>>, Declined, FALSE, TRUE, <<With(E("Compose", TRUE, 1, 1), <<0, 2, 1>>)>>),
   N(depth, TRUE, <<>>, Declined, FALSE, FALSE, <<>>)}
  \cup
  (IF depth = 0 THEN {} ELSE
   {[N(depth, FALSE, <<>>, Declined, FALSE, FALSE, <<>>) EXCEPT !.error = TRUE]})

Flaky == {k \in Kinds(1) : k.conds # <<>> /\ k.conds[1].text = "noise"}

Composites ==
  {<<root, a, b, c>> :
     root \in Kinds(0), a \in Kinds(1), b \in Kinds(2), c \in Flaky}

AllTrees ==
  {[capped |-> FALSE, nodes |-> nodes] : nodes \in NativeSingles \cup Blobs \cup Composites}
  \cup {[capped |-> capped, nodes |-> nodes] : capped \in BOOLEAN, nodes \in SingleObjects}

\* TLC evaluates what stands for a constant at each use, but a definition once.
MCTrees == AllTrees
=============================================================================
